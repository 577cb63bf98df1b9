--------------------------- MODULE MCFrameHandlerMono ---------------------------
(* Instances of FrameHandlerMono for TLC.                                   *)
EXTENDS FrameHandlerMono

(* Frames are interchangeable, and so are points: for the safety runs.      *)
GraphSymmetry == Permutations(Frames) \cup Permutations(Points)
=============================================================================
