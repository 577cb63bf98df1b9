------------------------------ MODULE SeedFilter ------------------------------
(***************************************************************************)
(* What the depth filter promises the tracker                              *)
(* (externals/svo/src/depth_filter.h): it makes seeds for the keyframes it *)
(* was given and for no other frames, once or, if the slot is read while   *)
(* it is written, twice, or never, if the next keyframe takes the slot;    *)
(* and what seeds it has, it may lose at any time.  DepthFilter implements *)
(* it; FrameHandlerMono rests on it.                                       *)
(***************************************************************************)
CONSTANT Frames

VARIABLES
  given,   \* the keyframes it may still make seeds for
  seeded   \* the frames it has seeds of

Init == given = {} /\ seeded = {}

(* addKeyframe, of a frame that was not given before.                       *)
Give(f) == f \notin given \cup seeded /\ given' = given \cup {f} /\ UNCHANGED seeded

(* initializeSeeds, or a keyframe that is passed over.                      *)
MakeSeeds ==
  \E f \in given : given' \in {given, given \ {f}} /\ seeded' \in {seeded, seeded \cup {f}}

(* The last seed of a frame is erased: by updateSeeds or removeKeyframe.    *)
Erase(f) == seeded' = seeded \ {f} /\ UNCHANGED given

(* reset, which does not forget a keyframe that waits.                      *)
Clear == seeded' = {} /\ UNCHANGED given

Next == MakeSeeds \/ Clear \/ \E f \in Frames : Give(f) \/ Erase(f)

Spec == Init /\ [][Next]_<<given, seeded>>
=============================================================================
