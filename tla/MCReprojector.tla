----------------------------- MODULE MCReprojector -----------------------------
(* Instances of Reprojector for TLC.                                        *)
EXTENDS Reprojector, TLC

(* Failures after which a point goes: more for a candidate.                 *)
FailedLimits == [unknown |-> 1, candidate |-> 2]

(* Points are interchangeable, and so are keyframes.                        *)
PointSymmetry == Permutations(Points) \cup Permutations(Keyframes)
=============================================================================
