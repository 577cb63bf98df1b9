---------------------------- MODULE MCSparseImgAlign ----------------------------
(* Instances of SparseImgAlign for TLC.                                     *)
EXTENDS SparseImgAlign

PowersOfTwo == [level \in 0 .. MaxLevel |-> 2^level]
=============================================================================
