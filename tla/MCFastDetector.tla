----------------------------- MODULE MCFastDetector -----------------------------
(* Instances of FastDetector for TLC.                                       *)
EXTENDS FastDetector

(* A pixel of the first cell.                                               *)
FirstCell == {<<1, 0>>}
=============================================================================
