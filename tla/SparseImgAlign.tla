---------------------------- MODULE SparseImgAlign ----------------------------
(***************************************************************************)
(* Sparse image alignment (externals/svo/src/sparse_img_align.cpp): the    *)
(* pose of a new image is optimized on one level of the image pyramid      *)
(* after the other, from coarse to fine, on patches around the features of *)
(* the last image.  They are cached, and which features are visible is     *)
(* remembered from level to level ("TODO: should it be reset at each       *)
(* level?").                                                               *)
(*                                                                         *)
(* A column of the image is modelled, of which a patch has to keep clear   *)
(* of both ends; a feature without a point counts like one at the border.  *)
(***************************************************************************)
EXTENDS NLLSSolver

CONSTANTS
  Features,
  Positions,   \* where a feature may be, in pixels of level 0
  Cols,        \* size of the image at level 0
  Border,      \* patch_halfsize_ + 1
  MinLevel, MaxLevel,
  Scale        \* pixels of level 0 to one of each level: 1 << level_

ASSUME ImageAssumption ==
  /\ Positions \subseteq 0 .. Cols - 1
  /\ Cols \in Nat /\ Border \in Nat
  /\ MinLevel \in Nat /\ MaxLevel \in Nat /\ MinLevel <= MaxLevel
  /\ Scale \in [0 .. MaxLevel -> Nat \ {0}]
  /\ \A level \in 1 .. MaxLevel : Scale[level] = 2 * Scale[level - 1]

VARIABLES
  px,           \* of each feature of ref_frame_
  level_,
  visible_fts_,
  patch_level   \* the level ref_patch_cache_ has each feature's patch from; -1 if none

vars == <<solverVars, px, level_, visible_fts_, patch_level>>

Init ==
  /\ SolverInit /\ pc = "idle"
  /\ px \in [Features -> Positions]
  /\ level_ = MinLevel - 1
  /\ visible_fts_ = {} /\ patch_level = [f \in Features |-> -1]

(* A new frame, aligned to the last one by an object of its own.            *)
Run ==
  /\ pc = "idle" /\ pc' = "level"
  /\ Reset
  /\ px' \in [Features -> Positions]
  /\ model' \in Models
  /\ level_' = MaxLevel
  /\ visible_fts_' = {} /\ patch_level' = [f \in Features |-> -1]
  /\ UNCHANGED <<method_, err, old_model, n_trials_, history>>

(* Whether the patch around x is inside the image of the level.             *)
InImage(x, level) ==
  LET u == x \div Scale[level]
  IN  u >= Border /\ u + Border < Cols \div Scale[level]

(* precomputeReferencePatches, the first thing computeResiduals does at a   *)
(* level: patches of features that do not fit are left as they were.        *)
PrecomputeReferencePatches ==
  LET seen == {f \in Features : InImage(px[f], level_)}
  IN  /\ visible_fts_' = visible_fts_ \cup seen
      /\ patch_level' = [f \in Features |-> IF f \in seen THEN level_ ELSE patch_level[f]]

(* Mutant: have_ref_patch_cache_ is set for the coarsest level only.        *)
NewPatchesOnce ==
  IF level_ = MaxLevel THEN PrecomputeReferencePatches ELSE UNCHANGED <<visible_fts_, patch_level>>

NewPatches == PrecomputeReferencePatches

(* One level: no error is a number if no feature is visible.                *)
OptimizeLevel ==
  /\ pc = "level"
  /\ NewPatches
  /\ \E e \in [Models -> IF visible_fts_' = {} THEN {NaN} ELSE Errors] : Optimize(e)
  /\ UNCHANGED <<px, level_>>

NextLevel ==
  /\ pc = "returned"
  /\ level_' = level_ - 1
  /\ pc' = IF level_ = MinLevel THEN "idle" ELSE "level"
  /\ UNCHANGED <<method_, err, model, old_model, chi2_, measured, iter_, n_trials_, stop_, history,
                 px, visible_fts_, patch_level>>

Iterate == SolverStep /\ UNCHANGED <<px, level_, visible_fts_, patch_level>>

RunStep == OptimizeLevel \/ Iterate \/ NextLevel

Next == Run \/ RunStep

Spec == Init /\ [][Next]_vars

(* Once it is called, run goes on.                                          *)
FairSpec == Spec /\ WF_vars(RunStep)

-----------------------------------------------------------------------------
(* Properties                                                               *)

(* The patch of a visible feature is that of the level being optimized,     *)
(* though visible_fts_ is never reset: what fits at a coarse level fits at  *)
(* a finer one.                                                            *)
PatchesOfLevel ==
  pc \in {"gauss-newton", "levenberg-marquardt"} =>
    \A f \in visible_fts_ : patch_level[f] = level_

(* Every call of run returns: the iterations and the trials end.            *)
RunReturns == (pc = "level") ~> (pc = "idle")
=============================================================================
