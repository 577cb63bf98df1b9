-------------------------- MODULE SparseImgAlignProofs --------------------------
(***************************************************************************)
(* NeverWorse and PatchesOfLevel, for every set of models, every errors,   *)
(* and every image, border and range of levels.                            *)
(***************************************************************************)
EXTENDS SparseImgAlign, TLAPS

Optimizing == {"gauss-newton", "levenberg-marquardt"}

(* The types.                                                               *)
TInv ==
  /\ method_ \in Methods
  /\ err \in [Models -> Errors]
  /\ model \in Models /\ old_model \in Models /\ start \in Models
  /\ chi2_ \in Errors /\ measured \in BOOLEAN
  /\ stop_ \in BOOLEAN /\ undefined \in BOOLEAN
  /\ iter_ \in Nat /\ n_trials_ \in Nat
  /\ pc \in {"idle", "level", "returned"} \cup Optimizing
  /\ px \in [Features -> Positions]
  /\ level_ \in Int
  /\ visible_fts_ \subseteq Features
  /\ patch_level \in [Features -> Int]

(* Gauss-Newton holds the error of the model it would go back to.           *)
GNInv ==
  /\ method_ = "GaussNewton"
  /\ \/ undefined
     \/ iter_ = 0 /\ old_model = start /\ model = start
     \/ /\ iter_ > 0 /\ chi2_ = err[old_model]
        /\ chi2_ \in Int /\ err[start] \in Int /\ chi2_ <= err[start]

(* Levenberg-Marquardt holds the error of its model, once it has accepted   *)
(* one; before, what it holds is no higher than the error.                  *)
LMInv ==
  /\ method_ = "LevenbergMarquardt"
  /\ ~Less(err[start], chi2_)
  /\ model = start \/ chi2_ = err[model]

(* The invariant of the solver.                                             *)
SInv ==
  /\ pc = "gauss-newton" => GNInv
  /\ pc = "levenberg-marquardt" => LMInv
  /\ pc = "returned" => undefined \/ ~Less(err[start], err[Accepted])

(* The invariant of the levels: before a level begins the visible features  *)
(* are inside the image of the level before.                               *)
LInv ==
  /\ pc # "idle" => level_ \in MinLevel .. MaxLevel
  /\ pc = "level" =>
       \/ visible_fts_ = {}
       \/ level_ < MaxLevel /\ \A f \in visible_fts_ : InImage(px[f], level_ + 1)
  /\ pc \in Optimizing \cup {"returned"} =>
       \A f \in visible_fts_ : InImage(px[f], level_) /\ patch_level[f] = level_

-----------------------------------------------------------------------------
(* Arithmetic                                                               *)

(* Halving the scale doubles a coordinate, up to a pixel.                   *)
LEMMA Halving ==
  ASSUME NEW x \in Nat, NEW a \in Nat \ {0}
  PROVE  /\ x \div a \in Nat /\ x \div (2 * a) \in Nat
         /\ 2 * (x \div (2 * a)) <= x \div a
         /\ x \div a <= 2 * (x \div (2 * a)) + 1
  BY SMT

(* Halving the scale keeps a patch inside: what is visible at a level is    *)
(* visible at the next finer one.                                          *)
LEMMA FinerImage ==
  ASSUME NEW x \in 0 .. Cols - 1, NEW level \in 0 .. MaxLevel - 1, InImage(x, level + 1)
  PROVE  InImage(x, level)
<1> DEFINE a == Scale[level]
<1>1. a \in Nat \ {0} /\ Scale[level + 1] = 2 * a
  <2>1. level \in 0 .. MaxLevel /\ level + 1 \in 1 .. MaxLevel /\ level + 1 - 1 = level
    BY ImageAssumption
  <2> QED BY <2>1, ImageAssumption
<1> HIDE DEF a
<1>2. x \in Nat /\ Cols \in Nat /\ Border \in Nat
  BY ImageAssumption
<1>3. x \div (2 * a) >= Border /\ x \div (2 * a) + Border < Cols \div (2 * a)
  BY <1>1 DEF InImage
<1>4. /\ x \div a \in Nat /\ x \div (2 * a) \in Nat
      /\ 2 * (x \div (2 * a)) <= x \div a /\ x \div a <= 2 * (x \div (2 * a)) + 1
  BY <1>1, <1>2, Halving
<1>5. Cols \div a \in Nat /\ Cols \div (2 * a) \in Nat /\ 2 * (Cols \div (2 * a)) <= Cols \div a
  BY <1>1, <1>2, Halving
<1>6. x \div a >= Border /\ x \div a + Border < Cols \div a
  BY <1>2, <1>3, <1>4, <1>5
<1> QED BY <1>6 DEF InImage, a

-----------------------------------------------------------------------------
(* The solver                                                               *)

LEMMA InitialErrorsLow ==
  ASSUME NEW e \in Errors
  PROVE  InitialErrors(e) \subseteq Errors /\ \A chi2 \in InitialErrors(e) : ~Less(e, chi2)
BY SolverAssumption DEF InitialErrors, Errors, Less

LEMMA InitTInv == Init => TInv
<1>1. MaxError \in Errors /\ NaN \in Errors
  BY SolverAssumption DEF Errors
<1>2. MinLevel - 1 \in Int
  BY ImageAssumption
<1>3. ASSUME Init PROVE TInv
  <2>1. err \in [Models -> Errors] /\ patch_level \in [Features -> Int] /\ level_ \in Int
    BY <1>1, <1>2, <1>3 DEF Init, SolverInit
  <2> QED BY <1>1, <1>3, <2>1 DEF Init, SolverInit, TInv, Optimizing
<1> QED BY <1>3

LEMMA StepTInv == TInv /\ [Next]_vars => TInv'
<1>s. SUFFICES ASSUME TInv, [Next]_vars PROVE TInv'
  OBVIOUS
<1> USE <1>s DEF TInv, Optimizing
<1>0. MaxError \in Errors /\ NaN \in Errors /\ NIter \in Nat /\ NTrialsMax \in Nat
  BY SolverAssumption DEF Errors
<1>1. CASE Run
  <2>1. patch_level' \in [Features -> Int] /\ level_' \in Int /\ px' \in [Features -> Positions]
    BY <1>1, ImageAssumption DEF Run
  <2> QED BY <1>0, <1>1, <2>1 DEF Run, Reset, history
<1>2. CASE OptimizeLevel
  <2>1. PICK e \in [Models -> IF visible_fts_' = {} THEN {NaN} ELSE Errors] : Optimize(e)
    BY <1>2 DEF OptimizeLevel
  <2>2. e \in [Models -> Errors]
    BY <1>0, <2>1
  <2>3. chi2_' \in Errors /\ measured' \in BOOLEAN /\ pc' \in Optimizing
    BY <2>1, <2>2, InitialErrorsLow DEF Optimize
  <2>4. visible_fts_' \subseteq Features /\ patch_level' \in [Features -> Int]
    BY <1>2 DEF OptimizeLevel, NewPatches, PrecomputeReferencePatches
  <2> QED BY <1>2, <2>1, <2>2, <2>3, <2>4 DEF OptimizeLevel, Optimize
<1>3. CASE Iterate
  <2>1. CASE GNRollBack
    BY <1>3, <2>1 DEF Iterate, GNRollBack, history
  <2>2. CASE GNUpdate
    BY <1>3, <2>2 DEF Iterate, GNUpdate
  <2>3. CASE GNExhausted
    BY <1>3, <2>3 DEF Iterate, GNExhausted, history
  <2>4. CASE LMAccept
    BY <1>3, <2>4 DEF Iterate, LMAccept, history
  <2>5. CASE LMReject
    <3>1. stop_' \in BOOLEAN /\ measured' \in BOOLEAN
      BY <2>5, Zenon DEF LMReject
    <3>2. n_trials_' \in Nat
      BY <1>0, <2>5 DEF LMReject
    <3> QED BY <1>3, <2>5, <3>1, <3>2 DEF Iterate, LMReject, history
  <2> QED BY <1>3, <2>1, <2>2, <2>3, <2>4, <2>5 DEF Iterate, SolverStep
<1>4. CASE NextLevel
  BY <1>4, ImageAssumption DEF NextLevel, history
<1>5. CASE UNCHANGED vars
  BY <1>5 DEF vars, solverVars, history
<1> QED BY <1>1, <1>2, <1>3, <1>4, <1>5 DEF Next, RunStep

(* One step at a time: what Gauss-Newton takes has an error no higher than  *)
(* the last, what Levenberg-Marquardt takes a lower one.                    *)
LEMMA StepSInv == TInv /\ SInv /\ [Next]_vars => SInv'
<1>s. SUFFICES ASSUME TInv, SInv, [Next]_vars PROVE SInv'
  OBVIOUS
<1> USE <1>s, SolverAssumption DEF TInv, Optimizing
<1>1. CASE Run
  BY <1>1 DEF Run, SInv
<1>2. CASE OptimizeLevel
  <2>1. PICK e \in [Models -> IF visible_fts_' = {} THEN {NaN} ELSE Errors] : Optimize(e)
    BY <1>2 DEF OptimizeLevel
  <2>2. e[model] \in Errors
    BY <2>1 DEF Errors
  <2>3. CASE method_ = "GaussNewton" /\ pc' = "gauss-newton"
    BY <2>1, <2>3 DEF Optimize, SInv, GNInv
  <2>4. CASE method_ = "LevenbergMarquardt" /\ pc' = "levenberg-marquardt"
    BY <2>1, <2>2, <2>4, InitialErrorsLow DEF Optimize, SInv, LMInv
  <2> QED BY <2>1, <2>3, <2>4 DEF Optimize
<1>3. CASE GNRollBack
  BY <1>3 DEF GNRollBack, history, SInv, GNInv, Accepted, Less
<1>4. CASE GNUpdate
  BY <1>4 DEF GNUpdate, SInv, GNInv, Accepted, Less, ErrorGrew, Errors
<1>5. CASE GNExhausted
  BY <1>5 DEF GNExhausted, history, SInv, GNInv, Accepted, Less
<1>6. CASE LMAccept
  BY <1>6 DEF LMAccept, history, SInv, LMInv, Accepted, Less, Methods, Errors
<1>7. CASE LMReject
  BY <1>7 DEF LMReject, history, SInv, LMInv, Accepted, Less
<1>8. CASE NextLevel
  BY <1>8 DEF NextLevel, SInv
<1>9. CASE UNCHANGED vars
  BY <1>9 DEF vars, solverVars, history, SInv, GNInv, LMInv, Accepted
<1> QED
  BY <1>1, <1>2, <1>3, <1>4, <1>5, <1>6, <1>7, <1>8, <1>9 DEF Next, RunStep, Iterate, SolverStep

(* What either method accepts is never worse than what it began with,       *)
(* whatever the errors, unless Gauss-Newton went on from an undefined one.  *)
THEOREM NeverWorseCorrect == Spec => []NeverWorse
<1>1. Init => SInv
  BY DEF Init, SInv
<1>2. TInv /\ SInv => NeverWorse
  BY DEF TInv, SInv, GNInv, LMInv, NeverWorse, Accepted, Less
<1> QED BY InitTInv, StepTInv, StepSInv, <1>1, <1>2, PTL DEF Spec

-----------------------------------------------------------------------------
(* The levels                                                               *)

LEMMA StepLInv == TInv /\ LInv /\ [Next]_vars => LInv'
<1>s. SUFFICES ASSUME TInv, LInv, [Next]_vars PROVE LInv'
  OBVIOUS
<1> USE <1>s, ImageAssumption DEF TInv, Optimizing
<1>1. CASE Run
  BY <1>1 DEF Run, LInv
<1>2. CASE OptimizeLevel
  <2>1. level_ \in MinLevel .. MaxLevel /\ level_' = level_ /\ px' = px /\ pc' \in Optimizing
    BY <1>2 DEF OptimizeLevel, Optimize, LInv
  <2>2. ASSUME NEW f \in visible_fts_
        PROVE  InImage(px[f], level_)
    <3>1. level_ < MaxLevel /\ InImage(px[f], level_ + 1)
      BY <1>2, <2>2 DEF OptimizeLevel, LInv
    <3>2. px[f] \in 0 .. Cols - 1
      BY <2>2
    <3>3. level_ \in 0 .. MaxLevel - 1
      BY <2>1, <3>1
    <3> QED BY <3>1, <3>2, <3>3, FinerImage
  <2>3. ASSUME NEW f \in visible_fts_'
        PROVE  InImage(px[f], level_) /\ patch_level'[f] = level_
    BY <1>2, <2>2, <2>3 DEF OptimizeLevel, NewPatches, PrecomputeReferencePatches
  <2>4. \A f \in visible_fts_' : InImage(px[f], level_)' /\ patch_level'[f] = level_'
    BY <2>1, <2>3 DEF InImage
  <2> QED BY <2>1, <2>4 DEF LInv
<1>3. CASE Iterate
  <2>1. UNCHANGED <<px, level_, visible_fts_, patch_level>> /\ pc \in Optimizing
        /\ pc' \in Optimizing \cup {"returned"}
    BY <1>3 DEF Iterate, SolverStep, GNRollBack, GNUpdate, GNExhausted, LMAccept, LMReject
  <2> QED BY <2>1 DEF LInv, InImage
<1>4. CASE NextLevel
  <2>1. level_ \in MinLevel .. MaxLevel /\ \A f \in visible_fts_ : InImage(px[f], level_)
    BY <1>4 DEF NextLevel, LInv
  <2>2. CASE level_ = MinLevel
    BY <1>4, <2>2 DEF NextLevel, LInv
  <2>3. CASE level_ # MinLevel
    <3>1. level_' \in MinLevel .. MaxLevel /\ level_' < MaxLevel /\ level_' + 1 = level_
      BY <1>4, <2>1, <2>3 DEF NextLevel
    <3>2. pc' = "level" /\ UNCHANGED <<px, visible_fts_>>
      BY <1>4, <2>3 DEF NextLevel
    <3> QED BY <2>1, <3>1, <3>2 DEF LInv, InImage
  <2> QED BY <2>2, <2>3
<1>5. CASE UNCHANGED vars
  BY <1>5 DEF vars, solverVars, LInv, InImage
<1> QED BY <1>1, <1>2, <1>3, <1>4, <1>5 DEF Next, RunStep

(* The patch of a visible feature is that of the level being optimized, for *)
(* images of any size, any border and any range of levels.                  *)
THEOREM PatchesCorrect == Spec => []PatchesOfLevel
<1>1. Init => LInv
  BY DEF Init, LInv, Optimizing
<1>2. LInv => PatchesOfLevel
  BY DEF LInv, PatchesOfLevel, Optimizing
<1> QED BY InitTInv, StepTInv, StepLInv, <1>1, <1>2, PTL DEF Spec

-----------------------------------------------------------------------------
(* The number of steps                                                      *)

(* What a counter of iterations or trials may be while it counts.           *)
CountersInv ==
  /\ pc = "gauss-newton" => iter_ \in 0 .. NIter
  /\ pc = "levenberg-marquardt" => iter_ \in 0 .. NIter - 1 /\ n_trials_ \in 0 .. NTrialsMax - 1

(* How many steps of the solver are left at most: every iteration of        *)
(* Levenberg-Marquardt has its trials, and the next begins with all again.  *)
IterationsLeft ==
  IF pc = "gauss-newton" THEN NIter - iter_ + 1
  ELSE IF pc = "levenberg-marquardt" THEN (NIter - iter_) * NTrialsMax - n_trials_
  ELSE 0

(* How many a level takes at most, by either method.                        *)
LevelSteps == NIter * NTrialsMax + NIter + 3

(* How many steps are left of a run.                                        *)
StepsLeft ==
  IF pc = "idle" THEN 0
  ELSE IF pc = "level" THEN (level_ - MinLevel + 1) * LevelSteps
  ELSE (level_ - MinLevel) * LevelSteps + IterationsLeft + 1

(* A run has a limited number of steps left, and each leaves it fewer.      *)
StepsRunOut ==
  /\ [](StepsLeft \in 0 .. (MaxLevel - MinLevel + 1) * LevelSteps)
  /\ [][RunStep => StepsLeft' < StepsLeft]_vars

LEMMA Times ==
  ASSUME NEW k \in Nat, NEW n \in Nat
  PROVE  k * n \in Nat /\ (k + 1) * n = k * n + n /\ (k > 0 => k * n >= n)
<1>1. k * n \in Nat /\ (k + 1) * n = k * n + n
  OBVIOUS
<1>2. ASSUME k > 0 PROVE k * n >= n
  <2>1. k - 1 \in Nat /\ (k - 1) * n \in Nat /\ k * n = (k - 1) * n + n
    BY <1>2
  <2> QED BY <2>1
<1> QED BY <1>1, <1>2

(* An iteration of Gauss-Newton is counted unless it is the last.           *)
LEMMA GaussNewtonStep ==
  ASSUME TInv, CountersInv, GNRollBack \/ GNUpdate \/ GNExhausted
  PROVE  /\ pc = "gauss-newton" /\ iter_ \in 0 .. NIter
         /\ \/ pc' = "returned"
            \/ pc' = "gauss-newton" /\ iter_ < NIter /\ iter_' = iter_ + 1
<1>1. pc = "gauss-newton"
  BY DEF GNRollBack, GNUpdate, GNExhausted
<1>2. CASE GNRollBack
  BY <1>1, <1>2 DEF GNRollBack, CountersInv
<1>3. CASE GNUpdate
  BY <1>1, <1>3 DEF GNUpdate, CountersInv
<1>4. CASE GNExhausted
  BY <1>1, <1>4 DEF GNExhausted, CountersInv
<1> QED BY <1>2, <1>3, <1>4

LEMMA StepCounters == TInv /\ CountersInv /\ [Next]_vars => CountersInv'
<1>s. SUFFICES ASSUME TInv, CountersInv, [Next]_vars PROVE CountersInv'
  OBVIOUS
<1> USE <1>s, SolverAssumption DEF TInv, CountersInv
<1>1. CASE Run
  BY <1>1 DEF Run
<1>2. CASE OptimizeLevel
  BY <1>2 DEF OptimizeLevel, Optimize
<1>3. CASE GNRollBack \/ GNUpdate \/ GNExhausted
  BY <1>3, GaussNewtonStep
<1>4. CASE LMAccept
  BY <1>4 DEF LMAccept
<1>5. CASE LMReject
  <2>1. pc = "levenberg-marquardt" /\ n_trials_' = n_trials_ + 1 /\ iter_' = iter_
    BY <1>5 DEF LMReject
  <2>2. pc' = pc => ~TooManyTrials(n_trials_ + 1)
    BY <1>5 DEF LMReject
  <2>3. pc' \in {pc, "returned"}
    BY <1>5 DEF LMReject
  <2> QED BY <2>1, <2>2, <2>3 DEF TooManyTrials
<1>6. CASE NextLevel
  BY <1>6 DEF NextLevel
<1>7. CASE UNCHANGED vars
  BY <1>7 DEF vars, solverVars
<1> QED
  BY <1>1, <1>2, <1>3, <1>4, <1>5, <1>6, <1>7 DEF Next, RunStep, Iterate, SolverStep

(* A step of the solver leaves fewer.                                       *)
LEMMA IterationsShorten ==
  ASSUME TInv, CountersInv, CountersInv', SolverStep
  PROVE  /\ IterationsLeft \in Nat /\ IterationsLeft' \in Nat
         /\ IterationsLeft' < IterationsLeft
         /\ pc \in Optimizing /\ pc' \in Optimizing \cup {"returned"}
<1> USE SolverAssumption DEF TInv, CountersInv, Optimizing
<1>1. CASE GNRollBack \/ GNUpdate \/ GNExhausted
  <2>1. pc = "gauss-newton" /\ iter_ \in 0 .. NIter
    BY <1>1, GaussNewtonStep
  <2>2. IterationsLeft = NIter - iter_ + 1
    BY <2>1 DEF IterationsLeft
  <2>3. CASE pc' = "returned"
    BY <2>1, <2>2, <2>3 DEF IterationsLeft
  <2>4. CASE pc' = "gauss-newton" /\ iter_ < NIter /\ iter_' = iter_ + 1
    <3>1. IterationsLeft' = NIter - iter_' + 1
      BY <2>4 DEF IterationsLeft
    <3> QED BY <2>1, <2>2, <2>4, <3>1
  <2> QED BY <1>1, <2>3, <2>4, GaussNewtonStep
<1>2. ASSUME pc = "levenberg-marquardt"
      PROVE  /\ IterationsLeft = (NIter - iter_) * NTrialsMax - n_trials_
             /\ IterationsLeft \in Nat /\ IterationsLeft > 0
             /\ (NIter - iter_ - 1) * NTrialsMax \in Nat
             /\ (NIter - iter_) * NTrialsMax = (NIter - iter_ - 1) * NTrialsMax + NTrialsMax
  <2>1. NIter - iter_ - 1 \in Nat /\ NIter - iter_ - 1 + 1 = NIter - iter_
    BY <1>2
  <2>2. /\ (NIter - iter_ - 1) * NTrialsMax \in Nat
        /\ (NIter - iter_) * NTrialsMax = (NIter - iter_ - 1) * NTrialsMax + NTrialsMax
    BY <2>1, Times
  <2>3. IterationsLeft = (NIter - iter_) * NTrialsMax - n_trials_
    BY <1>2 DEF IterationsLeft
  <2> QED BY <1>2, <2>2, <2>3
<1>3. CASE LMAccept
  <2>1. pc = "levenberg-marquardt" /\ pc' \in {pc, "returned"} /\ n_trials_' = 0
    BY <1>3 DEF LMAccept
  <2>2. CASE pc' = "returned"
    BY <1>2, <2>1, <2>2 DEF IterationsLeft
  <2>3. CASE pc' = pc
    <3>1. iter_' = iter_ + 1 /\ pc' = "levenberg-marquardt"
      BY <1>3, <2>1, <2>3 DEF LMAccept
    <3>2. NIter - iter_' = NIter - iter_ - 1
      BY <2>1, <3>1
    <3>3. IterationsLeft' = (NIter - iter_ - 1) * NTrialsMax - 0
      BY <2>1, <3>1, <3>2 DEF IterationsLeft
    <3> QED BY <1>2, <2>1, <3>1, <3>3
  <2> QED BY <2>1, <2>2, <2>3
<1>4. CASE LMReject
  <2>1. /\ pc = "levenberg-marquardt" /\ pc' \in {pc, "returned"}
        /\ n_trials_' = n_trials_ + 1 /\ iter_' = iter_
    BY <1>4 DEF LMReject
  <2>2. CASE pc' = "returned"
    BY <1>2, <2>1, <2>2 DEF IterationsLeft
  <2>3. CASE pc' = pc
    <3>1. IterationsLeft' = (NIter - iter_) * NTrialsMax - (n_trials_ + 1)
      BY <2>1, <2>3 DEF IterationsLeft
    <3> QED BY <1>2, <2>1, <2>3, <3>1
  <2> QED BY <2>1, <2>2, <2>3
<1> QED BY <1>1, <1>3, <1>4 DEF SolverStep

LEMMA TimesMonotone ==
  ASSUME NEW j \in Nat, NEW k \in Nat, NEW n \in Nat, j <= k
  PROVE  j * n <= k * n
<1>1. k - j \in Nat /\ (k - j) * n \in Nat /\ k * n = j * n + (k - j) * n
  OBVIOUS
<1> QED BY <1>1

LEMMA LevelStepsType ==
  /\ NIter * NTrialsMax \in Nat /\ LevelSteps \in Nat
  /\ LevelSteps = NIter * NTrialsMax + NIter + 3
BY SolverAssumption, Times DEF LevelSteps

(* There are fewer iterations left than a level has steps.                  *)
LEMMA IterationsBound ==
  ASSUME TInv, CountersInv, pc \in Optimizing \cup {"returned"}
  PROVE  IterationsLeft \in 0 .. LevelSteps - 2
<1> USE SolverAssumption, LevelStepsType DEF TInv, CountersInv, Optimizing
<1>1. CASE pc = "gauss-newton"
  <2>1. IterationsLeft = NIter - iter_ + 1
    BY <1>1 DEF IterationsLeft
  <2> QED BY <1>1, <2>1
<1>2. CASE pc = "levenberg-marquardt"
  <2>1. NIter - iter_ \in Nat /\ NIter - iter_ > 0 /\ NIter - iter_ <= NIter
    BY <1>2
  <2>2. (NIter - iter_) * NTrialsMax >= NTrialsMax /\ (NIter - iter_) * NTrialsMax \in Nat
    BY <2>1, Times
  <2>3. (NIter - iter_) * NTrialsMax <= NIter * NTrialsMax
    BY <2>1, TimesMonotone
  <2>4. IterationsLeft = (NIter - iter_) * NTrialsMax - n_trials_
    BY <1>2 DEF IterationsLeft
  <2> QED BY <1>2, <2>2, <2>3, <2>4
<1>3. CASE pc = "returned"
  BY <1>3 DEF IterationsLeft
<1> QED BY <1>1, <1>2, <1>3

(* The levels above the last count as a number.                             *)
LEMMA LevelsLeft ==
  ASSUME LInv, pc # "idle"
  PROVE  /\ level_ - MinLevel \in 0 .. MaxLevel - MinLevel
         /\ (level_ - MinLevel) * LevelSteps \in Nat
         /\ (level_ - MinLevel + 1) * LevelSteps
              = (level_ - MinLevel) * LevelSteps + LevelSteps
         /\ (level_ - MinLevel + 1) * LevelSteps <= (MaxLevel - MinLevel + 1) * LevelSteps
<1>1. level_ - MinLevel \in 0 .. MaxLevel - MinLevel /\ MaxLevel - MinLevel \in Nat
  BY ImageAssumption DEF LInv
<1>2. /\ level_ - MinLevel \in Nat /\ level_ - MinLevel + 1 \in Nat
      /\ MaxLevel - MinLevel + 1 \in Nat
      /\ level_ - MinLevel + 1 <= MaxLevel - MinLevel + 1
  BY <1>1
<1>3. (level_ - MinLevel + 1) * LevelSteps <= (MaxLevel - MinLevel + 1) * LevelSteps
  BY <1>2, LevelStepsType, TimesMonotone
<1> QED BY <1>1, <1>2, <1>3, LevelStepsType, Times

LEMMA StepsBound ==
  ASSUME TInv, CountersInv, LInv
  PROVE  StepsLeft \in 0 .. (MaxLevel - MinLevel + 1) * LevelSteps
<1>1. CASE pc = "idle"
  <2>1. MaxLevel - MinLevel + 1 \in Nat
    BY ImageAssumption
  <2>2. (MaxLevel - MinLevel + 1) * LevelSteps \in Nat
    BY <2>1, LevelStepsType, Times
  <2> QED BY <1>1, <2>2 DEF StepsLeft
<1>2. CASE pc = "level"
  <2>1. StepsLeft = (level_ - MinLevel + 1) * LevelSteps
    BY <1>2 DEF StepsLeft
  <2>2. /\ (level_ - MinLevel + 1) * LevelSteps \in Nat
        /\ (level_ - MinLevel + 1) * LevelSteps <= (MaxLevel - MinLevel + 1) * LevelSteps
    BY <1>2, LevelsLeft, LevelStepsType
  <2>3. MaxLevel - MinLevel + 1 \in Nat
    BY ImageAssumption
  <2>4. (MaxLevel - MinLevel + 1) * LevelSteps \in Nat
    BY <2>3, LevelStepsType, Times
  <2> QED BY <2>1, <2>2, <2>4
<1>3. CASE pc \in Optimizing \cup {"returned"}
  <2>1. StepsLeft = (level_ - MinLevel) * LevelSteps + IterationsLeft + 1
    BY <1>3 DEF StepsLeft, Optimizing
  <2>2. IterationsLeft \in 0 .. LevelSteps - 2 /\ LevelSteps \in Nat
    BY <1>3, IterationsBound, LevelStepsType
  <2>3. /\ (level_ - MinLevel) * LevelSteps \in Nat
        /\ (level_ - MinLevel) * LevelSteps + LevelSteps
              <= (MaxLevel - MinLevel + 1) * LevelSteps
    BY <1>3, LevelsLeft DEF Optimizing
  <2>4. MaxLevel - MinLevel + 1 \in Nat /\ (MaxLevel - MinLevel + 1) * LevelSteps \in Nat
    BY <2>2, ImageAssumption, Times
  <2> QED BY <2>1, <2>2, <2>3, <2>4
<1> QED BY <1>1, <1>2, <1>3 DEF TInv

LEMMA IterationsBoundNext ==
  (TInv /\ CountersInv /\ pc \in Optimizing \cup {"returned"}
     => IterationsLeft \in 0 .. LevelSteps - 2)'
BY IterationsBound, PTL

LEMMA RunShortens ==
  ASSUME TInv, CountersInv, LInv, TInv', CountersInv', LInv', RunStep
  PROVE  StepsLeft' < StepsLeft
<1>1. CASE OptimizeLevel
  <2>1. pc = "level" /\ pc' \in Optimizing /\ level_' = level_
    BY <1>1 DEF OptimizeLevel, Optimize, Optimizing
  <2>2. /\ StepsLeft = (level_ - MinLevel + 1) * LevelSteps
        /\ StepsLeft' = (level_ - MinLevel) * LevelSteps + IterationsLeft' + 1
    BY <2>1 DEF StepsLeft, Optimizing
  <2>3. IterationsLeft' \in 0 .. LevelSteps - 2
    BY <2>1, IterationsBoundNext DEF LevelSteps
  <2> QED BY <2>1, <2>2, <2>3, LevelsLeft, LevelStepsType
<1>2. CASE Iterate
  <2>1. /\ IterationsLeft \in Nat /\ IterationsLeft' \in Nat
        /\ IterationsLeft' < IterationsLeft
        /\ pc \in Optimizing /\ pc' \in Optimizing \cup {"returned"}
        /\ level_' = level_
    BY <1>2, IterationsShorten DEF Iterate
  <2>2. /\ StepsLeft = (level_ - MinLevel) * LevelSteps + IterationsLeft + 1
        /\ StepsLeft' = (level_ - MinLevel) * LevelSteps + IterationsLeft' + 1
    BY <2>1 DEF StepsLeft, Optimizing
  <2>3. (level_ - MinLevel) * LevelSteps \in Nat
    BY <2>1, LevelsLeft DEF Optimizing
  <2> QED BY <2>1, <2>2, <2>3
<1>3. CASE NextLevel
  <2>1. pc = "returned" /\ level_' = level_ - 1
        /\ pc' = IF level_ = MinLevel THEN "idle" ELSE "level"
    BY <1>3 DEF NextLevel
  <2>2. /\ StepsLeft = (level_ - MinLevel) * LevelSteps + 0 + 1
        /\ (level_ - MinLevel) * LevelSteps \in Nat
    BY <2>1, LevelsLeft DEF StepsLeft, IterationsLeft
  <2>3. CASE pc' = "idle"
    BY <2>2, <2>3 DEF StepsLeft
  <2>4. CASE pc' = "level"
    <3>1. level_' - MinLevel + 1 = level_ - MinLevel
      BY <2>1, ImageAssumption DEF TInv
    <3>2. StepsLeft' = (level_ - MinLevel) * LevelSteps
      BY <2>4, <3>1 DEF StepsLeft
    <3> QED BY <2>2, <3>2
  <2> QED BY <2>1, <2>3, <2>4
<1> QED BY <1>1, <1>2, <1>3 DEF RunStep

(* A run takes at most LevelSteps steps for each of its levels, whatever    *)
(* the errors are.  This is what RunReturns needs besides that run goes on. *)
THEOREM RunsAreFinite == Spec => StepsRunOut
<1>1. Init => CountersInv /\ LInv
  BY DEF Init, CountersInv, LInv, Optimizing
<1>2. TInv /\ CountersInv /\ LInv => StepsLeft \in 0 .. (MaxLevel - MinLevel + 1) * LevelSteps
  BY StepsBound
<1>3. TInv /\ CountersInv /\ LInv /\ TInv' /\ CountersInv' /\ LInv' /\ [Next]_vars
        => [RunStep => StepsLeft' < StepsLeft]_vars
  BY RunShortens
<1> QED
  BY <1>1, <1>2, <1>3, InitTInv, StepTInv, StepCounters, StepLInv, PTL DEF Spec, StepsRunOut
=============================================================================
