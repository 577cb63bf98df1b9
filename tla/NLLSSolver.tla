------------------------------ MODULE NLLSSolver ------------------------------
(***************************************************************************)
(* The nonlinear least squares solver of vikit                             *)
(* (externals/vikit/src/nlls_solver_impl.hpp): Gauss-Newton and            *)
(* Levenberg-Marquardt as what they do with a model, its error and their   *)
(* flags.  Where a step leads, whether the linear system can be solved and *)
(* whether a step is small is up to the numbers; that a model has one      *)
(* error is not.  An error over no measurement is 0/0, not a number, and   *)
(* every comparison with it is false.                                      *)
(***************************************************************************)
EXTENDS Integers

CONSTANTS
  Models,
  MaxError,     \* errors are 0 .. MaxError, or NaN
  NaN,
  NIter,        \* n_iter_
  NTrialsMax    \* n_trials_max_

ASSUME SolverAssumption ==
  /\ MaxError \in Nat /\ NaN \notin Int
  /\ NIter \in Nat \ {0} /\ NTrialsMax \in Nat \ {0}

VARIABLES
  method_,
  err,        \* what computeResiduals returns for each model
  model,
  old_model,  \* of Gauss-Newton: the model to roll back to
  chi2_,
  measured,   \* n_meas_ > 0
  iter_, n_trials_,
  stop_,
  pc,         \* where optimize is
  start,      \* history: the model optimize was called with
  undefined   \* history: whether Gauss-Newton went on from an error that is NaN

history == <<start, undefined>>
solverVars == <<method_, err, model, old_model, chi2_, measured, iter_, n_trials_, stop_, pc,
                history>>

Methods == {"GaussNewton", "LevenbergMarquardt"}
Errors == (0 .. MaxError) \cup {NaN}
Less(a, b) == a \in Int /\ b \in Int /\ a < b

SolverInit ==
  /\ method_ \in Methods
  /\ model \in Models /\ old_model = model /\ start = model
  /\ err = [m \in Models |-> NaN]
  /\ chi2_ = MaxError /\ measured = FALSE /\ stop_ = FALSE /\ undefined = FALSE
  /\ iter_ = 0 /\ n_trials_ = 0

(* NLLSSolver::reset.  (Its chi2_ of 1e10 is larger than any error.)        *)
Reset == chi2_' = MaxError /\ measured' = FALSE /\ stop_' = FALSE /\ iter_' = 0

(* optimize is called, where the models have the errors e.                  *)
(* Levenberg-Marquardt evaluates the error once before its loop, and        *)
(* divides it by the new measurements and those that n_meas_ still counts   *)
(* from before.                                                            *)
InitialErrors(e) ==
  IF ~measured THEN {e} ELSE IF e = NaN THEN {0} ELSE 0 .. e

Optimize(e) ==
  /\ err' = e
  /\ start' = model /\ undefined' = FALSE
  /\ iter_' = 0 /\ n_trials_' = 0
  /\ \/ /\ method_ = "GaussNewton" /\ pc' = "gauss-newton"
        /\ old_model' = model
        /\ UNCHANGED <<chi2_, measured>>
     \/ /\ method_ = "LevenbergMarquardt" /\ pc' = "levenberg-marquardt"
        /\ chi2_' \in InitialErrors(e[model])
        /\ measured' = (measured \/ e[model] # NaN)
        /\ UNCHANGED old_model
  /\ UNCHANGED <<method_, model, stop_>>

-----------------------------------------------------------------------------
(* Gauss-Newton: an iteration measures the model that the one before made,  *)
(* and goes back to the model before that if the error has grown.          *)

(* Mutant: the error is not compared with the last one.                     *)
ErrorGrewNever == FALSE

ErrorGrew == iter_ > 0 /\ Less(chi2_, err[model])

GNRollBack ==
  /\ pc = "gauss-newton" /\ iter_ < NIter
  /\ stop_' \in {stop_, TRUE}   \* TRUE also if the system is singular
  /\ ErrorGrew \/ stop_'
  /\ measured' = (err[model] # NaN)
  /\ model' = old_model
  /\ pc' = "returned"
  /\ UNCHANGED <<method_, err, old_model, chi2_, iter_, n_trials_, history>>

(* A step smaller than eps_ is the last one.                                *)
GNUpdate ==
  /\ pc = "gauss-newton" /\ iter_ < NIter
  /\ ~stop_ /\ ~ErrorGrew
  /\ measured' = (err[model] # NaN) /\ undefined' = (undefined \/ err[model] = NaN)
  /\ model' \in Models /\ old_model' = model
  /\ chi2_' = err[model]
  /\ \/ pc' = pc /\ iter_' = iter_ + 1
     \/ pc' = "returned" /\ iter_' = iter_
  /\ UNCHANGED <<method_, err, n_trials_, stop_, start>>

GNExhausted ==
  /\ pc = "gauss-newton" /\ iter_ = NIter
  /\ pc' = "returned"
  /\ UNCHANGED <<method_, err, model, old_model, chi2_, measured, iter_, n_trials_, stop_, history>>

-----------------------------------------------------------------------------
(* Levenberg-Marquardt: a trial that does not lower the error is repeated   *)
(* with more damping.                                                      *)

LMAccept ==
  /\ pc = "levenberg-marquardt"
  /\ \E new \in Models :
       /\ Less(err[new], chi2_)
       /\ model' = new /\ chi2_' = err[new]
  /\ measured' = TRUE
  /\ stop_' \in BOOLEAN   \* whether the step was smaller than eps_
  /\ IF stop_' THEN iter_' = iter_ ELSE iter_' = iter_ + 1
  /\ n_trials_' = 0
  /\ pc' = IF stop_' \/ iter_' = NIter THEN "returned" ELSE pc
  /\ UNCHANGED <<method_, err, old_model, history>>

(* Mutant: the limit on the trials is gone.                                 *)
TooManyTrialsNever(trials) == FALSE

TooManyTrials(trials) == trials >= NTrialsMax

LMReject ==
  /\ pc = "levenberg-marquardt"
  /\ \/ measured' = (err[model] # NaN)   \* singular
     \/ \E new \in Models : ~Less(err[new], chi2_) /\ measured' = (err[new] # NaN)
  /\ n_trials_' = IF n_trials_ > NTrialsMax THEN n_trials_ ELSE n_trials_ + 1
  /\ stop_' = (stop_ \/ TooManyTrials(n_trials_ + 1))
  /\ pc' = IF stop_' THEN "returned" ELSE pc
  /\ UNCHANGED <<method_, err, model, old_model, chi2_, iter_, history>>

SolverStep == GNRollBack \/ GNUpdate \/ GNExhausted \/ LMAccept \/ LMReject

-----------------------------------------------------------------------------
(* Properties                                                               *)

(* The error that has been measured never grows while a model is optimized: *)
(* the last model that was accepted is no worse than the one optimize was   *)
(* called with, and a model that is rolled back is replaced by that one.    *)
(* An error that is not a number ends the guarantee of Gauss-Newton, which  *)
(* takes it for no worse than any other.                                   *)
Accepted == IF method_ = "GaussNewton" THEN old_model ELSE model
NeverWorse ==
  pc \in {"gauss-newton", "levenberg-marquardt", "returned"} =>
    undefined \/ ~Less(err[start], err[Accepted])
=============================================================================
