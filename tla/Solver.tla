------------------------------- MODULE Solver -------------------------------
(***************************************************************************)
(* The planner behind gate 4 of the change pipeline                        *)
(* (governance/change_pipeline/solver.go): of the candidates a generator   *)
(* proposes for a request, those that break a hard constraint are dropped, *)
(* and of the rest the first with the greatest efficiency score is chosen. *)
(*                                                                         *)
(* The loop of Solver.Plan is a state machine of one action per candidate, *)
(* so that what it computes can be proved for every list of candidates.    *)
(* ChangePipeline EXTENDS this module and takes these steps at its gate 4. *)
(*                                                                         *)
(* The quantities of a candidate are hundredths, and the weights tenths:   *)
(* exact integers for the float64 of the code, rounding left aside.        *)
(***************************************************************************)
EXTENDS Integers, Sequences

VARIABLES
  cands, \* cands, in the order the generator lists them
  seen,  \* how many of them the loop has been through
  best   \* best + 1: the choice so far, 0 for none

solverVars == <<cands, seen, best>>

Candidates ==
  [costDelta : Int, densityDelta : Int, gpuUtilDelta : Int, idleDelta : Int,
   slaHeadroom : Int, isolationOK : BOOLEAN, sovereigntyOK : BOOLEAN,
   reversible : BOOLEAN, steps : Nat]  \* steps is len(Steps)

-----------------------------------------------------------------------------
(* A candidate. *)

\* score, with defaultWeights.
Score(c) ==
  10 * (-c.costDelta) + 6 * c.densityDelta + 4 * c.gpuUtilDelta - 5 * c.idleDelta

HardConstraints(c) == c.slaHeadroom >= 0 /\ c.isolationOK /\ c.sovereigntyOK

\* More than half of the density changes, up or down.
BigDensityChange(c) == c.densityDelta > 50 \/ c.densityDelta < -50

RiskOf(c) ==
  IF ~ c.reversible THEN "irreversible"
  ELSE IF BigDensityChange(c) THEN "high" ELSE "low"

-----------------------------------------------------------------------------
(* Plan. *)

SolverStart(cs) ==
  /\ cands' = cs
  /\ seen' = 0
  /\ best' = 0

\* Mutation: a later candidate replaces an equal one.
BetterOrEqual(c) == best = 0 \/ Score(c) >= Score(cands[best])

\* bestScore starts at -Inf, which every score exceeds.
Better(c) == best = 0 \/ Score(c) > Score(cands[best])

SolverStep ==
  /\ seen < Len(cands)
  /\ LET c == cands[seen + 1]
     IN  best' = IF HardConstraints(c) /\ Better(c) THEN seen + 1 ELSE best
  /\ seen' = seen + 1
  /\ UNCHANGED cands

SolverDone == seen = Len(cands)

-----------------------------------------------------------------------------
(* Reference definition, and the property. *)

\* k is the first of the feasible candidates with the greatest score.
IsOptimal(cs, k) ==
  /\ k \in DOMAIN cs
  /\ HardConstraints(cs[k])
  /\ \A j \in DOMAIN cs : HardConstraints(cs[j]) =>
       /\ Score(cs[j]) <= Score(cs[k])
       /\ j < k => Score(cs[j]) < Score(cs[k])

\* One pass that remembers a single index finds what the definition of the
\* optimum asks of all candidates at once; and it reports that nothing is left
\* exactly when no candidate meets the constraints, although one that breaks
\* them may have the greatest score.
PlanIsOptimal ==
  SolverDone =>
    \/ best # 0 /\ IsOptimal(cands, best)
    \/ best = 0 /\ \A k \in DOMAIN cands : ~ HardConstraints(cands[k])
=============================================================================
