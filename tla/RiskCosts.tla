------------------------------ MODULE RiskCosts ------------------------------
(***************************************************************************)
(* What a set of labelled decisions costs under an escalation threshold,   *)
(* and the threshold that costs least (src/lossbench/metrics/loss.py,      *)
(* metrics/coverage.py and policy/fit.py).                                 *)
(*                                                                         *)
(* A probability is its cell on the grid of thresholds: p stands for the   *)
(* probabilities from p/Grid up to (p+1)/Grid, and Grid for 1.0, so that   *)
(* comparing it with a threshold of the grid says what the code's          *)
(* comparison says.  Costs are natural numbers.                            *)
(***************************************************************************)
EXTENDS Integers, FiniteSets, Sequences, SequencesExt, Totals

CONSTANTS CostOf,        \* CostProfile.severity_costs: K of each severity
          EscalateCost,  \* CostProfile.escalate_cost
          Grid,          \* the grid of fit_escalation_threshold
          NoP            \* calibrated_probability is None

Severities == DOMAIN CostOf

ASSUME CostAssumption ==
    /\ \A s \in Severities : CostOf[s] \in Nat
    /\ EscalateCost \in Nat
    /\ Grid \in Nat \ {0}
    /\ NoP \notin Nat

Levels == 0 .. Grid

Complement(mask) == [i \in DOMAIN mask |-> ~ mask[i]]

\* severity_weighted_loss(): the K of the severities at which an error stands.
SeverityWeightedLoss(errors, severities) ==
    Total([i \in DOMAIN severities |-> IF errors[i] THEN CostOf[severities[i]] ELSE 0])

\* Mutant: a case at the threshold is not reviewed.
ReviewedAbove(p, tau) == p > tau

Reviewed(p, tau) == p >= tau

\* A point of risk_coverage_curve().
CurvePoint(probs, errors, severities, tau) ==
    LET reviewed == [i \in DOMAIN probs |-> Reviewed(probs[i], tau)]
        rest     == Complement(reviewed)
    IN  [threshold |-> tau, escalated |-> Count(reviewed),
         loss |-> SeverityWeightedLoss(Masked(errors, rest), Masked(severities, rest))]

\* Mutant: the reviews are left out of the cost.
TotalCostOfLoss(point) == point.loss

TotalCost(point) == point.loss + EscalateCost * point.escalated

Points == Levels

\* fit_escalation_threshold(): the first point of the curve that costs least.
FitThreshold(probs, errors, severities) ==
    LET curve == {CurvePoint(probs, errors, severities, tau) : tau \in Points}
        best  == CHOOSE point \in curve : \A other \in curve :
                    \/ TotalCost(point) < TotalCost(other)
                    \/ TotalCost(point) = TotalCost(other) /\ point.threshold <= other.threshold
    IN  [best_threshold |-> best.threshold, best_cost |-> TotalCost(best),
         baseline_cost |-> SeverityWeightedLoss(errors, severities)]
==============================================================================
