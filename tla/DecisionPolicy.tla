---------------------------- MODULE DecisionPolicy ----------------------------
(***************************************************************************)
(* PolicyEngine.decide() and the Bayes core under it                       *)
(* (src/lossbench/policy/engine.py, src/lossbench/decision.py).            *)
(*                                                                         *)
(* Probabilities are natural numbers of Scale-ths and costs are natural    *)
(* numbers, so that losses are compared exactly: the code's floats are     *)
(* taken to be far enough from a tie.                                      *)
(***************************************************************************)
EXTENDS Integers, FiniteSets, Sequences, SequencesExt

CONSTANTS Scale,         \* the probability 1.0
          CostOf,        \* CostProfile.severity_costs
          EscalateCost,  \* CostProfile.escalate_cost
          NoRisk         \* a request without calibrated_p

Severities == DOMAIN CostOf

ASSUME PolicyAssumption ==
    /\ Scale \in Nat \ {0} /\ EscalateCost \in Nat
    /\ "LOW" \in Severities /\ \A s \in Severities : CostOf[s] \in Nat
    /\ NoRisk \notin Nat

\* risk_features.get("calibrated_p", 0.0).
Probability(risk) == IF risk = NoRisk THEN 0 ELSE risk

\* An unknown severity counts as LOW.
SeverityOf(raw) == IF raw \in Severities THEN raw ELSE "LOW"

\* calibrated_p * K(severity), in Scale-ths.
ExpectedLoss(p, severity) == p * CostOf[severity]

\* bundle.deny, then a non-empty bundle.allowlist.
Denied(bundle, tool) ==
    \/ tool \in bundle.deny
    \/ bundle.allowlist # {} /\ tool \notin bundle.allowlist

\* escalate_iff() without a judge: the gain of a review exceeds its cost.
EscalateIff(p, severity) == ExpectedLoss(p, severity) > EscalateCost * Scale

\* Rule 3: the threshold, or the Bayes guard.
Escalated(bundle, p, severity) ==
    p >= bundle.escalation_threshold \/ EscalateIff(p, severity)

\* The entries of model_tiers, a sequence in the order of the dict, whose model
\* is available.
TiersAvailable(bundle, models) ==
    {i \in DOMAIN bundle.model_tiers : bundle.model_tiers[i].model \in ToSet(models)}

LowestCost(tiers, available) ==
    CHOOSE c \in {tiers[i].cost : i \in available} : \A i \in available : c <= tiers[i].cost

\* What bayes_route() compares, as a fraction: the risk of a tier, which
\* _risk_by_tier() takes to fall as its cost rises, times K, plus the cost.
TierLoss(risk, lowest, cost) ==
    IF cost > 0 THEN [num |-> risk * lowest + cost * cost * Scale, den |-> cost]
    ELSE [num |-> risk, den |-> 1]

LosesLess(a, b) == a.num * b.den < b.num * a.den

\* bayes_route(): the first of the tiers that lose least.
BayesRoute(risk, tiers, available) ==
    LET loss == [i \in available |-> TierLoss(risk, LowestCost(tiers, available), tiers[i].cost)]
        best == CHOOSE i \in available : \A j \in available :
                    LosesLess(loss[i], loss[j]) \/ (~ LosesLess(loss[j], loss[i]) /\ i <= j)
    IN  tiers[best].model

Response(decision, model) == [decision |-> decision, model |-> model]

\* Mutant: a call is routed before the review is considered.
DecideRouteFirst(bundle, request) ==
    LET p        == Probability(request.risk)
        severity == SeverityOf(request.severity)
    IN  IF Denied(bundle, request.tool) THEN Response("DENY", "")
        ELSE IF request.models # << >> THEN Response("ROUTE", request.models[1])
        ELSE IF Escalated(bundle, p, severity) THEN Response("ESCALATE", "")
        ELSE Response("ALLOW", "")

\* PolicyEngine.decide(): the first rule that applies.
Decide(bundle, request) ==
    LET p        == Probability(request.risk)
        severity == SeverityOf(request.severity)
        tiers    == TiersAvailable(bundle, request.models)
    IN  IF Denied(bundle, request.tool) THEN Response("DENY", "")
        ELSE IF Escalated(bundle, p, severity) THEN Response("ESCALATE", "")
        ELSE IF tiers # {}
             THEN Response("ROUTE",
                      BayesRoute(ExpectedLoss(p, severity), bundle.model_tiers, tiers))
        ELSE IF request.models # << >> THEN Response("ROUTE", request.models[1])
        ELSE Response("ALLOW", "")

==============================================================================
