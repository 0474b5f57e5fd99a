------------------------------ MODULE ReplayLab ------------------------------
(***************************************************************************)
(* ReplayLab.simulate() (src/lossbench/replay/simulator.py): what recorded *)
(* events would have cost under another escalation threshold.              *)
(***************************************************************************)
EXTENDS RiskCosts

\* _is_error(): a denied action was not executed.
LossOnError(e) == e.decision # "DENY" /\ e.error = "true"

\* _escalated(): an event without a probability is never escalated.
Escalated(e, tau) == e.p # NoP /\ e.p >= tau

\* Mutant: the severities are not filtered with the errors.
ReplayLossUnfiltered(events, tau) ==
    LET escalated == [i \in DOMAIN events |-> Escalated(events[i], tau)]
        errors    == Masked([i \in DOMAIN events |-> LossOnError(events[i])],
                            Complement(escalated))
        sevs      == [i \in DOMAIN errors |-> events[i].severity]
    IN  SeverityWeightedLoss(errors, sevs) + EscalateCost * Count(escalated)

\* _loss(): unreviewed errors, and a review for each escalated event.
ReplayLoss(events, tau) ==
    LET escalated == [i \in DOMAIN events |-> Escalated(events[i], tau)]
        rest      == Complement(escalated)
    IN  SeverityWeightedLoss(Masked([i \in DOMAIN events |-> LossOnError(events[i])], rest),
                             Masked([i \in DOMAIN events |-> events[i].severity], rest))
        + EscalateCost * Count(escalated)

ReviewLoad(events, tau) == Count([i \in DOMAIN events |-> Escalated(events[i], tau)])

\* The events listed in per_case_diff, by their place.
PerCaseDiff(events, before, after) ==
    {i \in DOMAIN events : Escalated(events[i], before) # Escalated(events[i], after)}

\* simulate(); the review load is a count, the code divides it by len(events).
Simulate(events, before, after) ==
    [total_before |-> ReplayLoss(events, before),
     total_after  |-> ReplayLoss(events, after),
     before_review_load |-> ReviewLoad(events, before),
     after_review_load  |-> ReviewLoad(events, after),
     per_case_diff |-> PerCaseDiff(events, before, after)]
==============================================================================
