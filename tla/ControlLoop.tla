----------------------------- MODULE ControlLoop -----------------------------
(***************************************************************************)
(* The offline half of the control plane: decisions and their reviews      *)
(* gather in the ledger; fit_policy_from_ledger() refits the escalation    *)
(* threshold from the labeled ones (src/lossbench/calibrate/pipeline.py)   *)
(* and ReplayLab.simulate_with_ledger() prices the recorded events under   *)
(* another threshold (src/lossbench/replay/simulator.py).  Both read the   *)
(* same ledger, review markers included, from its oldest event on.  The    *)
(* command `simulate` (cli/commands.py) puts the two together.             *)
(***************************************************************************)
EXTENDS CalibrationPipeline, ReplayLab

CONSTANTS Cases,      \* decisions that may be recorded
          Answers,    \* `confidence` in an answer of the harness, NoP if unusable
          FitLimit,   \* `limit` of fit_policy_from_ledger()
          ReplayLimit,\* `limit` of simulate_with_ledger()
          Shuffle(_), \* the orders random.Random(0).shuffle() may give n events
          MaxEvents   \* bound on the ledger

ASSUME CaseAssumption ==
    /\ "LOW" \in Severities
    /\ Cases \subseteq [p : Levels \union {NoP}, featured : BOOLEAN,
                        error : {"absent", "false", "true"},
                        severity : Severities, decision : {"ALLOW", "DENY", "ESCALATE"}]
    /\ Answers \subseteq Levels \union {NoP}
    /\ FitLimit \in Nat /\ ReplayLimit \in Nat
    /\ \A n \in 0 .. FitLimit : Shuffle(n) \subseteq Bijection(1 .. n, 1 .. n)

VARIABLES ledger,     \* the events, in the order of seq
          threshold,  \* escalation_threshold of the policy in use
          last        \* what the last fit or replay returned

vars == <<ledger, threshold, last>>

Nothing == [call |-> "none"]

Init == ledger = << >> /\ threshold = 0 /\ last = Nothing

------------------------------------------------------------------------------
AppendToLedger(e) ==
    /\ Len(ledger) < MaxEvents
    /\ ledger' = Append(ledger, e)
    /\ last' = Nothing
    /\ UNCHANGED threshold

\* A decision of an adapter is appended, or posted to the server.  It is featured
\* when its risk is (also, or only) among its risk_features: the middleware's
\* events are, and have no calibrated_probability.
RecordDecision(c) ==
    AppendToLedger([kind |-> "decision", of |-> Len(ledger) + 1, p |-> c.p,
                    featured |-> c.featured, error |-> c.error, severity |-> c.severity, decision |-> c.decision])

\* _confidence(): 0.9 for a correct answer and 0.1 for a wrong one stand in.
StandIn(matched) == (IF matched THEN 9 * Grid ELSE Grid) \div 10

\* A step of the harness: only the last one of an episode is labeled, and a
\* step that matches is the last.
RecordStep(matched, final, answer, severity) ==
    /\ matched => final
    /\ AppendToLedger([kind |-> "step", of |-> Len(ledger) + 1,
                       p |-> IF answer = NoP THEN StandIn(matched) ELSE answer,
                       featured |-> TRUE,
                       error |-> CASE ~ final -> "absent" [] matched -> "false" [] OTHER -> "true",
                       severity |-> severity,
                       decision |-> IF final THEN "ALLOW" ELSE "VERIFY"])

HasMarker(kind, n) == \E i \in DOMAIN ledger : ledger[i].kind = kind /\ ledger[i].of = n

\* A marker repeats the probability and features of its decision; its own outcome has no
\* `error` and no `severity`, which reads as LOW.
Marker(kind, n, decision) ==
    [kind |-> kind, of |-> n, p |-> ledger[n].p, featured |-> ledger[n].featured,
     error |-> "absent", severity |-> "LOW", decision |-> decision]

\* ReviewService.open_review() of the decision at n.
OpenReview(n) ==
    /\ ledger[n].kind = "decision"
    /\ ledger[n].decision = "ESCALATE"
    /\ ~ HasMarker("opened", n)
    /\ AppendToLedger(Marker("opened", n, "ESCALATE"))

\* ReviewService.resolve(): APPROVE, REJECT or AMEND.
ResolveReview(n, decision) ==
    /\ HasMarker("opened", n)
    /\ ~ HasMarker("resolved", n)
    /\ AppendToLedger(Marker("resolved", n, decision))

\* ORDER BY seq LIMIT: the oldest events.
Oldest(limit) == SubSeq(ledger, 1, IF Len(ledger) < limit THEN Len(ledger) ELSE limit)

\* fit_policy_from_ledger().
FitPolicy(order, predict) ==
    LET events == Oldest(FitLimit)
        result == Pipeline(events, order, predict)
    IN
    /\ last' = [call |-> "fit", events |-> events, order |-> order, result |-> result]
    /\ threshold' = result.threshold
    /\ UNCHANGED ledger

\* simulate_with_ledger(): nothing is changed by it.
Replay(tau) ==
    LET events == Oldest(ReplayLimit) IN
    /\ last' = [call |-> "replay", events |-> events, before |-> threshold, after |-> tau,
                outcome |-> Simulate(events, threshold, tau)]
    /\ UNCHANGED <<ledger, threshold>>

\* _trace_to_event(): a row is skipped when it has the risk in neither place.
TracedOf(events) ==
    Masked(events, [i \in DOMAIN events |-> events[i].p # NoP \/ events[i].featured])

\* The command `simulate` on a trace of these events: the best threshold of
\* the grid against the policy's.  The fit takes the risk of a row from its
\* calibrated_probability alone, as 0.0 when it has none.
SimulateBest ==
    LET events == TracedOf(ledger)
        best   == FitThreshold([i \in DOMAIN events |-> Confidence(events[i])],
                               [i \in DOMAIN events |-> IsError(events[i])],
                               [i \in DOMAIN events |-> events[i].severity]).best_threshold
    IN
    /\ events # << >>
    /\ last' = [call |-> "simulate", events |-> events,
                outcome |-> Simulate(events, threshold, best)]
    /\ UNCHANGED <<ledger, threshold>>

Next ==
    \/ \E c \in Cases : RecordDecision(c)
    \/ \E matched \in BOOLEAN, final \in BOOLEAN, answer \in Answers, s \in Severities :
           RecordStep(matched, final, answer, s)
    \/ \E n \in DOMAIN ledger : OpenReview(n)
    \/ \E n \in DOMAIN ledger, d \in {"ALLOW", "DENY", "VERIFY"} : ResolveReview(n, d)
    \/ \E order \in Shuffle(Len(FitPlaces(Oldest(FitLimit)))), predict \in Calibrators :
           FitPolicy(order, predict)
    \/ \E tau \in Levels : Replay(tau)
    \/ SimulateBest

Spec == Init /\ [][Next]_vars

------------------------------------------------------------------------------
\* Events without a label have no part in the fit, wherever they stand in the
\* ledger and whatever review markers come between: the fit over the labeled
\* events alone gives the same threshold, and the same probability to each of
\* them ("unlabeled events never enter a fit").
OnlyLabelsTrain ==
    last.call = "fit" =>
        LET isLabeled == [i \in DOMAIN last.events |-> Labeled(last.events[i])]
            labeled == Masked(last.events, isLabeled)
            result  == last.result
            alone   == Pipeline(labeled, last.order, result.predict)
        IN /\ alone.threshold = result.threshold
           /\ alone.rows = result.rows
           /\ alone.calibrated =
                Masked(result.calibrated, isLabeled)

\* The reported ECE is held out ("never in-sample"): no event it is computed over
\* was fitted on, and of the labeled events with a probability none is left out
\* of both halves.  Of a labeled event without one it says nothing: by the
\* docstring it is "excluded from the fit as well", the code takes it for 0.0.
ReportIsHeldOut ==
    last.call = "fit" /\ last.result.n_labeled >= 2 =>
        /\ last.result.fitted_on # {} /\ last.result.reported_on # {}
        /\ last.result.fitted_on \intersect last.result.reported_on = {}
        /\ last.result.fitted_on \union last.result.reported_on
             \subseteq {i \in DOMAIN last.events : Labeled(last.events[i])}
        /\ {i \in DOMAIN last.events : Labeled(last.events[i]) /\ last.events[i].p # NoP}
             \subseteq last.result.fitted_on \union last.result.reported_on

\* What one case costs: its review, or its error.
CaseCost(p, error, severity, tau) ==
    IF p # NoP /\ p >= tau THEN EscalateCost ELSE IF error THEN CostOf[severity] ELSE 0

CostOfRows(rows, tau) ==
    Total([i \in DOMAIN rows |-> CaseCost(rows[i][1], rows[i][2], rows[i][3], tau)])

\* Of the cases the fit is given, summed up one by one, no threshold costs
\* less than the fitted one; and a refit on two labels or more never costs
\* more than reviewing nothing, because no calibrated probability is 1.0.
ThresholdIsCheapest ==
    last.call = "fit" /\ last.result.n_labeled > 0 =>
        LET rows == last.result.rows IN
        /\ CostOfRows(rows, last.result.threshold) = last.result.best_cost
        /\ \A tau \in Levels : last.result.best_cost <= CostOfRows(rows, tau)
        /\ last.result.n_labeled >= 2 => last.result.best_cost <= last.result.baseline

\* The listed cases explain the difference between the two totals of a
\* replay, and the change of the review load: what is not in per_case_diff
\* costs the same under both thresholds.
ReplayIsExplained ==
    last.call = "replay" =>
        LET out      == last.outcome
            e(i)     == last.events[i]
            cost(i, tau) == CaseCost(e(i).p, LossOnError(e(i)), e(i).severity, tau)
            change(i) == cost(i, last.after) - cost(i, last.before)
            gained   == {i \in out.per_case_diff : Escalated(e(i), last.after)}
        IN /\ out.total_after - out.total_before =
                Total([i \in DOMAIN last.events |->
                         IF i \in out.per_case_diff THEN change(i) ELSE 0])
           /\ out.after_review_load - out.before_review_load =
                Cardinality(gained) - Cardinality(out.per_case_diff \ gained)

\* An event of which the fit and ReplayLab read the same error and the same risk.
ReadAlike(e) == (LossOnError(e) <=> IsError(e)) /\ e.p # NoP

\* Two modules count the same money: the threshold policy/fit.py finds best is
\* the one ReplayLab prices lowest, whatever the policy's own threshold.  Not
\* so once an action that was denied is labeled an error, whose loss the fit
\* counts as avoidable and ReplayLab not at all, or a row has its risk only in
\* risk_features: the fit takes it for 0.0, to be reviewed at threshold 0, where
\* ReplayLab never escalates it.
SimulateFindsTheBest ==
    last.call = "simulate" /\ (\A i \in DOMAIN last.events : ReadAlike(last.events[i])) =>
        \A tau \in Levels : last.outcome.total_after <= ReplayLoss(last.events, tau)

------------------------------------------------------------------------------
\* run_calibration_pipeline(): "The escalation threshold is grid-searched on
\* the labeled subset only, with severities resolved per event": each
\* probability of the fit comes with the label and severity of its own event.
FitPairsAreEvents ==
    last.call = "fit" =>
        LET rows   == last.result.rows
            own(i) == LET e == last.events[i] IN
                      <<last.result.predict[Confidence(e)], IsError(e), e.severity>>
            places == {i \in DOMAIN last.events : Labeled(last.events[i])}
        IN \A row \in ToSet(rows) :
              Cardinality({i \in DOMAIN rows : rows[i] = row})
                  = Cardinality({i \in places : own(i) = row})
==============================================================================
