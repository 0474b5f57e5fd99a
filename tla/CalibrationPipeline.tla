------------------------ MODULE CalibrationPipeline -------------------------
(***************************************************************************)
(* run_calibration_pipeline() (src/lossbench/calibrate/pipeline.py): which *)
(* events enter the fit of the calibrator, its report, and the fit of the  *)
(* threshold, and in which order.  The calibrator is a numerical fit: the  *)
(* one of fit_policy_from_ledger(), TEMPERATURE, is any map that keeps the *)
(* order of probabilities and stays below 1.0 (its outputs are clipped).   *)
(***************************************************************************)
EXTENDS RiskCosts

\* What fit_calibrator() may return, and the identity of a degenerate fit.
Calibrators ==
    {f \in [Levels -> 0 .. Grid - 1] : \A p, q \in Levels : p <= q => f[p] <= f[q]}

Identity == [p \in Levels |-> p]

\* _label_of(): "error" in outcome, and outcome["error"] is True.
Labeled(e) == e.error # "absent"
IsError(e) == e.error = "true"

\* The feature `confidence`: calibrated_probability, or 0.0 when it is None.
Confidence(e) == IF e.p = NoP THEN 0 ELSE e.p

HasP(e) == Confidence(e) # NoP

\* Mutant: events without a label enter the fit as correct ones.
FitMaskOfAll(events) == [i \in DOMAIN events |-> HasP(events[i])]

\* The events the fits use: those with a label and a confidence.
FitMask(events) == [i \in DOMAIN events |-> Labeled(events[i]) /\ HasP(events[i])]

\* The labeled events, by their place among all events.
FitPlaces(events) == Masked([i \in DOMAIN events |-> i], FitMask(events))

\* max(1, len(order) // 2)
Split(n) == IF n \div 2 > 1 THEN n \div 2 ELSE 1

FitHalf(order) == SubSeq(order, 1, Split(Len(order)))

\* Mutant: the held half starts, and ends, one place early.
HeldHalfFromSplit(order) == SubSeq(order, Split(Len(order)), Len(order) - 1)

HeldHalf(order) == SubSeq(order, Split(Len(order)) + 1, Len(order))

\* [predict([conf])[0] if keep else conf ...]
Calibrated(events, predict) ==
    LET keep == FitMask(events) IN
    [i \in DOMAIN events |-> IF keep[i] THEN predict[Confidence(events[i])]
                             ELSE Confidence(events[i])]

\* The pipeline over `events`: `order` is the shuffle of the labeled events
\* and `predict` the calibrator that was fitted on the fit half.
Pipeline(events, order, predict) ==
    LET places   == FitPlaces(events)
        at(s)    == [i \in DOMAIN s |-> events[places[s[i]]]]
        split    == Len(places) >= 2
        fitted   == IF split THEN predict ELSE Identity
        probs(s) == [i \in DOMAIN s |-> fitted[Confidence(s[i])]]
        labeled  == [i \in DOMAIN places |-> events[places[i]]]
        inOrder  == IF split THEN at(FitHalf(order)) \o at(HeldHalf(order)) ELSE labeled
        errors   == [i \in DOMAIN labeled |-> IsError(labeled[i])]
        sevs     == [i \in DOMAIN labeled |-> labeled[i].severity]
        fit      == FitThreshold(probs(inOrder), errors, sevs)
    IN [fitted_on    |-> IF split THEN {places[i] : i \in ToSet(FitHalf(order))} ELSE {},
        reported_on  |-> IF split THEN {places[i] : i \in ToSet(HeldHalf(order))}
                         ELSE ToSet(places),
        calibrated   |-> Calibrated(events, fitted),
        rows         |-> [i \in DOMAIN places |-> <<probs(inOrder)[i], errors[i], sevs[i]>>],
        predict      |-> fitted,
        threshold    |-> IF places = << >> THEN 0 ELSE fit.best_threshold,
        best_cost    |-> fit.best_cost,
        baseline     |-> fit.baseline_cost,
        n_labeled    |-> Len(places),
        n_unlabeled  |-> Len(events) - Len(places)]
==============================================================================
