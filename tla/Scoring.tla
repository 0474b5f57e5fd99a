------------------------------- MODULE Scoring -------------------------------
(***************************************************************************)
(* The numbers of a leaderboard row: scoring/passk.py,                     *)
(* metrics/loss.py and summarize_suite() of eval/harness.py.  Rates are    *)
(* counts: of tasks for the passes, of trials for the rest.                *)
(***************************************************************************)
EXTENDS Naturals, FiniteSets, Sequences, SequencesExt, Totals

\* trials[task] is a sequence of the successes of a task's trials; the first k
\* count, or as many as there are.
PassesWithin(trials, task, k) == \E i \in DOMAIN trials[task] : i <= k /\ trials[task][i]

PassAtK(trials, k) == Cardinality({task \in DOMAIN trials : PassesWithin(trials, task, k)})

PassK(trials, k) ==
    Cardinality({task \in DOMAIN trials :
        Len(trials[task]) >= k /\ \A i \in 1 .. k : trials[task][i]})

\* The successes of the results of each task, in their order.
PerTask(results) ==
    [task \in {results[i].task : i \in DOMAIN results} |->
        Masked([i \in DOMAIN results |-> results[i].success],
               [i \in DOMAIN results |-> results[i].task = task])]

\* Two sequences of one length, matched by place.
SeverityLoss(errors, costs) ==
    Total([i \in DOMAIN errors |-> IF errors[i] THEN costs[i] ELSE 0])

Summary(results) ==
    LET matrix == PerTask(results)
        trials == Len(results) \div Cardinality(DOMAIN matrix)
    IN [pass_at_1 |-> PassAtK(matrix, 1),
        pass_at_k |-> PassAtK(matrix, trials),
        pass_k    |-> PassK(matrix, trials),
        errors    |-> Count([i \in DOMAIN results |-> results[i].errored]),
        cost      |-> Total([i \in DOMAIN results |-> results[i].cost])]
==============================================================================
