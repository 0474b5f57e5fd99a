------------------------------- MODULE EvalRun -------------------------------
(***************************************************************************)
(* One paid run of scripts/full_run.py: for each model, the episodes of    *)
(* EvalHarness (src/lossbench/eval/harness.py) on every task and trial,    *)
(* each step a call through BudgetedRunner and RetryingRunner              *)
(* (src/lossbench/runners), and then the model's events appended to the    *)
(* run's ledger and its row written to the leaderboard.                    *)
(*                                                                         *)
(* The run is one thread; what it cannot foresee is the provider: an       *)
(* attempt fails or is answered, by an outcome the domain verifier accepts *)
(* ("match"), by text with a wrong outcome or none ("miss"), or by no text *)
(* at all ("null": content is None).  A run that dies is not resumed: the  *)
(* next one has a ledger of its own.                                       *)
(***************************************************************************)
EXTENDS Naturals, FiniteSets, Sequences, SequencesExt, Scoring

CONSTANTS ModelIds,  \* --models, in order
          TaskCosts, \* K of the severity of each task of the suites, in order
          Trials,    \* --trials
          MaxSteps,  \* --max-steps
          Attempts,  \* RetryingRunner's attempts
          Ceiling,   \* --max-cost; 0 is unlimited
          Tariff,    \* <<model, what a call to it may cost>>; an unpriced model's calls cost 0
          Answers    \* what an answered call may say

NTasks == Len(TaskCosts)

\* What a call may cost, to any model.
Costs == {entry[2] : entry \in Tariff}

ASSUME RunAssumption ==
    /\ ModelIds \in Seq(STRING) /\ Len(ModelIds) > 0
    /\ {NTasks, Trials, MaxSteps, Attempts} \subseteq Nat \ {0}
    /\ TaskCosts \in Seq(Nat)
    /\ Ceiling \in Nat /\ Costs \subseteq Nat
    /\ \E most \in Costs : \A c \in Costs : c <= most
    /\ Answers \subseteq {"match", "miss", "null"}

VARIABLES phase,    \* "step", "call", "append", "finished" or "died"
          at,       \* the loop counters: model, task, trial, step, attempt; result, event
          episode,  \* the events of the trial that runs
          results,  \* the TrialResults of the model that runs
          ledger,   \* the events in workload.duckdb
          rows,     \* model_rows of leaderboard.json
          budget,   \* BudgetTracker: spent and _last_cost
          refused,  \* the tracker has raised BudgetExceeded
          aborted   \* budget_abort_msg is set

vars == <<phase, at, episode, results, ledger, rows, budget, refused, aborted>>

Model == ModelIds[at.model]

StartOf(m, n, t) ==
    [model |-> m, task |-> n, trial |-> t, step |-> 0, attempt |-> 1, result |-> 1, event |-> 1]

FirstTrial(m) == StartOf(m, 1, 0)

Init ==
    /\ phase = "step"
    /\ at = FirstTrial(1)
    /\ episode = << >>
    /\ results = << >>
    /\ ledger = << >>
    /\ rows = << >>
    /\ budget = [spent |-> 0, last |-> 0]
    /\ refused = FALSE
    /\ aborted = FALSE

------------------------------------------------------------------------------
SumOfCosts(s) == Total([i \in DOMAIN s |-> s[i].cost])

\* Mutant: an errored trial reports none of the steps it did take.
TrialResultIfDone(events, errored) ==
    [task |-> at.task, events |-> IF errored THEN << >> ELSE events,
     cost |-> IF errored THEN 0 ELSE SumOfCosts(events),
     success |-> ~ errored /\ Last(events).matched, errored |-> errored]

\* The TrialResult of an episode.
TrialResult(events, errored) ==
    [task |-> at.task, events |-> events, cost |-> SumOfCosts(events),
     success |-> ~ errored /\ Last(events).matched, errored |-> errored]

LastTrial == at.trial = Trials - 1 /\ at.task = NTasks

\* run_task() returns: the next trial, the next task, or the end of the suites.
EndTrial(events, errored) ==
    /\ results' = Append(results, TrialResult(events, errored))
    /\ episode' = << >>
    /\ IF LastTrial
       THEN phase' = "append" /\ UNCHANGED at
       ELSE /\ phase' = "step"
            /\ at' = IF at.trial < Trials - 1
                     THEN StartOf(at.model, at.task, at.trial + 1)
                     ELSE StartOf(at.model, at.task + 1, 0)

\* Mutant: the ceiling is held against the estimate of one call.
CrossesByCall == Ceiling > 0 /\ budget.last > Ceiling

\* BudgetTracker.check(): the next call is taken to cost what the last one did.
Crosses == Ceiling > 0 /\ budget.spent + budget.last > Ceiling

\* What run_task()'s `except Exception` around a step catches.
CaughtByRunTask == {"ProviderError", "BudgetExceeded"}

\* main()'s except BudgetExceeded: the models that are left are given up.
Abort ==
    /\ phase' = "finished"
    /\ aborted' = TRUE
    /\ UNCHANGED <<at, episode, results>>

\* The check before a call.
Check ==
    /\ phase = "step"
    /\ IF ~ Crosses
       THEN phase' = "call" /\ UNCHANGED <<at, episode, results, refused, aborted>>
       ELSE /\ refused' = TRUE
            /\ IF "BudgetExceeded" \in CaughtByRunTask
               THEN EndTrial(episode, TRUE) /\ UNCHANGED aborted
               ELSE Abort
    /\ UNCHANGED <<ledger, rows, budget>>

\* Mutant: the count starts again after the second attempt.
AttemptsRestarted == IF at.attempt = 1 THEN 2 ELSE 1

AttemptsMade == at.attempt + 1

\* An attempt raises: RetryingRunner tries again, or raises the last exception,
\* which ends the trial.
AttemptFails ==
    /\ phase = "call"
    /\ IF at.attempt < Attempts
       THEN at' = [at EXCEPT !.attempt = AttemptsMade] /\ UNCHANGED <<phase, episode, results>>
       ELSE EndTrial(episode, TRUE)
    /\ UNCHANGED <<ledger, rows, budget, refused, aborted>>

\* Mutant: every trial of a task runs with the same seed.
EventIdOfTask == <<Model, at.task, at.step>>

\* f"evt-{model_id}-{task.id}-{seed}-{step}" with seed + trial.
EventId == <<Model, at.task, at.trial, at.step>>

\* The step is the last of its episode.
EndsEpisode(answer) == answer = "match" \/ at.step = MaxSteps - 1

\* _build_event(): the last step is ALLOW and says whether it is an error.
EventOf(answer, cost) ==
    [id |-> EventId, cost |-> cost, matched |-> answer = "match",
     decision |-> IF EndsEpisode(answer) THEN "ALLOW" ELSE "VERIFY"]

Charged(cost) == [spent |-> budget.spent + cost, last |-> cost]

\* An attempt is answered and charged; the answer is parsed and verified.
Answered(answer, cost) ==
    LET events == Append(episode, EventOf(answer, cost)) IN
    /\ phase = "call"
    /\ answer # "null"
    /\ <<Model, cost>> \in Tariff
    /\ budget' = Charged(cost)
    /\ IF EndsEpisode(answer)
       THEN EndTrial(events, FALSE)
       ELSE /\ episode' = events
            /\ at' = [at EXCEPT !.step = @ + 1, !.attempt = 1]
            /\ phase' = "step"
            /\ UNCHANGED results
    /\ UNCHANGED <<ledger, rows, refused, aborted>>

\* parse_outcome(None) raises outside run_task()'s try: nothing on the way up
\* to main() catches it.
AnsweredNull(cost) ==
    /\ phase = "call"
    /\ "null" \in Answers
    /\ <<Model, cost>> \in Tariff
    /\ budget' = Charged(cost)
    /\ phase' = "died"
    /\ UNCHANGED <<at, episode, results, ledger, rows, refused, aborted>>

\* How many events each of the model's results has.
EventCounts == [i \in DOMAIN results |-> Len(results[i].events)]

\* for trial in results: the trial the two loops have come to.
TrialIsDue == phase = "append" /\ at.result <= Len(results)

\* for event in trial.events: ledger.append(event); a repeated id raises.
AppendEvent ==
    /\ TrialIsDue
    /\ at.event <= Len(results[at.result].events)
    /\ LET event == results[at.result].events[at.event] IN
         IF \E i \in DOMAIN ledger : ledger[i].id = event.id
         THEN phase' = "died" /\ UNCHANGED <<at, ledger>>
         ELSE /\ ledger' = Append(ledger, event)
              /\ at' = [at EXCEPT !.event = @ + 1]
              /\ UNCHANGED phase
    /\ UNCHANGED <<episode, results, rows, budget, refused, aborted>>

NextResult ==
    /\ TrialIsDue
    /\ at.event > Len(results[at.result].events)
    /\ at' = [at EXCEPT !.result = @ + 1, !.event = 1]
    /\ UNCHANGED <<phase, episode, results, ledger, rows, budget, refused, aborted>>

\* Mutant: the tracker is made anew for every model.
BudgetPerModel == [spent |-> 0, last |-> 0]

\* One tracker is shared by the runners of all models.
BudgetOfNextModel == budget

RowIsDue == at.result > Len(results)

\* Mutant: the severities of all tasks are repeated for each trial.
SeveritiesByTrial == [i \in DOMAIN results |-> TaskCosts[((i - 1) % NTasks) + 1]]

\* [t.severity for t in tasks for _ in range(trials)], priced.
SeverityOfResult == [i \in DOMAIN results |-> TaskCosts[((i - 1) \div Trials) + 1]]

Loss == SeverityLoss([i \in DOMAIN results |-> ~ results[i].success], SeverityOfResult)

\* The columns of a row that the events decide.  Left out are parse_rate and
\* mean_duration_ms, which come from the TrialResults and of which no event
\* tells (parse_ok is not in it, and its latency_ms is always 0.0), ece, a
\* statistic of the events' probabilities, and the false-success columns,
\* which are the same for every paid run.
Row == LET summary == Summary(results) IN
    [model |-> Model, loss |-> Loss, trials |-> Len(results), events |-> Total(EventCounts),
     pass_at_1 |-> summary.pass_at_1, pass_at_k |-> summary.pass_at_k,
     pass_k |-> summary.pass_k, errors |-> summary.errors, cost |-> summary.cost]

\* The row of a model that went through, then the next model.
WriteRow ==
    /\ phase = "append"
    /\ RowIsDue
    /\ rows' = Append(rows, Row)
    /\ results' = << >>
    /\ budget' = BudgetOfNextModel
    /\ IF at.model = Len(ModelIds)
       THEN phase' = "finished" /\ UNCHANGED at
       ELSE phase' = "step" /\ at' = FirstTrial(at.model + 1)
    /\ UNCHANGED <<episode, ledger, refused, aborted>>

Next ==
    \/ Check
    \/ AttemptFails
    \/ \E answer \in Answers, cost \in Costs : Answered(answer, cost)
    \/ \E cost \in Costs : AnsweredNull(cost)
    \/ AppendEvent
    \/ NextResult
    \/ WriteRow

Spec == Init /\ [][Next]_vars

\* The thread runs on: a call that hangs is cut off by the client's timeout.
FairSpec == Spec /\ WF_vars(Next)

------------------------------------------------------------------------------
\* The places of a model's events in the ledger.
InLedger(m) == {j \in DOMAIN ledger : ledger[j].id[1] = m}

Dearest == CHOOSE c \in Costs : \A d \in Costs : d <= c

\* The estimate keeps what the whole run spends, all models together, within the
\* ceiling but for what the dearest call costs more than some paid call, or to
\* the price of one call.  Free calls, after which the estimate is 0, do not
\* change that.
SpendNearCeiling ==
    Ceiling > 0 => \/ \E paid \in Costs \ {0} : budget.spent + paid <= Ceiling + Dearest
                   \/ budget.spent <= Dearest

\* Once a call was refused no call of the run is paid for, by any model
\* ("one ceiling covers the run, not each model separately").
NoPaidCallAfterRefusal == [][refused => budget'.spent = budget.spent]_vars

\* Every paid answer is accounted for: the costs of the rows, of the model's
\* results and of the running trial add up to what the tracker charged.
CostIsConserved ==
    phase # "died" =>
        budget.spent = SumOfCosts(rows) + SumOfCosts(results) + SumOfCosts(episode)

\* A trial is its task and its number; its events say which one it was, that it
\* passed where a step was verified, and that it ended where a step is ALLOW.
AllTrials == (1 .. NTasks) \X (0 .. Trials - 1)
TrialsOf(places) == {<<ledger[j].id[2], ledger[j].id[3]>> : j \in places}
Passed(m) == TrialsOf({j \in InLedger(m) : ledger[j].matched})
Ended(m) == TrialsOf({j \in InLedger(m) : ledger[j].decision = "ALLOW"})

CostInLedger(m) ==
    Total([j \in DOMAIN ledger |-> IF j \in InLedger(m) THEN ledger[j].cost ELSE 0])

\* K of each task, for as many of its trials as are in the set.
LossOf(trials) ==
    Total([n \in 1 .. NTasks |-> TaskCosts[n] * Cardinality({x \in trials : x[1] = n})])

\* The columns of Row can be had again from the ledger, where a trial has failed
\* that did not pass and is an error that did not end.
Regenerable(row) ==
    LET passed == Passed(row.model) IN
    /\ row.trials = Cardinality(AllTrials)
    /\ row.events = Cardinality(InLedger(row.model))
    /\ row.pass_at_1 = Cardinality({x \in passed : x[2] = 0})
    /\ row.pass_at_k = Cardinality({x[1] : x \in passed})
    /\ row.pass_k = Cardinality({n \in 1 .. NTasks : {n} \X (0 .. Trials - 1) \subseteq passed})
    /\ row.errors = Cardinality(AllTrials \ Ended(row.model))
    /\ row.cost = CostInLedger(row.model)
    /\ row.loss = LossOf(AllTrials \ passed)

\* Pass rates, loss, errors and cost of a row can be had again from the run's
\* ledger, whatever failed, was refused or ended early in between ("nothing goes
\* on a card unless it is regenerable from a tagged state plus a committed
\* artifact", README.md).  It says nothing of the columns Row leaves out:
\* parse_rate and mean_duration_ms cannot be had from the ledger.
RowsAreRegenerable == \A i \in DOMAIN rows : Regenerable(rows[i])

\* The n-th event of the i-th result has been appended.
Written(i, n) == i < at.result \/ (i = at.result /\ n < at.event)

\* "multi-model, multi-trial workloads fit one audit ledger"
\* (docs/IMPLEMENTATION.md): no event of a run repeats the id of another.
AppendNeverCollides ==
    phase = "append" =>
        \A i \in DOMAIN results : \A n \in DOMAIN results[i].events :
            ~ Written(i, n) => \A j \in DOMAIN ledger : ledger[j].id # results[i].events[n].id

\* The run comes to an end whatever the provider does.
RunEnds == <>(phase \in {"finished", "died"})

------------------------------------------------------------------------------
\* full_run.py: "partial is true for a stub run (always) OR a real run that a
\* BudgetExceeded abort cut short".
PartialWhenRefused == phase = "finished" /\ refused => aborted
==============================================================================
