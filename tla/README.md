# lossbench in TLA+

TLA+ models of lossbench, checked by TLC on small instances. For the ledger, the reviews, the outbox, the
agent gates, the task suites, the evaluation run and its publication the safety properties are also
proved, with TLAPS, for every value of the constants. Paths below are relative to the repository.

## 1. The system

lossbench measures agents by the money their errors cost, and decides at run
time what an agent may do. Its code falls into four groups.

**Durable state.**

| component | state | operations | what makes it correct |
|---|---|---|---|
| Audit ledger, `src/lossbench/ledger/store.py` | table `events` (one row per event: seq, JSON, prev and chain hash), one lock and one DuckDB connection per `AuditLedger` object | `append`, `get`, `events_by_*`, `read_all`, `verify`, `export_jsonl` | one unbroken hash chain whatever interleaves; an append that returned is durable; verify() accepts exactly what re-derives |
| Human review, `hitl/review.py` | none of its own: marker events `…@review-opened` and `…@review-resolved` in the ledger | `open_review`, `resolve`, `pending`, `sla_overdue` | no review lost, answered twice, or answered before it was opened |
| Outbox, `buzz/outbox.py` | table `outbox`, rows pending or published | `enqueue_*`, `mark_published`, `resolve_callback`, `pending`, `published` | one row per review and kind, nothing relayed twice, no callback accepted too early |
| Response cache, `cache/store.py` | table `responses`, hit and miss counters | `get`, `put` | a warm run repeats the cold one |

**Evaluation.** The generators (`generate/`) draw tasks from a seed and keep
those their verifier agrees with. `scripts/full_run.py` runs `EvalHarness`
(`eval/harness.py`) for each model, over runners wrapped for retry and budget
(`runners/`), appends the events to a ledger, scores the results (`scoring/`,
`metrics/`) and writes a leaderboard. `packaging/hf/publish.py` regenerates the two
splits, checks that they do not overlap, and makes the dataset card from the
leaderboard it finds. Correct when a task is what its fields show, the spend stays
at the ceiling, every paid answer is accounted for, the results in a published row can be had from
the ledger, no card mixes two runs, and everything ends.

**Control.** `policy/engine.py` decides ALLOW, ROUTE, VERIFY, ESCALATE or DENY; the
LangGraph middleware and the dsh bridge (`adapters/`) call it before a model or a
tool and record events in a `TrajectoryRecorder` (`record/recorder.py`, memory
only); the HTTP server (`server/`) appends posted events to a ledger and answers 409
to a repeated id. Correct when nothing denied goes through, a decision has one event, and
what is accepted stays.

**Analysis.** Replay, calibration, features, drift, contamination, metrics,
scoring and reports read recorded events and compute. They keep no state between
calls; most of what they compute is floating point.

**Interaction.** Everything durable meets in the ledger. `ReviewService`,
the server and `full_run.py` append to it; review, replay and calibration read
it. Readers take no lock and share the connection of the appends of the same
`AuditLedger` object. The caller, not lossbench, joins ledger and outbox: no
code writes to both.

**What is hard.** Threads and handles interleaving between the statements of
`append`; threads that share a middleware, posts that are repeated, gates that restart; reads of rows that are not yet committed; interrupts that skip the
ROLLBACK; crashes between COMMIT and return and the retries that follow;
check-then-insert in the outbox; exceptions swallowed by a blanket `except`; a
budget checked before the cost is known; lists matched by place after one was shuffled;
files that stay behind when a run stops; rules stated twice, in code and in a prompt. `PROJECT.json` lists each at its line
under `hazards`.

## 2. Modules

| module | what it is |
|---|---|
| `LedgerChain` | rows, hash chain, constraints, `verify` as operators |
| `AppendOnlyLog` | abstract specification: what the ledger promises its callers |
| `AuditLedger` | `append` statement by statement: threads × handles, lock, snapshot transactions, interrupt, crash |
| `MCAuditLedger` | its TLC instance |
| `LedgerCorruption`, `MCLedgerCorruption` | appends and one damage to the stored table; what `verify` says of it |
| `LedgerCorruptionProofs` | both of its properties |
| `AuditLedgerProofs` | the inductive invariants of `AuditLedger`, six safety theorems, and that it implements `AppendOnlyLog` |
| `ReviewService`, `MCReviewService` | reviews over a ledger with its handles, uncommitted rows and a clock |
| `ReviewServiceProofs` | all five of its properties, four of them for a service with one handle |
| `BuzzOutbox`, `MCBuzzOutbox` | the outbox, statement by statement, with workers, relay and callbacks |
| `BuzzOutboxProofs` | all four of its properties |
| `DecisionPolicy` | operators: `PolicyEngine.decide()` and the Bayes core under it |
| `AgentGate`, `MCAgentGate` | middleware and bridge in front of calls, their recorders, the posts to the server's ledger |
| `AgentGateProofs` | the inductive invariants of `AgentGate` and all five of its properties |
| `TaskVerifiers` | operators: the verdicts of the three domains, and the rules as the prompt words them |
| `TaskSuite`, `MCTaskSuite` | the generators' loops over a seed's stream, the suites, the gate on their overlap |
| `TaskSuiteProofs` | all four of its safety properties: disjoint splits, nested suites, severities that fit, a prompt that says enough |
| `Totals` | Python's `sum()` and its comprehensions with an `if`, step by step |
| `Scoring` | operators: pass@k, pass^k, severity-weighted loss, `summarize_suite()` |
| `EvalRun`, `MCEvalRun` | one paid run: models × tasks × trials × steps × attempts, budget, ledger, leaderboard rows |
| `EvalRunProofs` | what a run may spend, that its costs add up, that its events fit one ledger and its rows follow from them; of which run a card can be, and when |
| `Publication`, `MCPublication` | `EvalRun` with the files it leaves and the card `publish.py` makes of them |
| `RiskCosts` | operators: loss, the risk-coverage curve, the fit of the threshold (`metrics/loss.py`, `metrics/coverage.py`, `policy/fit.py`) |
| `CalibrationPipeline` | operators: `run_calibration_pipeline()` over a list of events |
| `ReplayLab` | operators: `simulate()` |
| `ControlLoop`, `MCControlLoop` | the ledger that gathers decisions, labels and review markers, refitted and replayed at any moment |
| `ControlLoopProofs` | all five of its properties |

### Ledger

A *handle* is one `AuditLedger` object: a connection and a lock. `append` is the
actions `CallAppend`, `Acquire`, `BeginTransaction`, `CheckExists`, `ReadHead`,
`Insert`, `Commit`, `Rollback`, `ReturnHead`, one per statement, because between
two statements anything may happen on another handle, and a reader may look in on
this one. `BeginRefused` is BEGIN inside a transaction that an interrupt left open: it raises
before the `try`. `Interrupt` is a KeyboardInterrupt, which `except Exception`
does not catch: the lock is released and no ROLLBACK runs. `Crash` keeps
committed rows only.

DuckDB is external and modelled by what the code uses: snapshot reads plus own
writes, PRIMARY KEY and UNIQUE checked against committed rows at INSERT and again
at COMMIT, a failed COMMIT has rolled back. SHA-256 is injective: a hash is the
sequence of the events it covers.

`MAX(seq)` and the read of the previous hash are one step, since both read the
same snapshot. The result slot that DuckDB's Python connection shares
between threads is not modelled here (see the plan).

### Review

`ReviewService` keeps the ledger as `AuditLedger` shows it to a client: a log, an
append serialised per handle, its row visible on that handle before COMMIT, and a
COMMIT that fails when another handle committed since. `open_review` is one
append. `resolve` reads first (`GetSource`, without the lock) and then appends.
`Scan` is `events_by_tenant` with its limit, as a set: the events of the tenant with fewer than `ScanLimit`
newer ones (`pending()` looks at them by id, so their order says nothing). `Pending` and `Overdue` are the two
queries. Arguments that raise before anything is read are left out: they change nothing.
With one handle every property holds. With two (`Handles` of two members), a reader of a handle
can see a marker that its COMMIT then loses, `resolve` records an answer to a review that was
never opened, and `ResolvedHasReview` fails. That no two
handles store one id twice is `ChainIntact` of the ledger, which is proved.

### Outbox

Each worker has a connection of its own; each statement is its own transaction.
`Abandon` is a statement that raises or a worker that dies. Since any call may be
made with any arguments at any time, retries, duplicates and late callbacks are
behaviours of the model.

### Agent gates

A *gate* is a `LossGuardMiddleware` or a `DshPluginBridge`; the agent's threads share it.
`Gate` is the hook up to the engine's decision, `Number` is `_seq += 1` and `Record` the
read of `_seq` with the record (two steps, because no lock is held), `Act` is the handler's
call, the exception or the envelope. The other bridge action is `OnResolution`. `Flush`
and `Post` are the recorder's drain and the server's endpoint: who drains a recorder is not
in the repository, so a flushed event may be posted any number of times and in any order.
`Restart` is the death of a gate's process: the buffer goes and the counter starts again. An event
is its id, the decision it is about, and what it says. The engine's decision is not a choice of
the model but `Decide`, computed from a policy, a risk and a severity.

Middleware ids repeat over instances and restarts: `shared_numbers` shows the 409 this earns.
Within one life two calls that run at once may read one number, and the second to be posted is
refused; `OneEventPerDecision` says that this is as far as it goes. Bridges' ids are
UUIDs, taken to be unique. The wrap hooks of the middleware hand the engine no risk (they have
none to hand), so its guard against costly calls works in `before_model` only.

### Task suites

`Random(seed)` is a stream of candidates nobody has read yet: a draw at a new position of a
stream is *any* candidate of the domain, at an old position the one drawn before. So each
property holds for every generator with this loop, and two suites of one seed differ only by
what the loops do. `Draw` is one turn of `generate_*_suite`: candidate, verifier, signature,
attempt. A candidate has the fields a verdict reads, cents and days as numbers, names as
sequences of tokens. `Complete`, `Exhausted` and `DrawRaises` end a loop; `Certify` is
`build_payload`'s comparison of the splits. A signature is the content without the
metadata, SHA-256 taken to be injective.

`StatedRulesDecide` compares each verdict, in every field that is graded, with the rules as `generate/prompt.py` words
them to a model. Payment and settlement agree. For reconciliation the prompt gives the names of the classes and a rule for a match:
`StatedAnswers` are the answers this leaves, `FittingClasses` the classes whose name fits the records. They are one
answer, and the verifier's, for all tasks but three kinds: an amount one cent off, which the code forgives; a reference booked
before, which only the code refuses; and another beneficiary, which the code calls a partial match if a word is shared. Those
are graded by a rule the model was not told, which prompt and card say does not happen: `stated_rules` is the run.

### Evaluation run and publication

The program is sequential: `at` holds its loop counters and `phase` says where it
is. The append of a model's events is two nested loops (`for trial in results`, `for event in
trial.events`), whose counters are `at.result` and `at.event`: `AppendEvent` is the inner one, `NextResult` the outer. The provider is nondeterministic: an attempt fails, or an answer
comes with a cost of its model (`Tariff`; a model without a price costs 0, `runners/baselines.py:15`) and is right, wrong or has no text. `CaughtByRunTask` is the `except
Exception` of `run_task`. It also takes `BudgetExceeded`, so `Abort`, the
`except` in `main`, is never reached; it is in the model so that a correction of the code is
a change of one definition. An answer whose content is None kills the run (`AnsweredNull`): `parse_outcome`
raises outside the `try`. A row has the counts of `Scoring!Summary` and the loss of the
model's results, whose severities come from a second list matched by place. `RowsAreRegenerable` computes the
trials, the events, the passes, the errors, the cost and the loss of a row again from the ledger's events alone. That is what of
"nothing goes on a card unless it is regenerable from a tagged state plus a committed artifact" (`README.md:101`) a ledger can keep:
`parse_rate` and `mean_duration_ms` are left out of `Row` because no event tells them (section 5), `ece` because it is
floating-point statistics of the events' probabilities, the false-success columns because every run of the harness writes the same. Tasks of all domains are one list; stub
runs have no tracker and are left out.

`Publication` adds the files. `WriteBoard` and `WriteReport` come after the loop over the models, in
this order; the operator copies them, in the order written, to a directory that may hold a
stub's or an earlier run's, and publishes from either directory whenever he likes. `IsResult` is the test of the card's table for what is a result, `CoversNothing` the second copy
of it in the note on coverage. A file is
whose it is and its mtime, a counter of writes. `runner` and `models` of a leaderboard are the
model's own, so a card can be traced to the events behind it: `PublishedRunIsComplete` asks of each row of a run's card that
it follows from that run's ledger (`Regenerable`).

### Control loop

`ControlLoop` composes the three operator modules over one ledger, here a list: appends are atomic
because `AuditLedger` shows that they are. `RecordStep` is what the harness writes, `RecordDecision` what an adapter or
a client writes, `OpenReview` and `ResolveReview` the markers, which repeat the probability of their
decision and carry no label. `FitPolicy` is `fit_policy_from_ledger`, `Replay` is
`simulate_with_ledger`, `SimulateBest` the command `simulate` over the rows that `TracedOf` keeps; `last` is what the call returned, with
the events it read. Only `FitPolicy` changes the policy in use. Arguments that replace the fitted threshold or
the labels (`escalation_threshold`, `label_fn`) are left out.

An event has its probability in `calibrated_probability`, among its `risk_features` (`featured`; the middleware's are all of
this kind), in both or in neither. The trace keeps a row that has one of the two, the fit reads the first alone and takes 0.0 for a missing one,
and replay never escalates such a row. So `SimulateFindsTheBest` has as hypothesis that fit and replay read the events
alike (`ReadAlike`), and `ReportIsHeldOut` asks nothing about labeled events without a probability.

A probability is its cell on the threshold grid, with a cell of its own for 1.0: every comparison of the code is with
a threshold of the grid, so the cell decides it. Costs are natural numbers. The numerical fit is any map that keeps
the order of cells and stays below 1.0 (the code clips to 0.999), chosen anew at each fit; the shuffle is a
constant operator, all permutations in `control_loop` and the one CPython's `Random(0)` gives in
`fit_pairs` (the identity for two labels, 1 3 2 for three). Nothing stated in `control_loop` depends on
either.

## 3. Runs

Most runs take seconds; `agent_gate`, `task_suite`, `control_loop`, `eval_run` and `ledger_two_handles` take up to two
minutes. *Violation* runs check one statement of a docstring or comment that the code does
not keep; `findings` quotes each.

| run | instance | shows |
|---|---|---|
| `ledger_two_handles` | 2 threads, 2 handles, 2 ids, one thread interruptible | `ChainIntact`, `AckedIsStored`, `DuplicateIsStored`, refinement of `AppendOnlyLog`; an append fails only by another handle or a transaction left open (`FailuresComeFromOutside`) |
| `ledger_corruption` | 4 ids, 2 bodies, one damage | `verify` accepts exactly what re-derives, names the row where the chain breaks however much is appended later, and is blind to tail loss, as documented |
| `review_one_handle` | 2 threads, 1 handle, 2 tenants, 2 resolutions, clock 0..1 | no review lost, answered twice or early; lists only move forward |
| `buzz_outbox` | 3 workers, 1 review, 2 tenants, 2 contents | one event for all callers, nothing relayed twice, callbacks in order |
| `agent_gate` | 2 threads, a middleware and a bridge, 6 calls to ask about, 2 calls, 2 answers, 1 restart of each gate | the policy holds by every hook, one event per decision, bridge decisions never refused but as retries, accepted events stand, more risk never means less care |
| `shared_numbers` | violation, 2 middlewares | a 409 for an event the ledger does not hold |
| `task_suite` | 3 domains, no mix and a CRITICAL mix; one seed's suites of 1 and 2 tasks, another seed's of 1; 2 attempts per task | the severity fits what the fields show, the prompt's rules decide, one seed gives prefixes, published splits share nothing, generation ends |
| `stated_rules` | violation, reconciliation | a task whose answer the stated rules do not decide |
| `eval_run` | 2 models, 2 tasks of cost 1 and 5, 2 trials, 2 steps, 3 attempts, ceiling 2, calls of the first model cost 1, of the second 0 or 2; a stub's leaderboard over an earlier run's report in the shared directory | spend, accounting, ids, rows, termination; a card is of one run that came to its end |
| `eval_refusal_swallowed` | violation, 1 model | a run cut short by the budget is published as complete |
| `control_loop` | 3 events, grid of 2, 2 severities, all shuffles and calibrators | only labels train, the report is held out, the fitted threshold is the cheapest, listed cases explain a replay, fit and replay count the same money |
| `fit_pairs` | violation, 3 labels | the threshold is fitted on probabilities paired with labels of other events |

**Why the bounds are enough.** Two handles are needed for any conflict and a third
adds none, as every conflict is between one transaction and the rows committed since
it began. Two threads give every race on a lock or a row. Two ids let an append
be a duplicate and a new row. Reviews do not interact except through
the scan, so one review and one other event exercise the service; `ScanLimit` 2
is the least that holds a review and its answer; with more newer events than the limit an
open review does fall out of `pending()`, by design of the scan.

At the gates two calls are the least that share a counter, or an id; the six asks lie on both sides of the threshold,
of the guard on expected loss and of the routes, with a tool that is denied, a severity that is unknown and a
model without a tier; two answers can contradict each other; one restart gives every number
a second owner. `MaxCalls`, `MaxAnswers` and `MaxLives` are the caps.

The suites' `AttemptsPerTask` is 2 where the code has 10: one rejection per task leaves room for the
other to be kept, and two exhaust the loop. Names, amounts and dates are one each, since the corruptions make
the variety; reconciliation pairs are hard ones, difficulty moving a date only. Two suites of a
seed are the least that can be prefixes, and a third from another seed can overlap.

In `eval_run` two trials of two steps give
refusals before the first, inside and after an episode, and two models a refusal that
outlives one; two tasks of different cost tell a loss by task from one by trial; three attempts tell a
counted retry from an uncounted one. The ceiling of 2 is met in the first model or in the second, exactly or beyond; free calls bring the
estimate of the next call down to 0. The files in the shared directory are a stub's leaderboard and an older run's report, so that a card can be
tempted by either.
In the control loop three events are the least at which the shuffle moves a label, and
hold a decision, its review and its answer; a grid of 2 has a cell below, at and above the middle threshold;
`ReplayLimit` 2 cuts the third event off; `MaxTime` stops the clock and `MaxEvents` the ledger.
Nothing else is capped: logs and tables are finite because ids are.

**Fairness.** `EvalRun!FairSpec` is weak fairness of the one thread; its
calls are bounded by the client's timeout (`runners/openai_compat.py`). `Publication!FairPubSpec` is the same of the run's
steps, and none of the operator's. `TaskSuite!FairSpec` is weak fairness of
sequential loops that nothing blocks. Deadlock is checked except
in `EvalRun`, `Publication`, `LedgerCorruption`, `TaskSuite` and `AgentGate`, which really stop: the work is done, or
the cap on calls is reached.

## 4. Proofs

Every safety property of the passing runs is proved, some under a hypothesis that is named with them. The
theorems hold for any sets, sequences and bounds that the named ASSUMEs allow; TLC evaluates each
ASSUME on the instances. Hardly any property below is inductive as the runs state it.

### Ledger: `AuditLedgerProofs`, `LedgerCorruptionProofs`

* `TypeCorrect`: `Spec => []TypeOK`
* `ChainIsIntact`: `Spec => []ChainIntact`
* `AckedAppendIsDurable`: `Spec => []AckedIsStored`
* `DuplicateIsCommitted`: `Spec => []DuplicateIsStored`
* `FailuresAreExplained`: `Spec => FailuresComeFromOutside`
* `TheLockSuffices`: `Spec => []OneHandleNeverFails`: one handle and no interrupts, no conflict and no refused BEGIN
* `LedgerImplementsLog`: `Spec => ImplementsLog`
* `OneAppendAtATime`: the lock keeps two appends of a handle apart
* `VerifyAcceptsWhatRederives`: `Spec => []VerifyIsRederivation`
* `DamageIsReportedWhereItIs`: `Spec => []DamageIsLocated`

`ChainIntact` is not inductive: that a COMMIT extends the chain
depends on what the thread read long before. `IInv` adds that the snapshot of every
transaction is a chain and a *prefix* of the committed rows (`IsPrefix`: all rows up to its
MAX(seq)), and that a thread's locals continue that snapshot (`ThreadInv`). At COMMIT
either the snapshot is all of the file, and the row is its next, or some other row has
taken the seq and `UNIQUE(seq)` refuses it. That one case split is why the
constraint, not the lock, keeps the chain whole over several handles. Lemmas on
`MaxSeq`, on chains extended by a row and on prefixes carry the arithmetic; each
action has one step.

An append that fails has something outside to blame: its row violates a constraint only if the snapshot is no longer
the file, and BEGIN meets a transaction only if an interrupt left it, since the thread whose own it is would hold the lock.
With one handle and no interrupts it is the lock that does it (`AloneInv`): a transaction is open only
while a thread is at work, its snapshot is then all of the file, and past `CheckExists` the event is new. So the
row violates nothing at INSERT or COMMIT, and no BEGIN meets an open transaction.

For the refinement the log is the events by seq, a COMMIT is `Store`, the return of a head is `Return`, all else
stutters. The strengthening `RInv` says that the hash stored at seq *n* is the first *n* events.

For a damaged table `DamageInv` keeps, whatever is appended on top, what damage leaves: up to where (`Whole`) every row fits
on the stored hash of the row before, and at which row the chain first does not (`BreaksAt`). That `verify()`, which trusts each stored hash for
the next row, accepts exactly what re-derives from the events alone goes by the least row where the two differ. The derived chain is a
recursive function over a table with gaps; that there is such a function (`DerivedIsDerived`) is proved first, again by a least
counterexample (`LeastNumber`, from the well-founded order of the naturals), which stands in for the induction that the prover cannot do.

### Review: `ReviewServiceProofs`

* `AtMostOneAnswerStands`: `Spec => []OneAnswerStands`, for any number of handles
* `ResolutionsHaveReviews`: `Spec => []ResolvedHasReview`, if `OneHandle`
* `AnsweredReviewsAreNotPending`: `Spec => []AnsweredIsNotPending`, if `OneHandle`
* `ReviewsAreNotLost`: `Spec => []NoReviewIsLost`, if `OneHandle` and `FitsTheScan`
* `ReviewsMoveForward`: `Spec => ReviewsOnlyMoveForward`, if `OneHandle` and `FitsTheScan`

`IInv` follows one append: the thread that holds a handle's transaction, the check of the id against the
handle's view, and a COMMIT that succeeds only where the transaction began. `HandleInv` adds, for one handle, that a transaction
begins at the end of the log (`TopInv`) and that a thread which has seen the marker of a review still has
it: in the log, or in the append in progress, which then is another thread's and ends first (`SourceInv`). That is
the argument that fails for two handles. `ViewInv` says of everything a reader can see, committed or not, that
an answer carries the tenant of its review, stands after it, and that ids are unique (`Sound`). From that the queries follow: an
answer is newer than its review, so a scan that reaches the review reaches the answer. `AnsweredIsNotPending` is about answers
that are committed.

The hypotheses are needed. Without `OneHandle` an answer can outlive the review it was given to, see *Review* in section
2. `FitsTheScan` says that there are at most `ScanLimit + 1` ids of events; with more, an open review can lie behind the
newest `_SCAN_LIMIT` events (a million, `hitl/review.py:24`), which is as far as `pending()` looks.

### Outbox: `BuzzOutboxProofs`

* `AllGetOneEvent`: `Spec => []OneEventForAll`
* `ResolutionsHaveRequests`: `Spec => []ResolutionHasRequest`
* `AcceptedWasRelayed`: `Spec => []AcceptedIsRelayed`
* `RelayedOnce`: `Spec => NothingIsRelayedTwice`

What a worker has read is kept (`Learnt`: rows are never deleted and never become pending again), the keys of the table are
unique (`KeysAreUnique`, the primary key that turns the race of two inserts into a second look-up), and what callers were told is in the table
(`TableInv`). `AllGetOneEvent` is about the callers that are given an event: one that loses the race of two inserts is given the constraint
error (section 5).

### Agent gates: `AgentGateProofs`

* `ThePolicyHolds`: `Spec => []PolicyHolds`
* `WhatIsAcceptedStands`: `Spec => []AcceptedStands`
* `DecisionsOfBridgesAreKept`: `Spec => []BridgeDecisionsAreKept`
* `DecisionsHaveOneEvent`: `Spec => []OneEventPerDecision`
* `RiskierCallsAreTakenMoreCareOf`: `Spec => []RiskierCallsGetMoreCare`

What has gone through says nothing of the rules unless each recorded decision is the
engine's (`GateInv`); what a 409 means depends on what can hold the id it names, so `EventsInv` says what any event
in a buffer, on its way, stored or answered can be (`Known`): a human's answer, a bridge's
decision under its own id, or a middleware's. The three id shapes are disjoint, and a bridge's names its decision;
with `LedgerInv` (a taken id has one owner) only the event itself can have taken it. A middleware's event has no
such argument, which is what `shared_numbers` shows.

For one event per decision `RecInv` follows a call through the hook: which decision a thread is at (`CallsInv`), that the
numbers of a middleware's events have been given out and a thread about to record has a newer one than any it has
recorded (`NumbersInv`), and that a decision has its event exactly from the record on (`HeldInv`).

The last theorem is about `Decide`, a pure function. The loss of a tier is a fraction, risk over cost plus cost; `BestExists`
shows that the tiers a CHOOSE is made from have a least one, `DearerTiersGain` that what a dearer tier gains on a cheaper one grows with the
risk, and so `RoutesGetDearer`.

### Task suites: `TaskSuiteProofs`

* `PublishedSplitsAreDisjoint`: `Spec => []PublishedSplitsShareNothing`
* `SuitesOfASeedAreNested`: `Spec => []SameSeedSamePrefix`
* `SeveritiesFit`: `Spec => []SeverityFitsTheFields`
* `ThePromptSaysEnough`: `Spec => []StatedRulesDecide`

That two suites of a seed are prefixes of each other is a statement about the past: the loop that runs does again what an earlier one
did. `HistoryInv` says that for each seed one sequence of task lists, by the number of candidates
taken, explains every suite that is complete and the one in the making. The severities follow from what the verifier must have read
for the task to be kept (`LoopTypes`), field by field; `TaskVerifiers` states the rules as data (`RepairRules`,
`SettlementRules`, `FirstMatch`), so the proof goes through the rules in their order (`TheFirstRuleDecides`, `SomeRuleDecides`).

The rules of the prompt are not the code's: the prompt takes the shared words of a payment's two names as a share of the one name's words, the
code of the words of both. `SharesAgree` shows on which names a half is a half either way, all the source's words or none of them, and
`SignalledPayment` that a draw makes no others, given `DrawAssumption`: no name of the pool has a word of `TOTALLY DIFFERENT ENTITY
OY`, which the mismatch puts in its place, and none is empty. A pool with such a name would be graded by a rule the model was not told. For reconciliation, `TheClassThatFits`
says that where a corruption makes one class fit the records, the prompt leaves that answer alone; `ExceptionRulesDecide` goes through the corruptions, and
`CleanRulesDecide` through the pairs that are to match. The three kinds of task of `stated_rules` are the cases this argument cannot take, and the
property exempts them by their fields.

### Evaluation run and publication: `EvalRunProofs`

* `SpendStaysNearCeiling`: `Spec => []SpendNearCeiling`
* `NothingPaidAfterRefusal`: `Spec => NoPaidCallAfterRefusal`
* `EventsFitOneLedger`: `Spec => []AppendNeverCollides`, if no model is named twice
* `CostsAreConserved`: `Spec => []CostIsConserved`
* `RowsCanBeRegenerated`: `Spec => []RowsAreRegenerable`, if no model is named twice
* `CardsAreOfOneRun`: `PubSpec => []CardIsOfOneRun`
* `PublishedRunsCameToTheirEnd`: `PubSpec => [](card.of = "this" => CameToItsEnd)`
* `PublishedRunsAreComplete`: `PubSpec => []PublishedRunIsComplete`, if no model is named twice
* `PublicationLeavesTheRun`: `PubSpec => Spec`, so that the theorems about a run hold of the one `Publication` composes

`BudgetInv` is what the tracker knows between a check and a charge, and that a tracker which has refused goes on refusing. A check
holds the cost of the last call against what is left, so the spend is past the ceiling by at most what the dearest call costs more than some
paid one (or is one call's). A free call makes the estimate 0: then the next check lets pass whatever is not beyond the ceiling already, and
`FreeCallInv` says that there is room for a paid call before it (`CheckedCallHasRoom`). That prices have a greatest is in `RunAssumption`. `IdInv` places every event: in the ledger,
of an earlier model or of a result before the cursor; in the results, of a trial before the loops' counters.
Its hypothesis is no formality: `--models` takes the same model twice, whose second pass
would then repeat the ids of the first.

A card is of one run because the report's mtime tells one that was left behind: `CardInv` says that of the files of either directory, and
`EarlierAssumption` that a run before this one wrote its report after its leaderboard. `EndInv` adds the rows of the models gone through,
and `CountInv` the ledger: while a model's events are appended it has as many of them as the loops have passed (`CursorInv`), and every row
counts those of its model (`RowsCount`), which later models leave alone.

Sums and comprehensions are recursive functions (`Totals!Sums`, `Totals!Kept`). `Recursion` shows, by a least counterexample, that such
a function exists; `TotalOfAppend` says what one more number adds,
which is all that conservation of cost needs: each answer is charged and added once, each trial and each row moves a sum to the next account.

A row is computed from the results, and `RowsAreRegenerable` from the ledger, after the results are gone. `RowInv` spans the two. The
results lie in the order of tasks and trials (`InOrder`: a result stands at its `Place`), so that those of one task are a block of
the list (`BlockMasked`); what a result says of itself, whether it passed, failed or was refused, its events say too; and while a model's events
are appended, `AppendInv` says that what the ledger has of the model is what the two loops have written, and costs what they have
passed. When the loops end the ledger tells the results (`LedgerTellsResults`), and each number of the row agrees with its recomputation:
the passes and errors because a count over a list is the size of a set of places (`CountIsCardinality`, `PassesAgree`, `ErrorsAgree`), the
cost by `OwnCosts`, the loss task by task (`LossAgrees`), from the outcomes of a task's trials as `summarize_suite` collects them
(`MatrixIs`). That list of severities matched by place is right only because the results are in that order, which no line of the code says.
Later models leave a row's events alone, since ids carry the model's name: hence the hypothesis. `PublishedRunsAreComplete` takes the same to
the rows of a card.

### Control loop: `ControlLoopProofs`

* `LabelsAloneTrain`: `Spec => []OnlyLabelsTrain`
* `ReportsAreHeldOut`: `Spec => []ReportIsHeldOut`
* `FitsAreCheapest`: `Spec => []ThresholdIsCheapest`
* `ReplaysAreExplained`: `Spec => []ReplayIsExplained`
* `SimulationsFindTheBest`: `Spec => []SimulateFindsTheBest`

The invariant is short: the ledger holds events, the threshold is on the grid (`LoopTypes`), and what a call returned has
the five properties (`Reports`). The work is in what the calls compute. A comprehension `[x for x, keep in zip(...) if keep]`
is `Masked`, over the places that `Kept` gathers one by one; `KeptFacts` says which they are and that they rise,
and `TotalOfMasked` that a sum over what is kept is a sum over all with 0 for the rest. From
there `ReviewedCost` turns a point of the curve into the sum of what each case costs, which the fit (`FitFacts`) and the replay
(`ReplayCost`) share, and `SimulationsFindTheBest` follows. `PipelineIs` says that all the pipeline fits depends on the
labeled events and their order alone, `HalvesPart` that the halves of an order of theirs are a partition.
That a shuffle repeats and drops nothing is `CaseAssumption`; that the calibrated probabilities stay
below 1.0 is in `Calibrators`, and `FitsAreCheapest` needs it for its last part.
`ReportsAreHeldOut` says that the halves hold every labeled event with a probability and only labeled events; `SimulationsFindTheBest` is
for events that fit and replay read alike.

### Only model-checked

* Liveness (`RunEnds`, `GenerationEnds`) and fairness: out of the prover's reach.

The assumptions the theorems rest on are `ConstantsNonEmpty`, `ThreadAssumption`, `HandlesNonEmpty` (sets that are not
empty, `NoThread` no thread), `LimitAssumption`, `NoneAssumption` (None is no event), `NoTenantAssumption`, `PolicyAssumption`
(costs and scale are natural numbers), `GateAssumption` (no object both a middleware and a
bridge; `model_tiers` a dict; a hook is told of a risk or of none), `SuiteAssumption`, `DrawAssumption`, `RunAssumption`,
`EarlierAssumption`, `CostAssumption` and `CaseAssumption` (costs and limits are natural numbers, a shuffle is a permutation), and the hypotheses named above. Type invariants are stated where a proof needs them.

## 5. Divergences without a run

Seen while modelling; each follows from the lines named.

* `resolve()` over two handles (`hitl/review.py:151`): see *Review*.
* An event without a probability is fitted as p = 0 (`calibrate/pipeline.py:95`; the docstring at line 78 says it is excluded).
* The trace of `simulate` keeps a row whose risk is among its `risk_features` (`cli/commands.py:249`, as the docstring at line 242 says), but the fit
  takes it for 0.0 (line 211): with one such error of loss 5, a harmless row at 0.6 and escalation at 2 the fit picks threshold 0, which
  the replay prices at 7, and threshold 1 at 5.
* `parse_ok` is not in an event and `latency_ms` is always 0.0 (`eval/harness.py:276`), so two columns of a row cannot be had from the ledger;
  the card prints one of them, `parse_rate` (`packaging/hf/publish.py:85`).
* A second enqueue returns the existing row by its docstring (`buzz/outbox.py:106`); one that runs at the same time raises the constraint error (line 129).
* `fit_model_tiers()` makes a tier of a model's risk (`policy/fit.py:60`), where the engine takes the risk to fall as the tier rises (`policy/engine.py:112`).
* The harness records how likely an answer is right (`eval/harness.py:290`) in the field that replay reads as how likely
  it is wrong (`docs/IMPLEMENTATION.md:87`).
* Fit and replay limits take the oldest events, so a long ledger's new labels never reach them (`calibrate/pipeline.py:174`).
* The markers of a review repeat its decision's probability, so replay charges one case more than once (`replay/simulator.py:67`).
* `publish.py` reads `artifacts/leaderboard.json` by default, `full_run.py` writes `artifacts/<run_id>/leaderboard.json`; the
  leaderboard has no `n_tasks`, so the card's coverage is always unknown; and a run's seed defaults to 7 where the eval split has
  777, so the scored tasks are then no part of that split.
* The severity mix is documented to five percent, but nearly half the reconciliation tasks are clean and LOW.
* A trial that failed at its first step has `parse_ok` False, so a gateway's errors lower a model's parse rate, which
  `publish.py:141` says cannot be.
* The middleware's `observed_outcome` is always set (`adapters/langgraph.py:211`), so false success cannot show there.
* The outbox takes a callback's resolution and reviewer for granted but for their shape (`buzz/outbox.py:211`).

## 6. Not modelled, and the plan

Not modelled, with reasons, in `PROJECT.json` under `components`: rendering,
packaging layout, argument parsing, HTTP proxying, floating-point statistics, user interfaces. The response
cache is left out because nothing in the repository hands one to a harness.

Next, in this order:

1. `LedgerConnection`: the result slot a connection shares between a reader and an append (`ledger/store.py:120`).
2. The server's deciding endpoint, with tenants on one ledger.
