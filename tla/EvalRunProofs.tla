---------------------------- MODULE EvalRunProofs ----------------------------
(***************************************************************************)
(* Proofs about EvalRun: what a run may spend, that it spends nothing once *)
(* a call was refused, and that the events of all its models, trials and   *)
(* steps fit one ledger, for any tasks, prices, ceiling and number of      *)
(* models, trials, steps and attempts, whatever the provider answers; and  *)
(* that the columns of Row can be had again from that ledger.              *)
(*                                                                         *)
(* Then about Publication, which extends it: a card is of one run, and of  *)
(* this run only when it came to its end, whatever the shared directory    *)
(* held before, whenever the run stopped and whatever was copied and       *)
(* published when.                                                         *)
(***************************************************************************)
EXTENDS Publication, FiniteSetTheorems, TLAPS

\* What the tracker knows: what was spent, and the price of the last call.
TrackerInv ==
    /\ budget.spent \in Nat /\ budget.last \in Nat
    /\ DOMAIN budget = {"spent", "last"}
    /\ budget.spent = 0 \/ budget.last \in Costs

\* Nothing was spent, or there is room for some call that is paid for.
Room == budget.spent = 0 \/ \E paid \in Costs \ {0} : budget.spent + paid <= Ceiling

\* Where the estimate is 0, after a free call, the call before it had left room.
FreeCallInv == Ceiling > 0 /\ budget.last = 0 => Room

\* A call was checked, and nothing was charged since.
CallInv == phase = "call" => ~ Crosses

\* The tracker that refused goes on refusing.
RefusalInv == refused => Crosses

BudgetInv == TrackerInv /\ FreeCallInv /\ CallInv /\ RefusalInv /\ SpendNearCeiling

------------------------------------------------------------------------------
LEMMA PricesAreBounded ==
    /\ Costs \subseteq Nat
    /\ Dearest \in Costs
    /\ \A c \in Costs : c <= Dearest
<1>1. PICK most \in Costs : \A c \in Costs : c <= most
  BY RunAssumption
<1>2. Dearest \in Costs /\ \A c \in Costs : c <= Dearest
  BY <1>1 DEF Dearest
<1> QED
  BY <1>2, RunAssumption

LEMMA BudgetInit == Init => BudgetInv
  BY PricesAreBounded, RunAssumption
  DEF Init, BudgetInv, TrackerInv, FreeCallInv, Room, CallInv, RefusalInv, SpendNearCeiling,
      Crosses

\* A call that was checked finds room: the last one was paid for and would fit
\* again, or it was free.
LEMMA CheckedCallHasRoom ==
  ASSUME TrackerInv, FreeCallInv, ~ Crosses, Ceiling > 0
  PROVE  Room
<1>1. Ceiling \in Nat
  BY RunAssumption
<1>2. CASE budget.last = 0
  BY <1>2 DEF FreeCallInv
<1>3. CASE budget.last # 0 /\ budget.spent # 0
  <2>1. budget.last \in Costs \ {0} /\ budget.spent + budget.last <= Ceiling
    BY <1>1, <1>3 DEF Crosses, TrackerInv
  <2> QED
    BY <2>1 DEF Room
<1>4. CASE budget.spent = 0
  BY <1>4 DEF Room
<1> QED
  BY <1>2, <1>3, <1>4

\* It costs at most the dearest, and leaves the room it found when it is free.
LEMMA ChargeStaysNear ==
  ASSUME BudgetInv, phase = "call", NEW cost \in Costs, budget' = Charged(cost)
  PROVE  TrackerInv' /\ FreeCallInv' /\ SpendNearCeiling' /\ ~ refused
<1>1. TrackerInv' /\ budget'.spent = budget.spent + cost /\ budget'.last = cost
  BY PricesAreBounded DEF BudgetInv, TrackerInv, Charged
<1>2. ~ Crosses /\ ~ refused /\ TrackerInv /\ FreeCallInv
  BY DEF BudgetInv, CallInv, RefusalInv
<1>3. Ceiling \in Nat /\ budget.spent \in Nat /\ cost \in Nat /\ cost <= Dearest /\ Dearest \in Nat
  BY <1>2, RunAssumption, PricesAreBounded DEF TrackerInv
<1>4. Ceiling > 0 => Room
  BY <1>2, CheckedCallHasRoom
<1>5. FreeCallInv'
  <2>1. cost = 0 => budget'.spent = budget.spent
    BY <1>1, <1>3
  <2> QED
    BY <1>1, <1>4, <2>1 DEF FreeCallInv, Room
<1>6. ASSUME budget.spent = 0
      PROVE  SpendNearCeiling'
  <2>1. budget'.spent <= Dearest
    BY <1>1, <1>3, <1>6
  <2> QED
    BY <2>1 DEF SpendNearCeiling
<1>7. ASSUME NEW paid \in Costs \ {0}, budget.spent + paid <= Ceiling
      PROVE  SpendNearCeiling'
  <2>1. paid \in Nat
    BY PricesAreBounded
  <2>2. budget'.spent + paid <= Ceiling + Dearest
    BY <2>1, <1>1, <1>3, <1>7
  <2> QED
    BY <2>2 DEF SpendNearCeiling
<1>8. SpendNearCeiling'
  BY <1>4, <1>6, <1>7 DEF Room, SpendNearCeiling
<1> QED
  BY <1>1, <1>2, <1>5, <1>8

\* A step that charges nothing, after which a call is made only when it was
\* checked, and refused only when the tracker refuses.
LEMMA NoChargeKeeps ==
  ASSUME BudgetInv, budget' = budget,
         phase' = "call" => phase = "call" \/ ~ Crosses,
         refused' => refused \/ Crosses
  PROVE  BudgetInv'
  BY DEF BudgetInv, TrackerInv, FreeCallInv, Room, CallInv, RefusalInv, SpendNearCeiling, Crosses

LEMMA EndTrialMakesNoCall ==
  ASSUME NEW events, NEW errored, EndTrial(events, errored)
  PROVE  phase' \in {"append", "step"}
  BY DEF EndTrial

LEMMA BudgetNext ==
  ASSUME BudgetInv, [Next]_vars
  PROVE  BudgetInv'
<1>1. CASE Check
  <2>1. budget' = budget
    BY <1>1 DEF Check
  <2>2. phase' = "call" => ~ Crosses
    BY <1>1, EndTrialMakesNoCall DEF Check, Abort
  <2>3. refused' => refused \/ Crosses
    BY <1>1 DEF Check
  <2> QED
    BY <2>1, <2>2, <2>3, NoChargeKeeps
<1>2. CASE AttemptFails
  <2>1. budget' = budget /\ refused' = refused /\ phase = "call"
    BY <1>2 DEF AttemptFails
  <2> QED
    BY <2>1, NoChargeKeeps
<1>3. ASSUME NEW answer \in Answers, NEW cost \in Costs, Answered(answer, cost)
      PROVE  BudgetInv'
  <2>1. phase = "call" /\ budget' = Charged(cost) /\ refused' = refused
    BY <1>3 DEF Answered
  <2>2. phase' # "call"
    BY <1>3, EndTrialMakesNoCall DEF Answered
  <2> QED
    BY <2>1, <2>2, ChargeStaysNear DEF BudgetInv, CallInv, RefusalInv
<1>4. ASSUME NEW cost \in Costs, AnsweredNull(cost)
      PROVE  BudgetInv'
  <2>1. phase = "call" /\ budget' = Charged(cost) /\ refused' = refused /\ phase' = "died"
    BY <1>4 DEF AnsweredNull
  <2> QED
    BY <2>1, ChargeStaysNear DEF BudgetInv, CallInv, RefusalInv
<1>5. CASE AppendEvent
  BY <1>5, NoChargeKeeps DEF AppendEvent, TrialIsDue
<1>6. CASE NextResult
  BY <1>6, NoChargeKeeps DEF NextResult, TrialIsDue
<1>7. CASE WriteRow
  <2>1. budget' = budget /\ refused' = refused /\ phase' # "call"
    BY <1>7 DEF WriteRow, BudgetOfNextModel
  <2> QED
    BY <2>1, NoChargeKeeps
<1>8. CASE UNCHANGED vars
  BY <1>8, NoChargeKeeps DEF vars
<1> QED
  BY <1>1, <1>2, <1>3, <1>4, <1>5, <1>6, <1>7, <1>8 DEF Next

\* Whatever calls cost, and with models that are free, the whole run stays within
\* its ceiling but for what the dearest call costs more than some paid one, or
\* spends no more than one call: BudgetTracker.check() before every call, with one
\* tracker for the run.
THEOREM SpendStaysNearCeiling == Spec => []SpendNearCeiling
<1>1. BudgetInv => SpendNearCeiling
  BY DEF BudgetInv
<1> QED
  BY <1>1, BudgetInit, BudgetNext, PTL DEF Spec

\* After the tracker has refused one call, no model of the run pays for another:
\* the exception that run_task() swallows is raised again by every later check.
THEOREM NothingPaidAfterRefusal == Spec => NoPaidCallAfterRefusal
<1>1. ASSUME BudgetInv, [Next]_vars, refused
      PROVE  budget' = budget
  <2>1. phase # "call"
    BY <1>1 DEF BudgetInv, CallInv, RefusalInv
  <2> QED
    BY <1>1, <2>1
    DEF Next, vars, Check, AttemptFails, Answered, AnsweredNull, AppendEvent, NextResult,
        WriteRow, BudgetOfNextModel
<1>2. BudgetInv /\ [Next]_vars => [refused => budget'.spent = budget.spent]_vars
  BY <1>1
<1> QED
  BY <1>2, BudgetInit, BudgetNext, PTL DEF Spec, NoPaidCallAfterRefusal

------------------------------------------------------------------------------
\* One ledger for all events: the ids of the run.
Events == [id : STRING \X Nat \X Nat \X Nat, cost : Nat, matched : BOOLEAN, decision : {"ALLOW", "VERIFY"}]

TrialResults ==
    [task : Nat, events : Seq(Events), cost : {SumOfCosts(e) : e \in Seq(Events)},
     success : BOOLEAN, errored : BOOLEAN]

Positions ==
    [model : 1 .. Len(ModelIds), task : Nat, trial : Nat, step : Nat, attempt : Nat,
     result : Nat \ {0}, event : Nat \ {0}]

LoopTypes ==
    /\ at \in Positions
    /\ episode \in Seq(Events)
    /\ results \in Seq(TrialResults)
    /\ ledger \in Seq(Events)

InTrial == phase \in {"step", "call"}

Running == InTrial \/ phase = "append"

\* The events of the trial that runs carry its place and their step.
EpisodeInv(events) == \A n \in DOMAIN events : events[n].id = <<Model, at.task, at.trial, n - 1>>

\* An id of a trial that the loops have left.
Behind(id) == id[2] < at.task \/ (id[2] = at.task /\ id[3] < at.trial)

\* No two events of the model's results have one id.
ResultInv ==
    /\ \A i \in DOMAIN results : \A n \in DOMAIN results[i].events :
         /\ results[i].events[n].id[1] = Model
         /\ InTrial => Behind(results[i].events[n].id)
    /\ \A i, j \in DOMAIN results :
         \A n \in DOMAIN results[i].events, k \in DOMAIN results[j].events :
            results[i].events[n].id = results[j].events[k].id => i = j /\ n = k

OfAnEarlierModel(id) == \E m \in 1 .. at.model - 1 : id[1] = ModelIds[m]

OfAWrittenEvent(id) ==
    \E i \in DOMAIN results : \E n \in DOMAIN results[i].events :
        Written(i, n) /\ id = results[i].events[n].id

\* Where the events of the ledger come from.
Known(id) == OfAnEarlierModel(id) \/ OfAWrittenEvent(id)

LedgerInv == \A j \in DOMAIN ledger : Known(ledger[j].id)

IdInv ==
    /\ LoopTypes
    /\ InTrial => EpisodeInv(episode) /\ Len(episode) = at.step
                  /\ at.result = 1 /\ at.event = 1
    /\ phase = "append" => episode = << >>
    /\ Running => ResultInv /\ LedgerInv

LEMMA PositionTypes ==
  ASSUME LoopTypes
  PROVE  /\ at.model \in 1 .. Len(ModelIds) /\ at.task \in Nat /\ at.trial \in Nat
         /\ at.step \in Nat /\ at.attempt \in Nat
         /\ at.result \in Nat \ {0} /\ at.event \in Nat \ {0} /\ at \in Positions
  BY DEF LoopTypes, Positions

\* Where the loops are after a step.
Now(model, task, trial, step, result, event) ==
    /\ at' \in Positions
    /\ at'.model = model /\ at'.task = task /\ at'.trial = trial /\ at'.step = step
    /\ at'.result = result /\ at'.event = event

LEMMA LoopsMove ==
  ASSUME at \in Positions
  PROVE  /\ at' = [at EXCEPT !.attempt = @ + 1] =>
              Now(at.model, at.task, at.trial, at.step, at.result, at.event)
         /\ at' = [at EXCEPT !.step = @ + 1, !.attempt = 1] =>
              Now(at.model, at.task, at.trial, at.step + 1, at.result, at.event)
         /\ \A m \in 1 .. Len(ModelIds), n, t \in Nat : at' = StartOf(m, n, t) =>
              Now(m, n, t, 0, 1, 1)
         /\ at' = [at EXCEPT !.event = @ + 1] =>
              Now(at.model, at.task, at.trial, at.step, at.result, at.event + 1)
         /\ at' = [at EXCEPT !.result = @ + 1, !.event = 1] =>
              Now(at.model, at.task, at.trial, at.step, at.result + 1, 1)
<1>1. at' = [at EXCEPT !.attempt = @ + 1] =>
        Now(at.model, at.task, at.trial, at.step, at.result, at.event)
  BY DEF Now, Positions
<1>2. ASSUME at' = [at EXCEPT !.step = @ + 1, !.attempt = 1]
      PROVE  Now(at.model, at.task, at.trial, at.step + 1, at.result, at.event)
  <2> DEFINE next == [at EXCEPT !.step = @ + 1]
  <2>1. /\ next \in Positions
        /\ next.model = at.model /\ next.task = at.task /\ next.trial = at.trial
        /\ next.step = at.step + 1 /\ next.result = at.result /\ next.event = at.event
    BY DEF Positions
  <2>2. at' = [next EXCEPT !.attempt = 1]
    BY <1>2
  <2> HIDE DEF next
  <2> QED
    BY <2>1, <2>2 DEF Now, Positions
<1>3. \A m \in 1 .. Len(ModelIds), n, t \in Nat : at' = StartOf(m, n, t) =>
        Now(m, n, t, 0, 1, 1)
  BY DEF Now, StartOf, Positions
<1>4. at' = [at EXCEPT !.event = @ + 1] =>
        Now(at.model, at.task, at.trial, at.step, at.result, at.event + 1)
  BY DEF Now, Positions
<1>5. ASSUME at' = [at EXCEPT !.result = @ + 1, !.event = 1]
      PROVE  Now(at.model, at.task, at.trial, at.step, at.result + 1, 1)
  <2> DEFINE next == [at EXCEPT !.result = @ + 1]
  <2>1. /\ next \in Positions
        /\ next.model = at.model /\ next.task = at.task /\ next.trial = at.trial
        /\ next.step = at.step /\ next.result = at.result + 1
    BY DEF Positions
  <2>2. at' = [next EXCEPT !.event = 1]
    BY <1>5
  <2> HIDE DEF next
  <2> QED
    BY <2>1, <2>2 DEF Now, Positions
<1> QED
  BY <1>1, <1>2, <1>3, <1>4, <1>5

LEMMA ResultTypes ==
  ASSUME LoopTypes
  PROVE  /\ Len(results) \in Nat /\ DOMAIN results = 1 .. Len(results)
         /\ \A i \in DOMAIN results :
              /\ Len(results[i].events) \in Nat
              /\ DOMAIN results[i].events = 1 .. Len(results[i].events)
              /\ \A n \in DOMAIN results[i].events : results[i].events[n] \in Events
<1>1. \A r \in TrialResults : r.events \in Seq(Events)
  BY DEF TrialResults
<1>2. Len(results) \in Nat /\ DOMAIN results = 1 .. Len(results)
      /\ \A i \in DOMAIN results : results[i] \in TrialResults
  BY DEF LoopTypes
<1>3. \A i \in DOMAIN results : results[i].events \in Seq(Events)
  BY <1>1, <1>2
<1> HIDE DEF Events
<1> QED
  BY <1>2, <1>3

LEMMA IdInit == Init => IdInv
<1> SUFFICES ASSUME Init PROVE IdInv
  OBVIOUS
<1>1. LoopTypes
  BY RunAssumption DEF Init, LoopTypes, FirstTrial, StartOf, Positions
<1> QED
  BY <1>1 DEF Init, IdInv, FirstTrial, StartOf, EpisodeInv, ResultInv, LedgerInv, InTrial

\* A trial ends with events that carry its place.
LEMMA EndTrialKeeps ==
  ASSUME IdInv, InTrial, NEW events \in Seq(Events), EpisodeInv(events), NEW errored \in BOOLEAN,
         errored \/ events # << >>, EndTrial(events, errored), ledger' = ledger
  PROVE  IdInv'
<1> DEFINE result == TrialResult(events, errored)
<1>0. LoopTypes /\ ResultInv /\ LedgerInv /\ at.result = 1 /\ at.event = 1
  BY DEF IdInv, Running
<1>1. result \in TrialResults /\ result.events = events
  <2>1. ~ errored => Last(events) \in Events
    BY DEF Last
  <2>2. (~ errored /\ Last(events).matched) \in BOOLEAN
    OBVIOUS
  <2> QED
    BY <1>0, <2>2, PositionTypes DEF TrialResult, TrialResults
<1>2. results' = Append(results, result)
  BY DEF EndTrial
<1> HIDE DEF result
<1>3. /\ results' \in Seq(TrialResults)
      /\ Len(results') = Len(results) + 1
      /\ results'[Len(results) + 1] = result
      /\ \A i \in DOMAIN results : i \in DOMAIN results' /\ i # Len(results) + 1
                                   /\ results'[i] = results[i]
      /\ \A i \in DOMAIN results' : i \in DOMAIN results \/ i = Len(results) + 1
  BY <1>0, <1>1, <1>2 DEF LoopTypes
<1>4. episode' = << >> /\ phase' \in {"append", "step"}
  BY DEF EndTrial
<1>5. /\ at' \in Positions /\ at'.model = at.model /\ at'.result = 1 /\ at'.event = 1
      /\ phase' = "step" => /\ at'.step = 0
                            /\ \/ at'.task = at.task /\ at'.trial = at.trial + 1
                               \/ at'.task = at.task + 1
  <2>1. CASE UNCHANGED at /\ phase' = "append"
    BY <1>0, <2>1, PositionTypes
  <2>2. CASE at' = StartOf(at.model, at.task, at.trial + 1)
    BY <1>0, <2>2, PositionTypes, LoopsMove DEF Now
  <2>3. CASE at' = StartOf(at.model, at.task + 1, 0)
    <3>1. at \in Positions /\ at.model \in 1 .. Len(ModelIds) /\ at.task + 1 \in Nat /\ 0 \in Nat
      BY <1>0, PositionTypes
    <3>2. Now(at.model, at.task + 1, 0, 0, 1, 1)
      BY <2>3, <3>1, LoopsMove
    <3> QED
      BY <3>2 DEF Now
  <2> QED
    BY <2>1, <2>2, <2>3 DEF EndTrial
<1>6. LoopTypes'
  BY <1>0, <1>3, <1>4, <1>5 DEF LoopTypes
<1>7. Model' = Model
  BY <1>5 DEF Model
<1>8. ASSUME NEW i \in DOMAIN results', NEW n \in DOMAIN results'[i].events, NEW id,
             id = results'[i].events[n].id
      PROVE  id[1] = Model' /\ (InTrial' => Behind(id)')
  <2>1. CASE i \in DOMAIN results
    <3>1. id \in STRING \X Nat \X Nat \X Nat /\ Behind(id) /\ id[1] = Model
      BY <1>0, <1>3, <1>8, <2>1, ResultTypes DEF ResultInv, Events
    <3>2. InTrial' => Behind(id)'
      BY <1>0, <1>4, <1>5, <3>1, PositionTypes DEF Behind, InTrial
    <3> QED
      BY <1>7, <3>1, <3>2
  <2>2. CASE i = Len(results) + 1
    <3>1. id = <<Model, at.task, at.trial, n - 1>>
      BY <1>1, <1>3, <1>8, <2>2 DEF EpisodeInv
    <3>2. InTrial' => Behind(id)'
      BY <1>0, <1>4, <1>5, <3>1, PositionTypes DEF Behind, InTrial
    <3> QED
      BY <1>7, <3>1, <3>2
  <2> QED
    BY <1>3, <2>1, <2>2
<1>9. ASSUME NEW i \in DOMAIN results', NEW j \in DOMAIN results',
             NEW n \in DOMAIN results'[i].events, NEW k \in DOMAIN results'[j].events,
             results'[i].events[n].id = results'[j].events[k].id
      PROVE  i = j /\ n = k
  <2>1. ASSUME NEW a \in DOMAIN results, NEW b \in DOMAIN results[a].events, NEW c \in DOMAIN events
        PROVE  results[a].events[b].id # events[c].id
    <3>1. Behind(results[a].events[b].id)
      BY <1>0, <2>1 DEF ResultInv
    <3>2. events[c].id[2] = at.task /\ events[c].id[3] = at.trial
      BY DEF EpisodeInv
    <3>3. ~ Behind(events[c].id)
      BY <1>0, <3>2, PositionTypes DEF Behind
    <3> QED
      BY <3>1, <3>3
  <2>2. ASSUME NEW b \in DOMAIN events, NEW c \in DOMAIN events, events[b].id = events[c].id
        PROVE  b = c
    BY <2>2 DEF EpisodeInv
  <2> QED
    BY <1>0, <1>1, <1>3, <1>9, <2>1, <2>2 DEF ResultInv
<1>10. LedgerInv'
  <2>1. \A id : ~ OfAWrittenEvent(id)
    BY <1>0, ResultTypes DEF OfAWrittenEvent, Written
  <2>2. \A id : Known(id) => Known(id)'
    BY <1>5, <2>1 DEF Known, OfAnEarlierModel
  <2> QED
    BY <1>0, <2>2 DEF LedgerInv
<1>11. ResultInv'
  BY <1>8, <1>9 DEF ResultInv
<1> QED
  BY <1>4, <1>5, <1>6, <1>10, <1>11 DEF IdInv, InTrial, Running, EpisodeInv

\* Steps within the loops that neither end a trial nor touch the results.
LEMMA WithinTrialKeeps ==
  ASSUME IdInv, InTrial, InTrial', LoopTypes', at'.model = at.model, at'.task = at.task,
         at'.trial = at.trial, at'.result = 1, at'.event = 1,
         EpisodeInv(episode)', Len(episode') = at'.step,
         results' = results, ledger' = ledger
  PROVE  IdInv'
<1>1. ResultInv /\ LedgerInv /\ at.result = 1 /\ at.event = 1
  BY DEF IdInv, Running
<1>2. ResultInv'
  BY <1>1 DEF ResultInv, Model, Behind
<1>3. LedgerInv'
  BY <1>1 DEF LedgerInv, Known, OfAnEarlierModel, OfAWrittenEvent, Written
<1> QED
  BY <1>2, <1>3 DEF IdInv, InTrial

\* Once the run has died or finished, only types are left to keep.
LEMMA StoppedKeeps ==
  ASSUME LoopTypes', ~ Running'
  PROVE  IdInv'
  BY DEF IdInv, Running

LEMMA CheckKeeps ==
  ASSUME IdInv, Check
  PROVE  IdInv'
<1>0. LoopTypes
  BY DEF IdInv
<1>1. phase = "step" /\ ledger' = ledger /\ InTrial
  BY DEF Check, InTrial
<1>2. CASE ~ Crosses
  <2>1. phase' = "call" /\ UNCHANGED <<at, episode, results, ledger>>
    BY <1>2 DEF Check
  <2> QED
    BY <1>0, <1>1, <2>1, WithinTrialKeeps
    DEF IdInv, InTrial, LoopTypes, EpisodeInv, Model
<1>3. CASE Crosses
  <2>1. EndTrial(episode, TRUE)
    BY <1>3 DEF Check, CaughtByRunTask
  <2> QED
    BY <1>0, <1>1, <2>1, EndTrialKeeps DEF IdInv, LoopTypes
<1> QED
  BY <1>2, <1>3

LEMMA AttemptFailsKeeps ==
  ASSUME IdInv, AttemptFails
  PROVE  IdInv'
<1>0. LoopTypes
  BY DEF IdInv
<1>1. phase = "call" /\ ledger' = ledger /\ InTrial
  BY DEF AttemptFails, InTrial
<1>2. CASE at.attempt < Attempts
  <2>1. at' = [at EXCEPT !.attempt = AttemptsMade]
        /\ UNCHANGED <<phase, episode, results, ledger>>
    BY <1>2 DEF AttemptFails
  <2>2. /\ at' \in Positions
        /\ at'.model = at.model /\ at'.task = at.task /\ at'.trial = at.trial
        /\ at'.step = at.step /\ at'.result = at.result /\ at'.event = at.event
    BY <1>0, <2>1, PositionTypes, LoopsMove DEF Now, AttemptsMade
  <2> QED
    BY <1>0, <1>1, <2>1, <2>2, WithinTrialKeeps
    DEF IdInv, InTrial, LoopTypes, EpisodeInv, Model
<1>3. CASE ~ (at.attempt < Attempts)
  <2>1. EndTrial(episode, TRUE)
    BY <1>3 DEF AttemptFails
  <2> QED
    BY <1>0, <1>1, <2>1, EndTrialKeeps DEF IdInv, LoopTypes
<1> QED
  BY <1>2, <1>3

LEMMA AnsweredKeeps ==
  ASSUME IdInv, NEW answer \in Answers, NEW cost \in Costs, Answered(answer, cost)
  PROVE  IdInv'
<1>0. LoopTypes
  BY DEF IdInv
<1> DEFINE event == EventOf(answer, cost)
           events == Append(episode, event)
<1>1. phase = "call" /\ ledger' = ledger /\ InTrial
  BY DEF Answered, InTrial
<1>2. Model \in STRING
  BY <1>0, RunAssumption, PositionTypes DEF Model, Positions
<1>3. event \in Events /\ event.id = <<Model, at.task, at.trial, at.step>>
  <2>1. EventId \in STRING \X Nat \X Nat \X Nat
    BY <1>0, <1>2, PositionTypes DEF EventId
  <2>2. cost \in Nat
    BY PricesAreBounded
  <2>4. (answer = "match") \in BOOLEAN
    OBVIOUS
  <2>3. EventId = <<Model, at.task, at.trial, at.step>>
    BY DEF EventId
  <2> QED
    BY <2>1, <2>2, <2>3, <2>4 DEF EventOf, Events
<1>4. Len(episode) = at.step /\ EpisodeInv(episode) /\ at.result = 1 /\ at.event = 1
  BY <1>1 DEF IdInv
<1> HIDE DEF event
<1>5. /\ events \in Seq(Events) /\ events # << >> /\ Len(events) = at.step + 1
      /\ EpisodeInv(events)
  <2>1. /\ events \in Seq(Events) /\ Len(events) = at.step + 1
        /\ events[at.step + 1] = event
        /\ \A n \in DOMAIN events : \/ n \in DOMAIN episode /\ events[n] = episode[n]
                                    \/ n = at.step + 1
    BY <1>0, <1>3, <1>4 DEF LoopTypes
  <2>2. EpisodeInv(events)
    BY <1>0, <1>3, <1>4, <2>1, PositionTypes DEF EpisodeInv, Positions
  <2> QED
    BY <1>0, <2>1, <2>2, PositionTypes DEF Positions
<1>6. CASE EndsEpisode(answer)
  <2>1. EndTrial(events, FALSE)
    BY <1>6 DEF Answered, event
  <2> QED
    BY <1>1, <1>5, <2>1, EndTrialKeeps
<1>7. CASE ~ EndsEpisode(answer)
  <2>1. /\ episode' = events /\ phase' = "step" /\ UNCHANGED <<results, ledger>>
        /\ at' = [at EXCEPT !.step = @ + 1, !.attempt = 1]
    BY <1>7 DEF Answered, event
  <2> HIDE DEF events
  <2>2. at' \in Positions /\ at'.step = at.step + 1 /\ at'.model = at.model
        /\ at'.task = at.task /\ at'.trial = at.trial /\ at'.result = 1 /\ at'.event = 1
    BY <1>0, <1>4, <2>1, PositionTypes, LoopsMove DEF Now
  <2>3. EpisodeInv(episode)'
    BY <1>5, <2>1, <2>2 DEF EpisodeInv, Model
  <2> QED
    BY <1>0, <1>1, <1>5, <2>1, <2>2, <2>3, WithinTrialKeeps DEF InTrial, LoopTypes
<1> QED
  BY <1>6, <1>7

LEMMA AppendEventKeeps ==
  ASSUME IdInv, AppendEvent
  PROVE  IdInv'
<1>0. LoopTypes
  BY DEF IdInv
<1> DEFINE event == results[at.result].events[at.event]
<1>1. /\ phase = "append" /\ results' = results /\ episode' = episode
      /\ at.result \in DOMAIN results /\ at.event \in DOMAIN results[at.result].events
  BY <1>0, PositionTypes, ResultTypes DEF AppendEvent, TrialIsDue, Positions
<1>2. event \in Events
  BY <1>0, <1>1, ResultTypes
<1>3. CASE phase' = "died" /\ UNCHANGED <<at, ledger>>
  BY <1>0, <1>1, <1>3, StoppedKeeps DEF Running, InTrial, LoopTypes
<1>4. CASE /\ ledger' = Append(ledger, event) /\ at' = [at EXCEPT !.event = @ + 1]
           /\ UNCHANGED phase
  <2> HIDE DEF event
  <2>1. /\ ledger' \in Seq(Events)
        /\ \A j \in DOMAIN ledger' : \/ j \in DOMAIN ledger /\ ledger'[j] = ledger[j]
                                     \/ ledger'[j] = event
    BY <1>0, <1>2, <1>4 DEF LoopTypes
  <2>2. at' \in Positions /\ at'.model = at.model /\ at'.result = at.result
        /\ at'.event = at.event + 1
    BY <1>0, <1>4, PositionTypes, LoopsMove DEF Now
  <2>3. \A i, n \in Nat : Written(i, n) => Written(i, n)'
    BY <1>0, <2>2, PositionTypes DEF Written
  <2>4. \A id : id = event.id => OfAWrittenEvent(id)'
    <3>1. \A i, n : i = at.result /\ n = at.event => Written(i, n)'
      BY <1>0, <2>2, PositionTypes DEF Written
    <3> QED
      BY <1>1, <3>1 DEF OfAWrittenEvent, event
  <2>5. LedgerInv'
    <3>1. \A i \in DOMAIN results : i \in Nat /\ \A n \in DOMAIN results[i].events : n \in Nat
      BY <1>0, ResultTypes
    <3>2. \A id : Known(id) => Known(id)'
      BY <1>1, <2>2, <2>3, <3>1 DEF Known, OfAnEarlierModel, OfAWrittenEvent
    <3>3. \A id : id = event.id => Known(id)'
      BY <2>4 DEF Known
    <3> QED
      BY <1>1, <2>1, <3>2, <3>3 DEF IdInv, LedgerInv, Running
  <2>6. ResultInv'
    BY <1>1, <1>4, <2>2 DEF IdInv, ResultInv, Running, InTrial, Model
  <2> QED
    BY <1>0, <1>1, <1>4, <2>1, <2>2, <2>5, <2>6 DEF IdInv, InTrial, Running, LoopTypes
<1> QED
  BY <1>3, <1>4 DEF AppendEvent

LEMMA NextResultKeeps ==
  ASSUME IdInv, NextResult
  PROVE  IdInv'
<1>0. LoopTypes
  BY DEF IdInv
<1>1. /\ phase = "append" /\ UNCHANGED <<phase, episode, results, ledger>>
      /\ at.event > Len(results[at.result].events) /\ at.result \in DOMAIN results
      /\ at' = [at EXCEPT !.result = @ + 1, !.event = 1]
  BY <1>0, PositionTypes DEF NextResult, TrialIsDue, Positions
<1>2. at' \in Positions /\ at'.model = at.model /\ at'.result = at.result + 1 /\ at'.event = 1
  BY <1>0, <1>1, PositionTypes, LoopsMove DEF Now
<1>3. \A i, n \in Nat : Written(i, n) => Written(i, n)'
  BY <1>0, <1>2, PositionTypes DEF Written
<1>4. \A i \in DOMAIN results : i \in Nat /\ \A n \in DOMAIN results[i].events : n \in Nat
  BY <1>0, ResultTypes
<1>5. LedgerInv'
  <2>1. \A id : Known(id) => Known(id)'
    BY <1>1, <1>2, <1>3, <1>4 DEF Known, OfAnEarlierModel, OfAWrittenEvent
  <2> QED
    BY <1>1, <2>1 DEF IdInv, LedgerInv, Running
<1>6. ResultInv'
  BY <1>1, <1>2 DEF IdInv, ResultInv, Running, InTrial, Model
<1> QED
  BY <1>0, <1>1, <1>2, <1>5, <1>6 DEF IdInv, InTrial, Running, LoopTypes

LEMMA WriteRowKeeps ==
  ASSUME IdInv, WriteRow
  PROVE  IdInv'
<1>0. LoopTypes
  BY DEF IdInv
<1>1. phase = "append" /\ results' = << >> /\ UNCHANGED <<episode, ledger>>
  BY DEF WriteRow
<1>2. CASE phase' = "finished" /\ UNCHANGED at
  BY <1>0, <1>1, <1>2, StoppedKeeps DEF Running, InTrial, LoopTypes
<1>3. CASE at.model # Len(ModelIds) /\ phase' = "step" /\ at' = FirstTrial(at.model + 1)
  <2>1. at' \in Positions /\ at'.model = at.model + 1 /\ at'.result = 1 /\ at'.event = 1
        /\ at'.step = 0
    <3>1. Len(ModelIds) \in Nat
      BY RunAssumption
    <3>2. at.model + 1 \in 1 .. Len(ModelIds)
      BY <1>0, <1>3, <3>1, PositionTypes
    <3> QED
      BY <1>0, <1>3, <3>2, PositionTypes, LoopsMove DEF Now, FirstTrial
  <2>2. LedgerInv'
    <3>1. \A j \in DOMAIN ledger : OfAnEarlierModel(ledger[j].id) \/ ledger[j].id[1] = Model
      BY <1>1 DEF IdInv, LedgerInv, Known, OfAWrittenEvent, ResultInv, Running
    <3>2. \A id : OfAnEarlierModel(id) \/ id[1] = Model => OfAnEarlierModel(id)'
      BY <1>0, <2>1, PositionTypes DEF OfAnEarlierModel, Model
    <3> QED
      BY <1>1, <3>1, <3>2 DEF LedgerInv, Known
  <2> QED
    <3>1. LoopTypes'
      BY <1>0, <1>1, <2>1 DEF LoopTypes
    <3>2. ResultInv'
      BY <1>1 DEF ResultInv
    <3> QED
      BY <1>1, <1>3, <2>1, <2>2, <3>1, <3>2 DEF IdInv, InTrial, Running, EpisodeInv
<1> QED
  BY <1>2, <1>3 DEF WriteRow

LEMMA IdNext ==
  ASSUME IdInv, [Next]_vars
  PROVE  IdInv'
<1>1. ASSUME NEW cost \in Costs, AnsweredNull(cost)
      PROVE  IdInv'
  BY <1>1, StoppedKeeps DEF AnsweredNull, IdInv, Running, InTrial, LoopTypes
<1>2. CASE UNCHANGED vars
  BY <1>2 DEF vars, IdInv, LoopTypes, InTrial, Running, EpisodeInv, Model, ResultInv, Behind,
              LedgerInv, Known, OfAnEarlierModel, OfAWrittenEvent, Written
<1> QED
  BY <1>1, <1>2, CheckKeeps, AttemptFailsKeeps, AnsweredKeeps, AppendEventKeeps, NextResultKeeps,
     WriteRowKeeps DEF Next

\* --models names no model twice.
ModelsDiffer == \A m, k \in DOMAIN ModelIds : ModelIds[m] = ModelIds[k] => m = k

\* "multi-model, multi-trial workloads fit one audit ledger": when no model is
\* named twice by --models, the id of an event that is still to be appended is
\* the id of none in the ledger, so that ledger.append(event) never raises.
THEOREM EventsFitOneLedger ==
  ASSUME ModelsDiffer
  PROVE  Spec => []AppendNeverCollides
<1>1. IdInv => AppendNeverCollides
  <2> SUFFICES ASSUME IdInv, phase = "append", NEW i \in DOMAIN results,
                      NEW n \in DOMAIN results[i].events, ~ Written(i, n), NEW j \in DOMAIN ledger,
                      ledger[j].id = results[i].events[n].id
               PROVE  FALSE
    BY DEF AppendNeverCollides
  <2>1. LoopTypes /\ ResultInv /\ LedgerInv
    BY DEF IdInv, Running
  <2>2. ~ OfAnEarlierModel(ledger[j].id)
    <3>1. PICK ids : ModelIds \in Seq(ids)
      BY RunAssumption
    <3>2. at.model \in DOMAIN ModelIds /\ 1 .. at.model - 1 \subseteq DOMAIN ModelIds
      BY <2>1, <3>1, PositionTypes
    <3>3. ledger[j].id[1] = ModelIds[at.model]
      BY <2>1 DEF ResultInv, Model
    <3>4. at.model \notin 1 .. at.model - 1
      BY <2>1, PositionTypes
    <3> QED
      BY <3>2, <3>3, <3>4 DEF OfAnEarlierModel, ModelsDiffer
  <2>3. ~ OfAWrittenEvent(ledger[j].id)
    BY <2>1 DEF OfAWrittenEvent, ResultInv
  <2> QED
    BY <2>1, <2>2, <2>3 DEF LedgerInv, Known
<1> QED
  BY <1>1, IdInit, IdNext, PTL DEF Spec

------------------------------------------------------------------------------
LEMMA LeastNumber ==
  ASSUME NEW T, T \subseteq Nat, T # {}
  PROVE  \E n \in T : \A m \in T : n <= m
<1> DEFINE Less == OpToRel(<, Nat)
<1>1. IsWellFoundedOn(Less, Nat)
  BY NatLessThanWellFounded
<1>2. PICK n \in T : \A m \in T : ~ (<<m, n>> \in Less)
  <2> HIDE DEF Less
  <2> QED
    BY <1>1, WFMin
<1>3. \A m \in T : ~ (m < n)
  BY <1>2 DEF OpToRel
<1> QED
  BY <1>3

\* Induction up to a bound, over a set of numbers.
LEMMA UpTo ==
  ASSUME NEW N \in Nat, NEW good, 0 \in good, \A k \in 1 .. N : k - 1 \in good => k \in good
  PROVE  \A k \in 0 .. N : k \in good
<1> DEFINE bad == {k \in 0 .. N : k \notin good}
<1> SUFFICES ASSUME bad # {} PROVE FALSE
  OBVIOUS
<1>1. bad \subseteq Nat
  OBVIOUS
<1>2. PICK n \in bad : \A m \in bad : n <= m
  <2> HIDE DEF bad
  <2> QED
    BY <1>1, LeastNumber
<1>3. n \in 1 .. N /\ n - 1 \in 0 .. N
  BY <1>2
<1>4. n - 1 \notin bad
  BY <1>2, <1>3
<1>5. n - 1 \in good
  BY <1>3, <1>4
<1> QED
  BY <1>2, <1>3, <1>5

\* f is computed step by step, from `base`, up to n.
Computes(f, base, step, n) == f[0] = base /\ \A k \in 1 .. n : f[k] = step[k][f[k - 1]]

\* What is computed step by step exists.
LEMMA Recursion ==
  ASSUME NEW V, NEW base \in V, NEW N \in Nat, NEW step \in [1 .. N -> [V -> V]]
  PROVE  \E f \in [0 .. N -> V] : Computes(f, base, step, N)
<1> DEFINE good == {n \in 0 .. N : \E f \in [0 .. N -> V] : Computes(f, base, step, n)}
<1>1. 0 \in good
  <2> DEFINE f == [k \in 0 .. N |-> base]
  <2>1. f \in [0 .. N -> V] /\ f[0] = base
    OBVIOUS
  <2> HIDE DEF f
  <2> QED
    BY <2>1 DEF Computes
<1>2. ASSUME NEW n \in 1 .. N, n - 1 \in good
      PROVE  n \in good
  <2>1. PICK f \in [0 .. N -> V] : Computes(f, base, step, n - 1)
    BY <1>2
  <2> DEFINE g == [f EXCEPT ![n] = step[n][f[n - 1]]]
  <2>2. step[n] \in [V -> V] /\ f[n - 1] \in V
    OBVIOUS
  <2>3. step[n][f[n - 1]] \in V
    BY <2>2
  <2>4. g \in [0 .. N -> V] /\ g[n] = step[n][f[n - 1]] /\ \A k \in 0 .. N : k # n => g[k] = f[k]
    BY <2>3
  <2> HIDE DEF g
  <2>5. ASSUME NEW k \in 1 .. n
        PROVE  g[k] = step[k][g[k - 1]]
    <3>1. k - 1 \in 0 .. N /\ k - 1 # n
      OBVIOUS
    <3>2. g[k - 1] = f[k - 1]
      BY <2>4, <3>1
    <3>3. CASE k = n
      BY <2>4, <3>2, <3>3
    <3>4. CASE k # n
      <4>1. k <= n - 1 /\ k \in 0 .. N
        BY <3>4
      <4>2. f[k] = step[k][f[k - 1]]
        BY <2>1, <4>1 DEF Computes
      <4> QED
        BY <2>4, <3>2, <3>4, <4>1, <4>2
    <3> QED
      BY <3>3, <3>4
  <2>6. g[0] = base
    BY <2>1, <2>4 DEF Computes
  <2> QED
    BY <2>4, <2>5, <2>6 DEF Computes
<1>3. \A n \in 0 .. N : n \in good
  <2> HIDE DEF good
  <2> QED
    BY <1>1, <1>2, UpTo
<1> QED
  BY <1>3

\* The sums exist, and are the ones Sums defines.
LEMMA SumsAre ==
  ASSUME NEW s \in Seq(Nat)
  PROVE  /\ Sums(s) \in [0 .. Len(s) -> Nat] /\ Sums(s)[0] = 0
         /\ \A k \in 1 .. Len(s) : Sums(s)[k] = Sums(s)[k - 1] + s[k]
<1> DEFINE N == Len(s)
           step == [k \in 1 .. N |-> [v \in Nat |-> v + s[k]]]
<1>1. N \in Nat /\ \A k \in 1 .. N : s[k] \in Nat
  OBVIOUS
<1>2. Sums(s) = CHOOSE g : g = [k \in 0 .. N |-> IF k = 0 THEN 0 ELSE g[k - 1] + s[k]]
  BY DEF Sums
<1> HIDE DEF N
<1>3. step \in [1 .. N -> [Nat -> Nat]]
  BY <1>1
<1>4. PICK f \in [0 .. N -> Nat] : Computes(f, 0, step, N)
  <2> HIDE DEF step
  <2> QED
    BY <1>1, <1>3, Recursion
<1>5. \A k \in 1 .. N : f[k] = f[k - 1] + s[k]
  <2> TAKE k \in 1 .. N
  <2>1. f[k - 1] \in Nat /\ step[k] = [v \in Nat |-> v + s[k]]
    BY <1>1
  <2> QED
    BY <1>4, <2>1 DEF Computes
<1> HIDE DEF step
<1>6. f = [k \in 0 .. N |-> IF k = 0 THEN 0 ELSE f[k - 1] + s[k]]
  BY <1>4, <1>5 DEF Computes
<1> DEFINE sums == Sums(s)
           sum(k) == IF k = 0 THEN 0 ELSE sums[k - 1] + s[k]
<1>7. sums = [k \in 0 .. N |-> sum(k)]
  BY <1>2, <1>6
<1> HIDE DEF sums
<1>8. sums[0] = 0 /\ \A k \in 1 .. N : sums[k] = sums[k - 1] + s[k]
  <2>1. sums[0] = sum(0)
    BY <1>1, <1>7
  <2>2. \A k \in 1 .. N : sums[k] = sum(k) /\ k # 0
    BY <1>1, <1>7
  <2> QED
    BY <2>1, <2>2
<1> HIDE DEF sum
<1> DEFINE good == {k \in 0 .. N : sums[k] = f[k]}
<1>9. \A k \in 0 .. N : k \in good
  <2>1. 0 \in good
    BY <1>1, <1>4, <1>8 DEF Computes
  <2>2. \A k \in 1 .. N : k - 1 \in good => k \in good
    BY <1>1, <1>5, <1>8
  <2> HIDE DEF good
  <2> QED
    BY <1>1, <2>1, <2>2, UpTo
<1>10. sums = f
  BY <1>7, <1>9
<1> QED
  BY <1>8, <1>10 DEF sums, N

\* Sums depend on no number that is not in them.
LEMMA SumsAgree ==
  ASSUME NEW s \in Seq(Nat), NEW t \in Seq(Nat), NEW n \in Nat, n <= Len(s), n <= Len(t),
         \A k \in 1 .. n : s[k] = t[k]
  PROVE  Sums(s)[n] = Sums(t)[n]
<1> DEFINE a == Sums(s)
           b == Sums(t)
<1>1. /\ a[0] = 0 /\ b[0] = 0
      /\ \A k \in 1 .. Len(s) : a[k] = a[k - 1] + s[k]
      /\ \A k \in 1 .. Len(t) : b[k] = b[k - 1] + t[k]
  BY SumsAre
<1> HIDE DEF a, b
<1> DEFINE differ == {k \in 0 .. n : a[k] # b[k]}
<1>2. differ = {}
  <2> SUFFICES ASSUME differ # {} PROVE FALSE
    OBVIOUS
  <2>1. PICK k \in differ : \A m \in differ : k <= m
    <3> HIDE DEF differ
    <3>1. differ \subseteq Nat
      BY DEF differ
    <3> QED
      BY <3>1, LeastNumber
  <2>2. k # 0
    BY <1>1
  <2>3. k \in 1 .. n /\ k - 1 \in 0 .. n /\ a[k - 1] = b[k - 1]
    BY <2>1, <2>2
  <2> QED
    BY <1>1, <2>3
<1> QED
  BY <1>2 DEF a, b

LEMMA TotalOfAppend ==
  ASSUME NEW s \in Seq(Nat), NEW x \in Nat
  PROVE  Total(Append(s, x)) = Total(s) + x /\ Total(s) \in Nat
<1> DEFINE t == Append(s, x)
<1>1. t \in Seq(Nat) /\ Len(s) \in Nat /\ Len(t) = Len(s) + 1 /\ t[Len(s) + 1] = x
      /\ \A k \in 1 .. Len(s) : t[k] = s[k]
  OBVIOUS
<1> HIDE DEF t
<1>2. Sums(t)[Len(s)] = Sums(s)[Len(s)]
  <2>1. Len(s) <= Len(t) /\ Len(s) <= Len(s)
    BY <1>1
  <2> QED
    BY <1>1, <2>1, SumsAgree
<1>3. Sums(t)[Len(s) + 1] = Sums(t)[Len(s)] + x
  <2>1. Len(s) + 1 \in 1 .. Len(t) /\ Len(s) + 1 - 1 = Len(s)
    BY <1>1
  <2>2. \A k \in 1 .. Len(t) : Sums(t)[k] = Sums(t)[k - 1] + t[k]
    BY <1>1, SumsAre
  <2> QED
    BY <1>1, <2>1, <2>2
<1>4. Sums(s)[Len(s)] \in Nat
  <2>1. Len(s) \in 0 .. Len(s)
    BY <1>1
  <2>2. Sums(s) \in [0 .. Len(s) -> Nat]
    BY SumsAre
  <2> QED
    BY <2>1, <2>2
<1>5. Total(s) = Sums(s)[Len(s)] /\ Total(t) = Sums(t)[Len(s) + 1]
  BY <1>1 DEF Total
<1> QED
  BY <1>2, <1>3, <1>4, <1>5 DEF t

------------------------------------------------------------------------------
Counted(seq) == \E S : seq \in Seq(S)

\* A sequence of what costs something.
Costed(seq) == Counted(seq) /\ \A i \in DOMAIN seq : seq[i].cost \in Nat

LEMMA CostOfNothing == Costed(<< >>) /\ SumOfCosts(<< >>) = 0
<1>1. Costed(<< >>)
  BY DEF Costed, Counted
<1>2. [i \in DOMAIN << >> |-> << >>[i].cost] = << >>
  OBVIOUS
<1>3. SumOfCosts(<< >>) = Sums(<< >>)[0]
  BY <1>2 DEF SumOfCosts, Total
<1>4. << >> \in Seq(Nat)
  OBVIOUS
<1>5. Sums(<< >>)[0] = 0
  BY <1>4, SumsAre
<1> QED
  BY <1>1, <1>3, <1>5

LEMMA CostOfAppend ==
  ASSUME NEW seq, Costed(seq), NEW x, x.cost \in Nat
  PROVE  /\ Costed(Append(seq, x)) /\ SumOfCosts(seq) \in Nat
         /\ SumOfCosts(Append(seq, x)) = SumOfCosts(seq) + x.cost
<1>1. PICK S : seq \in Seq(S)
  BY DEF Costed, Counted
<1> DEFINE more == Append(seq, x)
           costs == [i \in DOMAIN seq |-> seq[i].cost]
<1>2. seq \in Seq(S \union {x})
  BY <1>1
<1>3. /\ more \in Seq(S \union {x}) /\ Len(more) = Len(seq) + 1 /\ more[Len(seq) + 1] = x
      /\ DOMAIN more = 1 .. Len(seq) + 1
      /\ \A k \in DOMAIN seq : k # Len(seq) + 1 /\ k \in DOMAIN more /\ more[k] = seq[k]
      /\ \A k \in DOMAIN more : k \in DOMAIN seq \/ k = Len(seq) + 1
      /\ Len(seq) \in Nat /\ DOMAIN seq = 1 .. Len(seq)
  BY <1>2
<1>4. costs \in Seq(Nat) /\ Len(costs) = Len(seq)
  <2>1. costs \in [1 .. Len(seq) -> Nat]
    BY <1>3 DEF Costed
  <2> HIDE DEF costs
  <2> QED
    BY <1>3, <2>1
<1> HIDE DEF more
<1>5. [i \in DOMAIN more |-> more[i].cost] = Append(costs, x.cost)
  <2> DEFINE others == [i \in DOMAIN more |-> more[i].cost]
  <2>1. \A k \in DOMAIN seq : others[k] = costs[k]
    BY <1>3
  <2>2. others[Len(seq) + 1] = x.cost /\ DOMAIN others = 1 .. Len(seq) + 1
    BY <1>3
  <2>3. others \in [1 .. Len(seq) + 1 -> Nat]
    BY <1>3 DEF Costed
  <2> HIDE DEF others, costs
  <2>4. others \in Seq(Nat) /\ Len(others) = Len(seq) + 1
    BY <1>3, <2>3
  <2>5. Append(costs, x.cost) \in Seq(Nat) /\ Len(Append(costs, x.cost)) = Len(seq) + 1
        /\ \A k \in 1 .. Len(seq) : Append(costs, x.cost)[k] = costs[k]
        /\ Append(costs, x.cost)[Len(seq) + 1] = x.cost
    BY <1>4
  <2>6. \A k \in 1 .. Len(seq) + 1 : others[k] = Append(costs, x.cost)[k]
    BY <1>3, <2>1, <2>2, <2>5
  <2>7. others = Append(costs, x.cost)
    BY <1>3, <2>4, <2>5, <2>6
  <2> QED
    BY <2>7 DEF others
<1>6. Costed(more)
  BY <1>3 DEF Costed, Counted
<1> HIDE DEF costs
<1>7. Total(Append(costs, x.cost)) = Total(costs) + x.cost /\ Total(costs) \in Nat
  BY <1>4, TotalOfAppend
<1>8. SumOfCosts(seq) = Total(costs) /\ SumOfCosts(more) = Total(Append(costs, x.cost))
  BY <1>5 DEF SumOfCosts, costs
<1> QED
  BY <1>6, <1>7, <1>8 DEF more

LEMMA CostIsNat ==
  ASSUME NEW seq, Costed(seq)
  PROVE  SumOfCosts(seq) \in Nat
<1> DEFINE x == [cost |-> 0]
<1>1. x.cost \in Nat
  OBVIOUS
<1> HIDE DEF x
<1> QED
  BY <1>1, CostOfAppend

CostInv ==
    /\ budget.spent \in Nat
    /\ Costed(rows) /\ Costed(results) /\ Costed(episode)
    /\ CostIsConserved

LEMMA CostInit == Init => CostInv
<1> SUFFICES ASSUME Init PROVE CostInv
  OBVIOUS
<1>1. budget.spent = 0 /\ rows = << >> /\ results = << >> /\ episode = << >>
  BY DEF Init
<1> QED
  BY <1>1, CostOfNothing DEF CostInv, CostIsConserved

\* The trial that ends costs what its events do.
LEMMA TrialCost ==
  ASSUME Costed(results), NEW events, Costed(events), NEW errored, EndTrial(events, errored)
  PROVE  /\ Costed(results') /\ Costed(episode') /\ phase' # "died"
         /\ SumOfCosts(results') + SumOfCosts(episode') = SumOfCosts(results) + SumOfCosts(events)
         /\ SumOfCosts(results') \in Nat /\ SumOfCosts(events) \in Nat
<1> DEFINE result == TrialResult(events, errored)
<1>1. result.cost = SumOfCosts(events)
  BY DEF TrialResult
<1>2. results' = Append(results, result) /\ episode' = << >> /\ phase' # "died"
  BY DEF EndTrial
<1> HIDE DEF result
<1>3. SumOfCosts(events) \in Nat
  BY CostIsNat
<1>4. /\ Costed(results') /\ SumOfCosts(results) \in Nat
      /\ SumOfCosts(results') = SumOfCosts(results) + SumOfCosts(events)
  BY <1>1, <1>2, <1>3, CostOfAppend
<1> QED
  BY <1>2, <1>3, <1>4, CostOfNothing

\* A step that neither pays nor is paid for moves no cost.
LEMMA NoCostKeeps ==
  ASSUME CostInv, UNCHANGED <<budget, rows, results, episode>>,
         phase = "died" => phase' = "died"
  PROVE  CostInv'
  BY DEF CostInv, CostIsConserved, Costed, SumOfCosts

LEMMA TrialKeepsCost ==
  ASSUME CostInv, phase = "call" \/ phase = "step", UNCHANGED <<budget, rows>>,
         NEW errored, EndTrial(episode, errored)
  PROVE  CostInv'
<1>1. Costed(results) /\ Costed(episode) /\ Costed(rows) /\ budget.spent \in Nat
      /\ budget.spent = SumOfCosts(rows) + SumOfCosts(results) + SumOfCosts(episode)
  BY DEF CostInv, CostIsConserved
<1>2. SumOfCosts(rows) \in Nat /\ SumOfCosts(results) \in Nat /\ SumOfCosts(episode) \in Nat
  BY <1>1, CostIsNat
<1>3. /\ Costed(results') /\ Costed(episode') /\ SumOfCosts(results') \in Nat
      /\ SumOfCosts(results') + SumOfCosts(episode') = SumOfCosts(results) + SumOfCosts(episode)
  BY <1>1, TrialCost
<1>4. Costed(rows') /\ SumOfCosts(rows') = SumOfCosts(rows) /\ budget'.spent = budget.spent
  BY <1>1
<1>5. SumOfCosts(episode') \in Nat
  BY <1>3, CostIsNat
<1>6. budget'.spent = SumOfCosts(rows') + SumOfCosts(results') + SumOfCosts(episode')
  BY <1>1, <1>2, <1>3, <1>4, <1>5
<1> QED
  BY <1>1, <1>3, <1>4, <1>6 DEF CostInv, CostIsConserved

LEMMA AnsweredKeepsCost ==
  ASSUME CostInv, NEW answer \in Answers, NEW cost \in Costs, Answered(answer, cost)
  PROVE  CostInv'
<1> DEFINE event == EventOf(answer, cost)
           events == Append(episode, event)
<1>0. cost \in Nat /\ event.cost = cost
  BY PricesAreBounded DEF EventOf
<1>1. /\ phase = "call" /\ rows' = rows /\ budget' = Charged(cost)
      /\ \/ EndTrial(events, FALSE)
         \/ episode' = events /\ results' = results /\ phase' = "step"
  BY DEF Answered
<1>2. Costed(results) /\ Costed(episode) /\ Costed(rows) /\ budget.spent \in Nat
      /\ budget.spent = SumOfCosts(rows) + SumOfCosts(results) + SumOfCosts(episode)
  BY <1>1 DEF CostInv, CostIsConserved
<1> HIDE DEF event
<1>3. /\ Costed(events) /\ SumOfCosts(episode) \in Nat
      /\ SumOfCosts(events) = SumOfCosts(episode) + cost
  BY <1>0, <1>2, CostOfAppend
<1> HIDE DEF events
<1>4. SumOfCosts(rows) \in Nat /\ SumOfCosts(results) \in Nat
  BY <1>2, CostIsNat
<1>5. budget'.spent = budget.spent + cost
  BY <1>1 DEF Charged
<1>6. /\ Costed(results') /\ Costed(episode')
      /\ SumOfCosts(results') \in Nat
      /\ SumOfCosts(results') + SumOfCosts(episode') = SumOfCosts(results) + SumOfCosts(events)
  <2>1. CASE EndTrial(events, FALSE)
    BY <1>2, <1>3, <2>1, TrialCost
  <2>2. CASE episode' = events /\ results' = results
    BY <1>2, <1>3, <1>4, <2>2
  <2> QED
    BY <1>1, <2>1, <2>2
<1>7. SumOfCosts(episode') \in Nat
  BY <1>6, CostIsNat
<1>8. Costed(rows') /\ SumOfCosts(rows') = SumOfCosts(rows)
  BY <1>1, <1>2
<1>9. budget'.spent = SumOfCosts(rows') + SumOfCosts(results') + SumOfCosts(episode')
  BY <1>0, <1>2, <1>3, <1>4, <1>5, <1>6, <1>7, <1>8
<1> QED
  BY <1>0, <1>2, <1>5, <1>6, <1>8, <1>9 DEF CostInv, CostIsConserved

LEMMA WriteRowKeepsCost ==
  ASSUME CostInv, WriteRow
  PROVE  CostInv'
<1>1. /\ phase = "append" /\ rows' = Append(rows, Row) /\ results' = << >> /\ episode' = episode
      /\ budget' = budget
  BY DEF WriteRow, BudgetOfNextModel
<1>2. Costed(results) /\ Costed(episode) /\ Costed(rows) /\ budget.spent \in Nat
      /\ budget.spent = SumOfCosts(rows) + SumOfCosts(results) + SumOfCosts(episode)
  BY <1>1 DEF CostInv, CostIsConserved
<1>3. Row.cost = SumOfCosts(results)
  BY DEF Row, Summary, SumOfCosts
<1>4. SumOfCosts(results) \in Nat /\ SumOfCosts(episode) \in Nat /\ SumOfCosts(rows) \in Nat
  BY <1>2, CostIsNat
<1>5. Costed(rows') /\ SumOfCosts(rows') = SumOfCosts(rows) + SumOfCosts(results)
  BY <1>1, <1>2, <1>3, <1>4, CostOfAppend
<1>6. Costed(results') /\ SumOfCosts(results') = 0
  BY <1>1, CostOfNothing
<1>7. Costed(episode') /\ SumOfCosts(episode') = SumOfCosts(episode) /\ budget'.spent = budget.spent
  BY <1>1, <1>2
<1>8. budget'.spent = SumOfCosts(rows') + SumOfCosts(results') + SumOfCosts(episode')
  BY <1>2, <1>4, <1>5, <1>6, <1>7
<1> QED
  BY <1>2, <1>5, <1>6, <1>7, <1>8 DEF CostInv, CostIsConserved

LEMMA CostNext ==
  ASSUME CostInv, [Next]_vars
  PROVE  CostInv'
<1>1. CASE Check
  <2>1. phase = "step" /\ UNCHANGED <<budget, rows>>
    BY <1>1 DEF Check
  <2>2. CASE Crosses
    BY <1>1, <2>1, <2>2, TrialKeepsCost DEF Check, CaughtByRunTask
  <2>3. CASE ~ Crosses
    BY <1>1, <2>1, <2>3, NoCostKeeps DEF Check
  <2> QED
    BY <2>2, <2>3
<1>2. CASE AttemptFails
  <2>1. phase = "call" /\ UNCHANGED <<budget, rows>>
    BY <1>2 DEF AttemptFails
  <2>2. CASE at.attempt < Attempts
    BY <1>2, <2>1, <2>2, NoCostKeeps DEF AttemptFails
  <2>3. CASE ~ (at.attempt < Attempts)
    BY <1>2, <2>1, <2>3, TrialKeepsCost DEF AttemptFails
  <2> QED
    BY <2>2, <2>3
<1>3. ASSUME NEW cost \in Costs, AnsweredNull(cost)
      PROVE  CostInv'
  <2>1. /\ budget' = Charged(cost) /\ phase' = "died" /\ UNCHANGED <<rows, results, episode>>
        /\ cost \in Nat
    BY <1>3, PricesAreBounded DEF AnsweredNull
  <2>2. budget'.spent \in Nat
    BY <2>1 DEF CostInv, Charged
  <2> QED
    BY <2>1, <2>2 DEF CostInv, CostIsConserved, Costed
<1>4. CASE AppendEvent
  BY <1>4, NoCostKeeps DEF AppendEvent, TrialIsDue
<1>5. CASE NextResult
  BY <1>5, NoCostKeeps DEF NextResult, TrialIsDue
<1>6. CASE UNCHANGED vars
  BY <1>6, NoCostKeeps DEF vars
<1> QED
  BY <1>1, <1>2, <1>3, <1>4, <1>5, <1>6, AnsweredKeepsCost, WriteRowKeepsCost DEF Next

\* Every answer that was paid for is in the rows, in the results of the model
\* that runs or in its running trial, whatever failed in between: what the run
\* reports is what the tracker charged.
THEOREM CostsAreConserved == Spec => []CostIsConserved
<1>1. CostInv => CostIsConserved
  BY DEF CostInv
<1> QED
  BY <1>1, CostInit, CostNext, PTL DEF Spec

------------------------------------------------------------------------------
\* A row for every model the run has gone through, in their order, and for all
\* of them when it has finished and was not given up.
RowsInv ==
    /\ Counted(rows) /\ at.model \in Nat /\ "model" \in DOMAIN at
    /\ Running => Len(rows) = at.model - 1
    /\ phase = "finished" => Len(rows) = Len(ModelIds) \/ aborted

LEMMA AppendCounts ==
  ASSUME NEW s, Counted(s), NEW x
  PROVE  /\ Counted(Append(s, x)) /\ Len(s) \in Nat /\ Len(Append(s, x)) = Len(s) + 1
         /\ \A i \in DOMAIN Append(s, x) : \/ i \in DOMAIN s /\ Append(s, x)[i] = s[i]
                                           \/ i = Len(s) + 1 /\ Append(s, x)[i] = x
         /\ DOMAIN s = 1 .. Len(s)
<1>1. PICK S : s \in Seq(S)
  BY DEF Counted
<1>2. s \in Seq(S \union {x}) /\ x \in S \union {x}
  BY <1>1
<1>3. /\ Append(s, x) \in Seq(S \union {x}) /\ Len(s) \in Nat /\ Len(Append(s, x)) = Len(s) + 1
      /\ \A i \in DOMAIN Append(s, x) : \/ i \in DOMAIN s /\ Append(s, x)[i] = s[i]
                                        \/ i = Len(s) + 1 /\ Append(s, x)[i] = x
      /\ DOMAIN s = 1 .. Len(s)
  BY <1>2
<1> QED
  BY <1>3 DEF Counted

LEMMA TrialsKeepTheModel ==
  ASSUME RowsInv, NEW events, NEW errored, EndTrial(events, errored)
  PROVE  at'.model = at.model /\ "model" \in DOMAIN at' /\ phase' \in {"step", "append"}
  BY DEF EndTrial, StartOf, RowsInv

LEMMA RowsNext ==
  ASSUME RowsInv, [Next]_vars
  PROVE  RowsInv'
<1>1. CASE WriteRow
  <2>1. PICK row : rows' = Append(rows, row)
    BY <1>1 DEF WriteRow
  <2>2. Counted(rows') /\ Len(rows') = at.model
    BY <1>1, <2>1, AppendCounts DEF WriteRow, RowsInv, Running, InTrial
  <2>3. CASE at.model = Len(ModelIds)
    BY <1>1, <2>2, <2>3 DEF WriteRow, RowsInv, Running, InTrial
  <2>4. CASE at.model # Len(ModelIds)
    BY <1>1, <2>2, <2>4 DEF WriteRow, RowsInv, FirstTrial, StartOf, Running, InTrial
  <2> QED
    BY <2>3, <2>4
<1>2. ASSUME rows' = rows, at'.model = at.model, "model" \in DOMAIN at',
             Running, phase' # "finished" \/ aborted'
      PROVE  RowsInv'
  BY <1>2 DEF RowsInv
<1>3. CASE Check
  BY <1>2, <1>3, TrialsKeepTheModel DEF Check, Abort, RowsInv, Running, InTrial
<1>4. CASE AttemptFails
  BY <1>2, <1>4, TrialsKeepTheModel DEF AttemptFails, RowsInv, Running, InTrial
<1>5. ASSUME NEW answer \in Answers, NEW cost \in Costs, Answered(answer, cost)
      PROVE  RowsInv'
  BY <1>2, <1>5, TrialsKeepTheModel DEF Answered, RowsInv, Running, InTrial
<1>6. ASSUME NEW cost \in Costs, AnsweredNull(cost)
      PROVE  RowsInv'
  BY <1>2, <1>6 DEF AnsweredNull, RowsInv, Running, InTrial
<1>7. CASE AppendEvent
  BY <1>2, <1>7 DEF AppendEvent, TrialIsDue, RowsInv, Running, InTrial
<1>8. CASE NextResult
  BY <1>2, <1>8 DEF NextResult, TrialIsDue, RowsInv, Running, InTrial
<1>9. CASE UNCHANGED vars
  BY <1>9 DEF vars, RowsInv, Running, InTrial
<1> QED
  BY <1>1, <1>3, <1>4, <1>5, <1>6, <1>7, <1>8, <1>9 DEF Next

------------------------------------------------------------------------------
\* The two loops over the results have appended as many events of the model as
\* the ledger has of it, and have not run past their ends.
CursorInv ==
    /\ at.result <= Len(results) + 1
    /\ at.event <= (IF at.result \in DOMAIN results THEN Len(results[at.result].events) ELSE 0) + 1
    /\ Cardinality(InLedger(Model)) = Sums(EventCounts)[at.result - 1] + at.event - 1

\* Every row counts the events its model has in the ledger.
RowsCount ==
    \A i \in DOMAIN rows :
        /\ i \in DOMAIN ModelIds /\ rows[i].model = ModelIds[i]
        /\ rows[i].events = Cardinality(InLedger(ModelIds[i]))

CountInv ==
    /\ IdInv /\ RowsInv /\ RowsCount
    /\ phase = "append" => CursorInv

LEMMA CountTypes ==
  ASSUME LoopTypes
  PROVE  /\ EventCounts \in Seq(Nat) /\ Len(EventCounts) = Len(results)
         /\ \A i \in DOMAIN results : EventCounts[i] = Len(results[i].events)
         /\ Len(results) \in Nat /\ DOMAIN results = 1 .. Len(results)
<1>1. /\ Len(results) \in Nat /\ DOMAIN results = 1 .. Len(results)
      /\ \A i \in DOMAIN results : Len(results[i].events) \in Nat
  BY ResultTypes
<1>2. /\ EventCounts \in [1 .. Len(results) -> Nat]
      /\ \A i \in DOMAIN results : EventCounts[i] = Len(results[i].events)
  BY <1>1 DEF EventCounts
<1> QED
  BY <1>1, <1>2

LEMMA LedgerIsFinite ==
  ASSUME LoopTypes, NEW m
  PROVE  IsFiniteSet(InLedger(m)) /\ Cardinality(InLedger(m)) \in Nat
<1>1. Len(ledger) \in Nat /\ DOMAIN ledger = 1 .. Len(ledger)
  BY DEF LoopTypes
<1>2. IsFiniteSet(1 .. Len(ledger))
  BY <1>1, FS_Interval
<1>3. InLedger(m) \subseteq 1 .. Len(ledger)
  BY <1>1 DEF InLedger
<1> QED
  BY <1>2, <1>3, FS_Subset, FS_CardinalityType

\* As long as none of its events is written, the ledger has no event of the model.
LEMMA NothingWritten ==
  ASSUME ModelsDiffer, IdInv, Running, \A id : ~ OfAWrittenEvent(id)
  PROVE  InLedger(Model) = {}
<1>1. LoopTypes /\ LedgerInv
  BY DEF IdInv
<1>2. at.model \in DOMAIN ModelIds /\ 1 .. at.model - 1 \subseteq DOMAIN ModelIds
      /\ at.model \notin 1 .. at.model - 1
  <2>1. PICK ids : ModelIds \in Seq(ids)
    BY RunAssumption
  <2> QED
    BY <1>1, <2>1, PositionTypes
<1>3. \A j \in DOMAIN ledger : ledger[j].id[1] # Model
  BY <1>1, <1>2 DEF LedgerInv, Known, OfAnEarlierModel, ModelsDiffer, Model
<1> QED
  BY <1>3 DEF InLedger

LEMMA CountInit == Init => RowsInv /\ RowsCount /\ phase # "append"
<1> SUFFICES ASSUME Init PROVE RowsInv /\ RowsCount /\ phase # "append"
  OBVIOUS
<1>1. Counted(<< >>)
  BY DEF Counted
<1> QED
  BY <1>1 DEF Init, FirstTrial, StartOf, RowsInv, RowsCount, Running, InTrial

\* The loops start when the last trial has ended.
LEMMA LoopsStart ==
  ASSUME ModelsDiffer, IdInv, InTrial, IdInv', phase' = "append", Model' = Model,
         ledger' = ledger, at'.result = 1, at'.event = 1
  PROVE  CursorInv'
<1>1. InLedger(Model) = {}
  <2>1. LoopTypes /\ at.result = 1 /\ at.event = 1
    BY DEF IdInv
  <2>2. \A id : ~ OfAWrittenEvent(id)
    BY <2>1, ResultTypes DEF OfAWrittenEvent, Written
  <2> QED
    BY <2>2, NothingWritten DEF Running
<1>2. InLedger(Model)' = {}
  BY <1>1 DEF InLedger
<1>3. Cardinality({}) = 0
  BY FS_EmptySet
<1>4. /\ EventCounts' \in Seq(Nat) /\ Len(results') \in Nat
      /\ \A i \in DOMAIN results' : Len(results'[i].events) \in Nat
  <2>1. LoopTypes'
    BY DEF IdInv
  <2>2. /\ results' \in Seq(TrialResults)
    BY <2>1 DEF LoopTypes
  <2>3. \A r \in TrialResults : r.events \in Seq(Events)
    BY DEF TrialResults
  <2>4. /\ Len(results') \in Nat /\ DOMAIN results' = 1 .. Len(results')
        /\ \A i \in DOMAIN results' : results'[i] \in TrialResults
    BY <2>2
  <2>5. \A i \in DOMAIN results' : Len(results'[i].events) \in Nat
    BY <2>3, <2>4
  <2>6. EventCounts' \in [1 .. Len(results') -> Nat]
    BY <2>4, <2>5 DEF EventCounts
  <2> QED
    BY <2>4, <2>5, <2>6
<1>5. Sums(EventCounts')[0] = 0
  BY <1>4, SumsAre
<1>6. Sums(EventCounts)' = Sums(EventCounts')
  OBVIOUS
<1> QED
  BY <1>2, <1>3, <1>4, <1>5, <1>6 DEF CursorInv

\* A step that leaves the ledger, and outside the two loops.
LEMMA LedgerUntouched ==
  ASSUME RowsCount, ledger' = ledger, rows' = rows
  PROVE  RowsCount'
BY DEF RowsCount, InLedger

\* A step of a trial that runs.
LEMMA TrialStepCounts ==
  ASSUME ModelsDiffer, CountInv, IdInv', RowsInv', InTrial, ledger' = ledger, rows' = rows,
         \/ phase' # "append"
         \/ \E events, errored : EndTrial(events, errored)
  PROVE  CountInv'
<1>1. RowsCount'
  BY LedgerUntouched DEF CountInv
<1>2. ASSUME phase' = "append" PROVE CursorInv'
  <2>1. at' = at
    BY <1>2 DEF EndTrial
  <2>2. at.result = 1 /\ at.event = 1
    BY DEF CountInv, IdInv
  <2> QED
    BY <1>2, <2>1, <2>2, LoopsStart DEF CountInv, Model
<1> QED
  BY <1>1, <1>2 DEF CountInv

LEMMA AppendEventCounts ==
  ASSUME ModelsDiffer, CountInv, IdInv', RowsInv', AppendEvent
  PROVE  CountInv'
<1>0. LoopTypes /\ ResultInv /\ CursorInv /\ RowsCount /\ RowsInv /\ phase = "append"
  BY DEF AppendEvent, TrialIsDue, CountInv, IdInv, Running
<1> DEFINE event == results[at.result].events[at.event]
<1>1. /\ results' = results /\ rows' = rows
      /\ at.result \in DOMAIN results /\ at.event \in DOMAIN results[at.result].events
  BY <1>0, PositionTypes, ResultTypes DEF AppendEvent, TrialIsDue, Positions
<1>2. CASE phase' = "died" /\ UNCHANGED ledger
  BY <1>0, <1>1, <1>2, LedgerUntouched DEF CountInv
<1>3. CASE /\ ledger' = Append(ledger, event) /\ at' = [at EXCEPT !.event = @ + 1]
           /\ UNCHANGED phase
  <2>1. event.id[1] = Model
    BY <1>0, <1>1 DEF ResultInv
  <2> HIDE DEF event
  <2>2. at'.model = at.model /\ at'.result = at.result /\ at'.event = at.event + 1
    BY <1>0, <1>3, PositionTypes, LoopsMove DEF Now
  <2> DEFINE n == Len(ledger) + 1
  <2>3. /\ DOMAIN ledger' = DOMAIN ledger \union {n} /\ n \notin DOMAIN ledger
        /\ ledger'[n] = event /\ \A j \in DOMAIN ledger : ledger'[j] = ledger[j]
    <3>1. ledger \in Seq(Events)
      BY <1>0 DEF LoopTypes
    <3>2. event \in Events
      BY <1>0, <1>1, ResultTypes DEF event
    <3> HIDE DEF Events
    <3>3. /\ DOMAIN ledger = 1 .. Len(ledger) /\ Len(ledger) \in Nat
          /\ ledger' \in Seq(Events) /\ Len(ledger') = Len(ledger) + 1
          /\ DOMAIN ledger' = 1 .. Len(ledger) + 1
          /\ ledger'[n] = event /\ \A j \in DOMAIN ledger : ledger'[j] = ledger[j]
      BY <1>3, <3>1, <3>2
    <3> QED
      BY <3>3
  <2> HIDE DEF n
  <2>4. Model' = Model
    BY <2>2 DEF Model
  <2>5. InLedger(Model)' = InLedger(Model) \union {n} /\ n \notin InLedger(Model)
    BY <2>1, <2>3, <2>4 DEF InLedger
  <2>6. Cardinality(InLedger(Model)') = Cardinality(InLedger(Model)) + 1
    BY <1>0, <2>5, LedgerIsFinite, FS_AddElement
  <2>7. CursorInv'
    <3>1. Sums(EventCounts)' = Sums(EventCounts)
      BY <1>1 DEF EventCounts
    <3>2. Sums(EventCounts)[at.result - 1] \in Nat
      <4>1. EventCounts \in Seq(Nat) /\ Len(EventCounts) = Len(results)
        BY <1>0, CountTypes
      <4>2. at.result - 1 \in 0 .. Len(EventCounts)
        BY <1>0, <1>1, <4>1, ResultTypes
      <4> QED
        BY <4>1, <4>2, SumsAre
    <3>3. Cardinality(InLedger(Model)) \in Nat /\ at.event \in Nat
      BY <1>0, LedgerIsFinite, PositionTypes
    <3>4. Cardinality(InLedger(Model)') = Sums(EventCounts)'[at'.result - 1] + at'.event - 1
      BY <1>0, <2>2, <2>6, <3>1, <3>2, <3>3 DEF CursorInv
    <3>5. at'.event <= Len(results'[at'.result].events) + 1
      BY <1>0, <1>1, <2>2, ResultTypes
    <3> QED
      BY <1>0, <1>1, <2>2, <3>4, <3>5 DEF CursorInv
  <2>8. RowsCount'
    <3>1. ASSUME NEW i \in DOMAIN rows
          PROVE  InLedger(ModelIds[i])' = InLedger(ModelIds[i])
      <4>1. i # at.model /\ i \in DOMAIN ModelIds /\ at.model \in DOMAIN ModelIds
        <5>1. i \in 1 .. at.model - 1
          BY <1>0, AppendCounts DEF RowsInv, Running
        <5>2. PICK ids : ModelIds \in Seq(ids)
          BY RunAssumption
        <5> QED
          BY <1>0, <5>1, <5>2, PositionTypes
      <4>2. ModelIds[i] # Model
        BY <4>1 DEF ModelsDiffer, Model
      <4> QED
        BY <2>1, <2>3, <4>2 DEF InLedger
    <3> QED
      BY <1>0, <1>1, <3>1 DEF RowsCount
  <2> QED
    BY <1>3, <2>7, <2>8 DEF CountInv
<1> QED
  BY <1>2, <1>3 DEF AppendEvent

LEMMA NextResultCounts ==
  ASSUME CountInv, IdInv', RowsInv', NextResult
  PROVE  CountInv'
<1>0. LoopTypes /\ CursorInv /\ RowsCount /\ phase = "append"
  BY DEF NextResult, TrialIsDue, CountInv, IdInv
<1>1. /\ UNCHANGED <<phase, results, ledger, rows>>
      /\ at.event > Len(results[at.result].events) /\ at.result \in DOMAIN results
      /\ at' = [at EXCEPT !.result = @ + 1, !.event = 1]
  BY <1>0, PositionTypes, ResultTypes DEF NextResult, TrialIsDue, Positions
<1>2. at'.model = at.model /\ at'.result = at.result + 1 /\ at'.event = 1
  BY <1>0, <1>1, PositionTypes, LoopsMove DEF Now
<1> DEFINE n == Len(results[at.result].events)
           counts == EventCounts
<1>3. /\ at.result \in Nat \ {0} /\ at.event \in Nat /\ n \in Nat /\ at.result <= Len(results)
      /\ Len(results) \in Nat
  BY <1>0, <1>1, PositionTypes, ResultTypes
<1>4. at.event = n + 1
  BY <1>0, <1>1, <1>3 DEF CursorInv
<1>5. /\ Sums(counts)[at.result] = Sums(counts)[at.result - 1] + n
      /\ Sums(counts)[at.result - 1] \in Nat
  <2>1. counts \in Seq(Nat) /\ Len(counts) = Len(results) /\ counts[at.result] = n
    BY <1>0, <1>1, CountTypes
  <2>2. at.result \in 1 .. Len(counts) /\ at.result - 1 \in 0 .. Len(counts)
    BY <1>3, <2>1
  <2> HIDE DEF counts, n
  <2> QED
    BY <2>1, <2>2, SumsAre
<1>6. Cardinality(InLedger(Model)) = Sums(counts)[at.result - 1] + at.event - 1
  BY <1>0 DEF CursorInv
<1>7. InLedger(Model)' = InLedger(Model) /\ counts' = counts
  BY <1>1, <1>2 DEF InLedger, Model, EventCounts
<1> HIDE DEF counts, n
<1>8. Cardinality(InLedger(Model)') = Sums(counts')[at'.result - 1] + at'.event - 1
  <2>1. at'.result - 1 = at.result
    BY <1>2, <1>3
  <2> QED
    BY <1>2, <1>3, <1>4, <1>5, <1>6, <1>7, <2>1
<1>9. at'.event <= (IF at'.result \in DOMAIN results' THEN Len(results'[at'.result].events) ELSE 0) + 1
  BY <1>0, <1>1, <1>2, ResultTypes
<1>10. CursorInv'
  BY <1>1, <1>2, <1>3, <1>8, <1>9 DEF CursorInv, counts
<1>11. RowsCount'
  BY <1>0, <1>1, LedgerUntouched
<1> QED
  BY <1>10, <1>11 DEF CountInv

LEMMA WriteRowCounts ==
  ASSUME CountInv, IdInv', RowsInv', WriteRow
  PROVE  CountInv'
<1>0. LoopTypes /\ CursorInv /\ RowsCount /\ RowsInv /\ phase = "append"
  BY DEF WriteRow, CountInv, IdInv
<1>1. at.result > Len(results) /\ rows' = Append(rows, Row) /\ ledger' = ledger
      /\ phase' # "append"
  BY DEF WriteRow, RowIsDue
<1>2. at.result = Len(results) + 1 /\ Len(results) \in Nat /\ at.event = 1
  BY <1>0, <1>1, PositionTypes, ResultTypes DEF CursorInv
<1>3. Cardinality(InLedger(Model)) = Total(EventCounts)
  <2>1. EventCounts \in Seq(Nat) /\ Len(EventCounts) = Len(results)
    BY <1>0, CountTypes
  <2>2. Sums(EventCounts)[Len(EventCounts)] \in Nat
    BY <1>2, <2>1, SumsAre
  <2>3. at.result - 1 = Len(EventCounts)
    BY <1>2, <2>1
  <2> QED
    BY <1>0, <1>2, <2>2, <2>3 DEF CursorInv, Total
<1>4. Row.model = Model /\ Row.events = Cardinality(InLedger(Model))
  BY <1>3 DEF Row
<1> DEFINE row == Row
<1> HIDE DEF row
<1>5. Len(rows) + 1 = at.model /\ at.model \in DOMAIN ModelIds
  <2>1. PICK ids : ModelIds \in Seq(ids)
    BY RunAssumption
  <2> QED
    BY <1>0, <2>1, PositionTypes, AppendCounts DEF RowsInv, Running
<1>6. ASSUME NEW i \in DOMAIN rows'
      PROVE  /\ i \in DOMAIN ModelIds /\ rows'[i].model = ModelIds[i]
             /\ rows'[i].events = Cardinality(InLedger(ModelIds[i])')
  <2>1. InLedger(ModelIds[i])' = InLedger(ModelIds[i])
    BY <1>1 DEF InLedger
  <2>2. \/ i \in DOMAIN rows /\ rows'[i] = rows[i]
        \/ i = at.model /\ rows'[i] = Row
    BY <1>0, <1>1, <1>5, <1>6, AppendCounts DEF RowsInv
  <2>3. CASE i \in DOMAIN rows /\ rows'[i] = rows[i]
    BY <1>0, <2>1, <2>3 DEF RowsCount
  <2>4. CASE i = at.model /\ rows'[i] = Row
    BY <1>4, <1>5, <2>1, <2>4 DEF Model
  <2> QED
    BY <2>2, <2>3, <2>4
<1> QED
  BY <1>1, <1>6 DEF CountInv, RowsCount

LEMMA CountNext ==
  ASSUME ModelsDiffer, CountInv, [Next]_vars
  PROVE  CountInv'
<1>0. IdInv' /\ RowsInv'
  BY IdNext, RowsNext DEF CountInv
<1>1. CASE Check
  <2>1. InTrial /\ ledger' = ledger /\ rows' = rows
        /\ (phase' # "append" \/ \E events, errored : EndTrial(events, errored))
    BY <1>1 DEF Check, Abort, InTrial
  <2> QED
    BY <1>0, <2>1, TrialStepCounts
<1>2. CASE AttemptFails
  <2>1. InTrial /\ ledger' = ledger /\ rows' = rows
        /\ (phase' # "append" \/ \E events, errored : EndTrial(events, errored))
    BY <1>2 DEF AttemptFails, InTrial
  <2> QED
    BY <1>0, <2>1, TrialStepCounts
<1>3. ASSUME NEW answer \in Answers, NEW cost \in Costs, Answered(answer, cost)
      PROVE  CountInv'
  <2>1. InTrial /\ ledger' = ledger /\ rows' = rows
        /\ (phase' # "append" \/ \E events, errored : EndTrial(events, errored))
    BY <1>3 DEF Answered, InTrial
  <2> QED
    BY <1>0, <2>1, TrialStepCounts
<1>4. ASSUME NEW cost \in Costs, AnsweredNull(cost)
      PROVE  CountInv'
  <2>1. InTrial /\ ledger' = ledger /\ rows' = rows /\ phase' # "append"
    BY <1>4 DEF AnsweredNull, InTrial
  <2> QED
    BY <1>0, <2>1, TrialStepCounts
<1>5. CASE UNCHANGED vars
  <2>1. RowsCount'
    BY <1>5, LedgerUntouched DEF vars, CountInv
  <2>2. phase' = "append" => CursorInv'
    BY <1>5 DEF vars, CountInv, CursorInv, InLedger, Model, EventCounts
  <2> QED
    BY <1>0, <2>1, <2>2 DEF CountInv
<1> QED
  BY <1>0, <1>1, <1>2, <1>3, <1>4, <1>5, AppendEventCounts, NextResultCounts, WriteRowCounts DEF Next

------------------------------------------------------------------------------
\* The places that a mask keeps exist, and are the ones Kept defines.
LEMMA KeptAre ==
  ASSUME NEW N \in Nat, NEW mask \in [1 .. N -> BOOLEAN]
  PROVE  /\ Kept(mask) \in [0 .. N -> Seq(1 .. N)] /\ Kept(mask)[0] = << >>
         /\ \A k \in 1 .. N : Kept(mask)[k] = IF mask[k] THEN Append(Kept(mask)[k - 1], k)
                                              ELSE Kept(mask)[k - 1]
<1> DEFINE V == Seq(1 .. N)
           next(v, k) == IF mask[k] THEN Append(v, k) ELSE v
           step == [k \in 1 .. N |-> [v \in V |-> next(v, k)]]
<1>1. ASSUME NEW k \in 1 .. N, NEW v \in V
      PROVE  next(v, k) \in V
  <2> DEFINE S == 1 .. N
  <2>1. k \in S /\ v \in Seq(S)
    OBVIOUS
  <2> HIDE DEF S
  <2>2. Append(v, k) \in Seq(S)
    BY <2>1
  <2> QED
    BY <2>1, <2>2 DEF S
<1>2. << >> \in V
  OBVIOUS
<1>3. Len(mask) = N
  OBVIOUS
<1>4. Kept(mask) = CHOOSE g : g = [k \in 0 .. N |-> IF k = 0 THEN << >> ELSE next(g[k - 1], k)]
  BY <1>3 DEF Kept
<1> HIDE DEF V, next
<1>5. step \in [1 .. N -> [V -> V]]
  BY <1>1
<1>6. PICK f \in [0 .. N -> V] : Computes(f, << >>, step, N)
  <2> HIDE DEF step
  <2> QED
    BY <1>2, <1>5, Recursion
<1>7. \A k \in 1 .. N : f[k] = next(f[k - 1], k)
  <2> TAKE k \in 1 .. N
  <2>1. f[k - 1] \in V /\ step[k] = [v \in V |-> next(v, k)]
    OBVIOUS
  <2> QED
    BY <1>6, <2>1 DEF Computes
<1> HIDE DEF step
<1>8. f = [k \in 0 .. N |-> IF k = 0 THEN << >> ELSE next(f[k - 1], k)]
  BY <1>6, <1>7 DEF Computes
<1> DEFINE kept == Kept(mask)
           entry(k) == IF k = 0 THEN << >> ELSE next(kept[k - 1], k)
<1>9. kept = [k \in 0 .. N |-> entry(k)]
  BY <1>4, <1>8
<1> HIDE DEF kept
<1>10. kept[0] = << >> /\ \A k \in 1 .. N : kept[k] = next(kept[k - 1], k)
  <2>1. kept[0] = entry(0)
    BY <1>9
  <2>2. \A k \in 1 .. N : kept[k] = entry(k) /\ k # 0
    BY <1>9
  <2> QED
    BY <2>1, <2>2
<1> HIDE DEF entry
<1> DEFINE good == {k \in 0 .. N : kept[k] = f[k]}
<1>11. \A k \in 0 .. N : k \in good
  <2>1. 0 \in good
    BY <1>6, <1>10 DEF Computes
  <2>2. \A k \in 1 .. N : k - 1 \in good => k \in good
    BY <1>7, <1>10
  <2> HIDE DEF good
  <2> QED
    BY <2>1, <2>2, UpTo
<1>12. kept = f
  BY <1>9, <1>11
<1> QED
  BY <1>10, <1>12 DEF kept, next, V

\* sum(mask) counts.
LEMMA CountIsCardinality ==
  ASSUME NEW N \in Nat, NEW mask \in [1 .. N -> BOOLEAN]
  PROVE  Count(mask) = Cardinality({i \in 1 .. N : mask[i]}) /\ Count(mask) \in Nat
<1> DEFINE ones == Ones(mask)
           sums == Sums(ones)
           set(n) == {i \in 1 .. n : mask[i]}
           good == {n \in 0 .. N : IsFiniteSet(set(n)) /\ Cardinality(set(n)) = sums[n]}
<1>1. /\ ones \in Seq(Nat) /\ Len(ones) = N
      /\ \A i \in 1 .. N : ones[i] = IF mask[i] THEN 1 ELSE 0
  BY DEF Ones
<1> HIDE DEF ones
<1>2. sums[0] = 0 /\ \A k \in 1 .. N : sums[k] = sums[k - 1] + ones[k]
  BY <1>1, SumsAre
<1>3. sums \in [0 .. N -> Nat]
  BY <1>1, SumsAre
<1> HIDE DEF sums
<1>4. 0 \in good
  <2>1. set(0) = {}
    OBVIOUS
  <2> QED
    BY <1>2, <2>1, FS_EmptySet
<1>5. ASSUME NEW n \in 1 .. N, n - 1 \in good
      PROVE  n \in good
  <2>1. IsFiniteSet(set(n - 1)) /\ Cardinality(set(n - 1)) = sums[n - 1]
    BY <1>5
  <2>2. CASE mask[n]
    <3>1. set(n) = set(n - 1) \union {n} /\ n \notin set(n - 1)
      BY <2>2
    <3>2. sums[n] = sums[n - 1] + 1
      BY <1>1, <1>2, <2>2
    <3> DEFINE A == set(n - 1)
               B == set(n)
    <3>3. IsFiniteSet(A) /\ Cardinality(A) = sums[n - 1] /\ B = A \union {n} /\ n \notin A
      BY <2>1, <3>1
    <3> HIDE DEF A, B
    <3>4. IsFiniteSet(B) /\ Cardinality(B) = Cardinality(A) + 1
      BY <3>3, FS_AddElement
    <3> QED
      BY <3>2, <3>3, <3>4 DEF B
  <2>3. CASE ~ mask[n]
    <3>1. set(n) = set(n - 1)
      BY <2>3
    <3>2. sums[n] = sums[n - 1]
      BY <1>1, <1>2, <1>3, <2>3
    <3> HIDE DEF set
    <3> QED
      BY <2>1, <3>1, <3>2
  <2> QED
    BY <2>2, <2>3
<1>6. \A n \in 0 .. N : n \in good
  <2> HIDE DEF good
  <2> QED
    BY <1>4, <1>5, UpTo
<1>7. IsFiniteSet(set(N)) /\ Cardinality(set(N)) = sums[N]
  BY <1>6
<1>8. Count(mask) = sums[N]
  BY <1>1 DEF Count, Total, ones, sums
<1> HIDE DEF set
<1>9. Cardinality(set(N)) \in Nat
  BY <1>7, FS_CardinalityType
<1> QED
  BY <1>7, <1>8, <1>9 DEF set

\* The place of a trial in the results of its model.
Place(n, t) == (n - 1) * Trials + t + 1

LEMMA Times ==
  ASSUME NEW a \in Nat, NEW b \in Nat, a < b, NEW k \in Nat \ {0}
  PROVE  a * k \in Nat /\ b * k \in Nat /\ a * k + k <= b * k
<1>1. b * k = a * k + (b - a) * k
  OBVIOUS
<1>2. (b - a) * k >= k
  OBVIOUS
<1> QED
  BY <1>1, <1>2

LEMMA Division ==
  ASSUME NEW k \in Nat \ {0}
  PROVE  /\ \A q \in Nat, r \in 0 .. k - 1 : (q * k + r) \div k = q
         /\ \A i \in Nat : /\ i \div k \in Nat /\ i % k \in 0 .. k - 1
                           /\ i = ((i \div k) * k) + (i % k)
  OBVIOUS

\* Every place of the results is the place of one trial of one task.
LEMMA PlaceFacts ==
  /\ NTasks \in Nat \ {0} /\ Trials \in Nat \ {0} /\ NTasks * Trials \in Nat \ {0}
  /\ \A n \in 1 .. NTasks, t \in 0 .. Trials - 1 :
       /\ Place(n, t) \in 1 .. NTasks * Trials
       /\ (Place(n, t) - 1) \div Trials + 1 = n
  /\ \A n, m \in 1 .. NTasks, t, u \in 0 .. Trials - 1 : Place(n, t) = Place(m, u) => n = m /\ t = u
  /\ \A i \in 1 .. NTasks * Trials : \E n \in 1 .. NTasks, t \in 0 .. Trials - 1 : i = Place(n, t)
<1>1. NTasks \in Nat \ {0} /\ Trials \in Nat \ {0}
  BY RunAssumption
<1>2. NTasks * Trials \in Nat /\ Trials <= NTasks * Trials
  BY <1>1, Times
<1>3. ASSUME NEW n \in 1 .. NTasks, NEW t \in 0 .. Trials - 1
      PROVE  Place(n, t) \in 1 .. NTasks * Trials /\ (Place(n, t) - 1) \div Trials + 1 = n
  <2>1. (n - 1) * Trials \in Nat /\ (n - 1) * Trials + Trials <= NTasks * Trials
    BY <1>1, Times
  <2>2. Place(n, t) - 1 = (n - 1) * Trials + t
    BY <1>1, <2>1 DEF Place
  <2>3. ((n - 1) * Trials + t) \div Trials = n - 1
    <3> DEFINE q == n - 1
    <3>1. q \in Nat
      OBVIOUS
    <3> HIDE DEF q
    <3>2. (q * Trials + t) \div Trials = q
      BY <1>1, <3>1, Division
    <3> QED
      BY <3>2 DEF q
  <2>4. Place(n, t) \in 1 .. NTasks * Trials
    BY <1>1, <1>2, <2>1 DEF Place
  <2> QED
    BY <1>1, <2>2, <2>3, <2>4
<1>4. ASSUME NEW n \in 1 .. NTasks, NEW m \in 1 .. NTasks, NEW t \in 0 .. Trials - 1,
             NEW u \in 0 .. Trials - 1, Place(n, t) = Place(m, u)
      PROVE  n = m /\ t = u
  <2>1. n = m
    <3>1. (Place(n, t) - 1) \div Trials + 1 = n /\ (Place(m, u) - 1) \div Trials + 1 = m
      BY <1>3
    <3> QED
      BY <1>4, <3>1
  <2>2. (n - 1) * Trials \in Nat
    BY <1>1, Times
  <2> QED
    BY <1>4, <2>1, <2>2 DEF Place
<1>5. ASSUME NEW i \in 1 .. NTasks * Trials
      PROVE  \E n \in 1 .. NTasks, t \in 0 .. Trials - 1 : i = Place(n, t)
  <2> DEFINE q == (i - 1) \div Trials
             r == (i - 1) % Trials
  <2>1. q \in Nat /\ r \in 0 .. Trials - 1 /\ i - 1 = q * Trials + r
    <3>1. i - 1 \in Nat
      BY <1>2
    <3> QED
      BY <1>1, <3>1, Division
  <2> HIDE DEF q, r
  <2>2. q + 1 \in 1 .. NTasks
    <3> SUFFICES ASSUME ~ (q < NTasks) PROVE FALSE
      BY <1>1, <2>1
    <3>1. NTasks * Trials <= q * Trials
      BY <1>1, <2>1, Times
    <3>2. q * Trials \in Nat
      BY <1>1, <2>1
    <3> QED
      BY <1>1, <1>2, <2>1, <3>1, <3>2
  <2>3. i = Place(q + 1, r)
    BY <1>1, <1>2, <2>1 DEF Place
  <2> QED
    BY <2>1, <2>2, <2>3
<1>6. NTasks * Trials # 0
  BY <1>1, <1>2
<1> QED
  BY <1>1, <1>2, <1>3, <1>4, <1>5, <1>6

\* The b elements after the first a, and a mask of N that keeps them.
Block(s, a, b) == [k \in 1 .. b |-> s[a + k]]

KeepsBlock(mask, N, a, b) ==
    /\ mask \in [1 .. N -> BOOLEAN] /\ a + b <= N
    /\ \A i \in 1 .. N : mask[i] <=> a < i /\ i <= a + b

LEMMA BlockMasked ==
  ASSUME NEW N \in Nat, NEW a \in Nat, NEW b \in Nat, NEW mask, KeepsBlock(mask, N, a, b), NEW s
  PROVE  Masked(s, mask) = Block(s, a, b)
<1>0. /\ mask \in [1 .. N -> BOOLEAN] /\ a + b <= N
      /\ \A i \in 1 .. N : mask[i] <=> a < i /\ i <= a + b
  BY DEF KeepsBlock
<1> DEFINE kept == Kept(mask)
           size(n) == IF n <= a THEN 0 ELSE IF n <= a + b THEN n - a ELSE b
           block(m) == [k \in 1 .. m |-> a + k]
           good == {n \in 0 .. N : kept[n] = block(size(n))}
<1>1. /\ kept[0] = << >>
      /\ \A n \in 1 .. N : kept[n] = IF mask[n] THEN Append(kept[n - 1], n) ELSE kept[n - 1]
  BY <1>0, KeptAre
<1>2. \A m \in Nat : block(m) \in Seq(Nat) /\ Len(block(m)) = m
  OBVIOUS
<1>3. \A m \in Nat : Append(block(m), a + m + 1) = block(m + 1)
  <2> SUFFICES ASSUME NEW m \in Nat
               PROVE  Append(block(m), a + m + 1) = block(m + 1)
    OBVIOUS
  <2> DEFINE more == Append(block(m), a + m + 1)
  <2>1. /\ more \in Seq(Nat) /\ Len(more) = m + 1 /\ more[m + 1] = a + m + 1
        /\ \A k \in 1 .. m : more[k] = block(m)[k]
    OBVIOUS
  <2>2. \A k \in 1 .. m : block(m)[k] = a + k
    OBVIOUS
  <2> HIDE DEF more
  <2>3. \A k \in 1 .. m + 1 : more[k] = a + k
    <3> SUFFICES ASSUME NEW k \in 1 .. m + 1 PROVE more[k] = a + k
      OBVIOUS
    <3>1. CASE k = m + 1
      BY <2>1, <3>1
    <3>2. CASE k # m + 1
      <4>1. k \in 1 .. m
        BY <3>2
      <4> HIDE DEF block
      <4> QED
        BY <2>1, <2>2, <4>1
    <3> QED
      BY <3>1, <3>2
  <2>4. block(m + 1) \in Seq(Nat) /\ Len(block(m + 1)) = m + 1
        /\ \A k \in 1 .. m + 1 : block(m + 1)[k] = a + k
    OBVIOUS
  <2> HIDE DEF block
  <2>5. more = block(m + 1)
    BY <2>1, <2>3, <2>4
  <2> QED
    BY <2>5 DEF more
<1>4. block(0) = << >>
  <2>1. Len(block(0)) = 0 /\ block(0) \in Seq(Nat)
    BY <1>2
  <2> HIDE DEF block
  <2> QED
    BY <2>1
<1> HIDE DEF kept, block
<1>5. 0 \in good
  BY <1>1, <1>4
<1>6. ASSUME NEW n \in 1 .. N, n - 1 \in good
      PROVE  n \in good
  <2>1. kept[n - 1] = block(size(n - 1))
    BY <1>6
  <2>2. CASE a < n /\ n <= a + b
    <3>1. mask[n] /\ size(n - 1) = n - 1 - a /\ n - 1 - a \in Nat /\ size(n) = n - 1 - a + 1
          /\ n = a + (n - 1 - a) + 1
      BY <1>0, <2>2
    <3>2. kept[n] = Append(block(n - 1 - a), n)
      BY <1>1, <2>1, <3>1
    <3>3. Append(block(n - 1 - a), n) = block(size(n))
      BY <1>3, <3>1
    <3> QED
      BY <3>2, <3>3
  <2>3. CASE ~ (a < n /\ n <= a + b)
    <3>1. size(n - 1) = size(n)
      BY <2>3
    <3>2. kept[n] = kept[n - 1]
      BY <1>0, <1>1, <2>3
    <3> HIDE DEF size
    <3> QED
      BY <2>1, <3>1, <3>2
  <2> QED
    BY <2>2, <2>3
<1>7. \A n \in 0 .. N : n \in good
  <2> HIDE DEF good
  <2> QED
    BY <1>5, <1>6, UpTo
<1>8. kept[N] = block(b)
  <2>1. size(N) = b /\ N \in 0 .. N
    BY <1>0
  <2> HIDE DEF size
  <2> QED
    BY <1>7, <2>1
<1>9. Len(mask) = N
  BY <1>0
<1>10. DOMAIN block(b) = 1 .. b /\ \A k \in 1 .. b : block(b)[k] = a + k
  BY DEF block
<1> QED
  BY <1>8, <1>9, <1>10 DEF Masked, Block, kept

------------------------------------------------------------------------------
\* What the result of a trial says of the events it has.
ResultOf(r, n, t) ==
    /\ r.task = n
    /\ \A k \in DOMAIN r.events : r.events[k].id[2] = n /\ r.events[k].id[3] = t
    /\ r.success <=> \E k \in DOMAIN r.events : r.events[k].matched
    /\ r.errored <=> ~ \E k \in DOMAIN r.events : r.events[k].decision = "ALLOW"
    /\ r.cost = SumOfCosts(r.events)

\* The results lie in the order of tasks and trials.
InOrder ==
    \A n \in 1 .. NTasks, t \in 0 .. Trials - 1 :
        Place(n, t) \in DOMAIN results => ResultOf(results[Place(n, t)], n, t)

\* The trial that runs is the next one, and no step of it was the last.
NextTrial ==
    /\ at.task \in 1 .. NTasks /\ at.trial \in 0 .. Trials - 1
    /\ Len(results) + 1 = Place(at.task, at.trial)
    /\ \A k \in DOMAIN episode : ~ episode[k].matched /\ episode[k].decision = "VERIFY"

\* What the two loops have written is what the ledger has of the model.
WrittenInv ==
    /\ \A j \in InLedger(Model) : \E i \in DOMAIN results : \E k \in DOMAIN results[i].events :
         ledger[j] = results[i].events[k]
    /\ \A i \in DOMAIN results : \A k \in DOMAIN results[i].events :
         Written(i, k) => \E j \in InLedger(Model) : ledger[j] = results[i].events[k]

\* What each of a sequence of events or results costs.
CostsOf(seq) == [i \in DOMAIN seq |-> seq[i].cost]

\* The costs of the results the loops have left and of the events of this one.
CostOfWritten ==
    Sums(CostsOf(results))[at.result - 1]
      + IF at.event = 1 THEN 0 ELSE Sums(CostsOf(results[at.result].events))[at.event - 1]

\* What the model's results and the ledger have in common while they are appended.
AppendInv ==
    /\ Len(results) = NTasks * Trials
    /\ WrittenInv
    /\ CostInLedger(Model) = CostOfWritten

\* A row is computed from the results, so what it says of the ledger follows
\* from what the results have been, from the first trial on.
RowInv ==
    /\ InTrial => NextTrial
    /\ Running => InOrder
    /\ phase = "append" => AppendInv
    /\ RowsAreRegenerable

------------------------------------------------------------------------------
\* All results of the model are there, and the ledger has what they have.
Complete ==
    /\ LoopTypes /\ InOrder /\ Len(results) = NTasks * Trials
    /\ \A j \in InLedger(Model) : \E i \in DOMAIN results : \E k \in DOMAIN results[i].events :
         ledger[j] = results[i].events[k]
    /\ \A i \in DOMAIN results : \A k \in DOMAIN results[i].events :
         \E j \in InLedger(Model) : ledger[j] = results[i].events[k]

LEMMA CompleteResults ==
  ASSUME Complete
  PROVE  /\ DOMAIN results = 1 .. NTasks * Trials
         /\ \A n \in 1 .. NTasks, t \in 0 .. Trials - 1 : ResultOf(results[Place(n, t)], n, t)
         /\ \A i \in DOMAIN results : /\ results[i].success \in BOOLEAN
                                      /\ results[i].errored \in BOOLEAN
<1>1. DOMAIN results = 1 .. NTasks * Trials
  BY ResultTypes DEF Complete
<1>2. \A n \in 1 .. NTasks, t \in 0 .. Trials - 1 : Place(n, t) \in DOMAIN results
  BY <1>1, PlaceFacts
<1>3. \A n \in 1 .. NTasks, t \in 0 .. Trials - 1 : ResultOf(results[Place(n, t)], n, t)
  BY <1>2 DEF Complete, InOrder
<1>4. \A i \in DOMAIN results : results[i] \in TrialResults
  BY DEF Complete, LoopTypes
<1>5. \A r \in TrialResults : r.success \in BOOLEAN /\ r.errored \in BOOLEAN
  BY DEF TrialResults
<1> QED
  BY <1>1, <1>3, <1>4, <1>5

\* The places of a trial's events in the ledger.
OfTrial(m, x) == {j \in InLedger(m) : ledger[j].id[2] = x[1] /\ ledger[j].id[3] = x[2]}

\* An event is of the trial whose result it is part of.
LEMMA EventOfItsTrial ==
  ASSUME Complete, NEW n \in 1 .. NTasks, NEW t \in 0 .. Trials - 1
  PROVE  /\ \A j \in OfTrial(Model, <<n, t>>) : \E k \in DOMAIN results[Place(n, t)].events :
              ledger[j] = results[Place(n, t)].events[k]
         /\ \A k \in DOMAIN results[Place(n, t)].events : \E j \in OfTrial(Model, <<n, t>>) :
              ledger[j] = results[Place(n, t)].events[k]
<1>1. ASSUME NEW j \in OfTrial(Model, <<n, t>>)
      PROVE  \E k \in DOMAIN results[Place(n, t)].events :
                ledger[j] = results[Place(n, t)].events[k]
  <2>1. j \in InLedger(Model) /\ ledger[j].id[2] = n /\ ledger[j].id[3] = t
    BY DEF OfTrial
  <2>2. PICK i \in DOMAIN results : \E k \in DOMAIN results[i].events :
                ledger[j] = results[i].events[k]
    BY <2>1 DEF Complete
  <2>3. PICK m \in 1 .. NTasks, u \in 0 .. Trials - 1 : i = Place(m, u)
    BY <2>2, CompleteResults, PlaceFacts
  <2>4. ResultOf(results[i], m, u)
    BY <2>3, CompleteResults
  <2>5. m = n /\ u = t
    BY <2>1, <2>2, <2>4 DEF ResultOf
  <2> QED
    BY <2>2, <2>3, <2>5
<1>2. ASSUME NEW k \in DOMAIN results[Place(n, t)].events
      PROVE  \E j \in OfTrial(Model, <<n, t>>) : ledger[j] = results[Place(n, t)].events[k]
  <2>1. Place(n, t) \in DOMAIN results /\ ResultOf(results[Place(n, t)], n, t)
    BY CompleteResults, PlaceFacts
  <2>2. PICK j \in InLedger(Model) : ledger[j] = results[Place(n, t)].events[k]
    BY <2>1 DEF Complete
  <2>3. ledger[j].id[2] = n /\ ledger[j].id[3] = t
    BY <2>1, <2>2 DEF ResultOf
  <2> QED
    BY <2>2, <2>3 DEF OfTrial
<1> QED
  BY <1>1, <1>2

\* The ledger says of a trial what its result says.
LEMMA LedgerTellsResults ==
  ASSUME Complete, NEW n \in 1 .. NTasks, NEW t \in 0 .. Trials - 1
  PROVE  /\ <<n, t>> \in AllTrials
         /\ <<n, t>> \in Passed(Model) <=> results[Place(n, t)].success
         /\ <<n, t>> \in Ended(Model) <=> ~ results[Place(n, t)].errored
<1>1. ResultOf(results[Place(n, t)], n, t)
  BY CompleteResults
<1>2. <<n, t>> \in AllTrials
  BY DEF AllTrials
<1>3. <<n, t>> \in Passed(Model) <=> \E j \in OfTrial(Model, <<n, t>>) : ledger[j].matched
  BY DEF Passed, TrialsOf, OfTrial
<1>4. <<n, t>> \in Ended(Model) <=> \E j \in OfTrial(Model, <<n, t>>) : ledger[j].decision = "ALLOW"
  BY DEF Ended, TrialsOf, OfTrial
<1>5. <<n, t>> \in Passed(Model) <=> \E k \in DOMAIN results[Place(n, t)].events :
                                         results[Place(n, t)].events[k].matched
  BY <1>3, EventOfItsTrial
<1>6. <<n, t>> \in Ended(Model) <=> \E k \in DOMAIN results[Place(n, t)].events :
                                         results[Place(n, t)].events[k].decision = "ALLOW"
  BY <1>4, EventOfItsTrial
<1> QED
  BY <1>1, <1>2, <1>5, <1>6 DEF ResultOf

------------------------------------------------------------------------------
LEMMA SameCount ==
  ASSUME NEW S, NEW T, IsFiniteSet(T), NEW f \in [S -> T],
         \A x, y \in S : f[x] = f[y] => x = y,
         \A z \in T : \E x \in S : f[x] = z
  PROVE  IsFiniteSet(S) /\ Cardinality(S) = Cardinality(T)
<1>1. f \in Injection(S, T) /\ f \in Surjection(S, T)
  BY DEF Injection, Surjection, IsInjective
<1> QED
  BY <1>1, FS_Injection

\* The trials at some places are as many as the places.
LEMMA TrialsCount ==
  ASSUME NEW trials, trials \subseteq AllTrials, NEW places, places \subseteq 1 .. NTasks * Trials,
         \A n \in 1 .. NTasks, t \in 0 .. Trials - 1 : <<n, t>> \in trials <=> Place(n, t) \in places
  PROVE  IsFiniteSet(trials) /\ Cardinality(trials) = Cardinality(places)
<1> DEFINE f == [x \in trials |-> Place(x[1], x[2])]
<1>1. \A x \in trials : /\ x[1] \in 1 .. NTasks /\ x[2] \in 0 .. Trials - 1
                        /\ x = <<x[1], x[2]>>
  BY DEF AllTrials
<1>2. f \in [trials -> places]
  BY <1>1
<1>3. \A x, y \in trials : f[x] = f[y] => x = y
  <2> TAKE x, y \in trials
  <2>1. f[x] = Place(x[1], x[2]) /\ f[y] = Place(y[1], y[2])
    OBVIOUS
  <2> QED
    BY <1>1, <2>1, PlaceFacts
<1>4. \A i \in places : \E x \in trials : f[x] = i
  <2> TAKE i \in places
  <2>1. PICK n \in 1 .. NTasks, t \in 0 .. Trials - 1 : i = Place(n, t)
    BY PlaceFacts
  <2>2. <<n, t>> \in trials /\ f[<<n, t>>] = i
    BY <2>1
  <2> QED
    BY <2>2
<1>5. IsFiniteSet(places)
  <2>1. IsFiniteSet(1 .. NTasks * Trials)
    BY PlaceFacts, FS_Interval
  <2> QED
    BY <2>1, FS_Subset
<1> HIDE DEF f
<1> QED
  BY <1>2, <1>3, <1>4, <1>5, SameCount

LEMMA AllTrialsCount == IsFiniteSet(AllTrials) /\ Cardinality(AllTrials) = NTasks * Trials
<1> DEFINE places == 1 .. NTasks * Trials
<1>1. \A n \in 1 .. NTasks, t \in 0 .. Trials - 1 : <<n, t>> \in AllTrials /\ Place(n, t) \in places
  BY PlaceFacts DEF AllTrials
<1>2. Cardinality(places) = NTasks * Trials
  BY PlaceFacts, FS_Interval
<1>3. places \subseteq 1 .. NTasks * Trials
  OBVIOUS
<1> HIDE DEF places
<1> QED
  BY <1>1, <1>2, <1>3, TrialsCount

------------------------------------------------------------------------------
\* What summarize_suite() groups by task: the trials of each task, in order.
LEMMA MatrixIs ==
  ASSUME Complete
  PROVE  PerTask(results) =
            [n \in 1 .. NTasks |-> [t \in 1 .. Trials |-> results[Place(n, t - 1)].success]]
<1> DEFINE N == NTasks * Trials
           won == [i \in DOMAIN results |-> results[i].success]
           mask(n) == [i \in DOMAIN results |-> results[i].task = n]
<1>0. NTasks \in Nat \ {0} /\ Trials \in Nat \ {0} /\ N \in Nat \ {0}
      /\ DOMAIN results = 1 .. N
  BY PlaceFacts, CompleteResults
<1>1. \A n \in 1 .. NTasks, t \in 0 .. Trials - 1 : Place(n, t) \in 1 .. N /\ results[Place(n, t)].task = n
  BY PlaceFacts, CompleteResults DEF ResultOf
<1>2. {results[i].task : i \in DOMAIN results} = 1 .. NTasks
  <2>1. \A i \in 1 .. N : results[i].task \in 1 .. NTasks
    BY <1>1, PlaceFacts
  <2>2. \A n \in 1 .. NTasks : \E i \in 1 .. N : results[i].task = n
    <3> TAKE n \in 1 .. NTasks
    <3>1. 0 \in 0 .. Trials - 1
      BY <1>0
    <3> QED
      BY <1>1, <3>1
  <2> QED
    BY <1>0, <2>1, <2>2
<1>3. ASSUME NEW n \in 1 .. NTasks
      PROVE  Masked(won, mask(n)) = [t \in 1 .. Trials |-> results[Place(n, t - 1)].success]
  <2> DEFINE a == (n - 1) * Trials
             m == mask(n)
  <2>1. a \in Nat /\ a + Trials <= N
    BY <1>0, Times
  <2>2. m \in [1 .. N -> BOOLEAN] /\ \A i \in 1 .. N : m[i] <=> results[i].task = n
    BY <1>0
  <2>3. ASSUME NEW i \in 1 .. N
        PROVE  results[i].task = n <=> a < i /\ i <= a + Trials
    <3>1. PICK k \in 1 .. NTasks, u \in 0 .. Trials - 1 : i = Place(k, u)
      BY PlaceFacts
    <3>2. results[i].task = k
      BY <1>1, <3>1
    <3>3. ASSUME k = n PROVE a < i /\ i <= a + Trials
      BY <1>0, <2>1, <3>1, <3>3 DEF Place
    <3>4. ASSUME a < i, i <= a + Trials PROVE k = n
      <4>1. i - 1 - a \in 0 .. Trials - 1 /\ i = Place(n, i - 1 - a)
        BY <1>0, <2>1, <3>4 DEF Place
      <4> QED
        BY <3>1, <4>1, PlaceFacts
    <3> QED
      BY <3>2, <3>3, <3>4
  <2>4. \A i \in 1 .. N : m[i] <=> a < i /\ i <= a + Trials
    BY <2>2, <2>3
  <2> HIDE DEF m, a, N
  <2>5. Masked(won, m) = Block(won, a, Trials)
    <3>1. N \in Nat /\ a \in Nat /\ Trials \in Nat /\ KeepsBlock(m, N, a, Trials)
      BY <1>0, <2>1, <2>2, <2>4 DEF KeepsBlock
    <3> HIDE DEF won
    <3> QED
      BY <3>1, BlockMasked
  <2>6. ASSUME NEW t \in 1 .. Trials
        PROVE  won[a + t] = results[Place(n, t - 1)].success
    <3>1. a + t = Place(n, t - 1)
      BY <1>0, <2>1 DEF Place, a
    <3>2. t - 1 \in 0 .. Trials - 1
      BY <1>0
    <3>3. a + t \in DOMAIN results
      BY <1>0, <1>1, <3>1, <3>2
    <3> QED
      BY <3>1, <3>3
  <2> HIDE DEF won
  <2> QED
    BY <2>5, <2>6 DEF Block, m
<1>4. PerTask(results) = [n \in 1 .. NTasks |-> Masked(won, mask(n))]
  BY <1>2 DEF PerTask
<1> HIDE DEF won, mask
<1> QED
  BY <1>3, <1>4

------------------------------------------------------------------------------
\* A place of a task's list is a trial that passed or not.
LEMMA MatrixTells ==
  ASSUME Complete
  PROVE  LET matrix == PerTask(results) IN
         /\ DOMAIN matrix = 1 .. NTasks
         /\ \A n \in 1 .. NTasks :
              /\ DOMAIN matrix[n] = 1 .. Trials /\ Len(matrix[n]) = Trials
              /\ \A t \in 1 .. Trials : /\ matrix[n][t] <=> <<n, t - 1>> \in Passed(Model)
                                        /\ t - 1 \in 0 .. Trials - 1
              /\ \A t \in 0 .. Trials - 1 : /\ t + 1 \in 1 .. Trials
                                            /\ matrix[n][t + 1] <=> <<n, t>> \in Passed(Model)
<1> DEFINE matrix == PerTask(results)
           task(n) == [t \in 1 .. Trials |-> results[Place(n, t - 1)].success]
<1>1. matrix = [n \in 1 .. NTasks |-> task(n)] /\ Trials \in Nat \ {0}
  BY MatrixIs, PlaceFacts
<1> HIDE DEF matrix
<1>2. ASSUME NEW n \in 1 .. NTasks
      PROVE  /\ DOMAIN matrix[n] = 1 .. Trials /\ Len(matrix[n]) = Trials
             /\ \A t \in 1 .. Trials : /\ matrix[n][t] <=> <<n, t - 1>> \in Passed(Model)
                                       /\ t - 1 \in 0 .. Trials - 1
             /\ \A t \in 0 .. Trials - 1 : /\ t + 1 \in 1 .. Trials
                                           /\ matrix[n][t + 1] <=> <<n, t>> \in Passed(Model)
  <2>1. matrix[n] = task(n)
    BY <1>1
  <2>2. DOMAIN task(n) = 1 .. Trials /\ Len(task(n)) = Trials
    BY <1>1
  <2>3. ASSUME NEW t \in 1 .. Trials
        PROVE  /\ matrix[n][t] <=> <<n, t - 1>> \in Passed(Model)
               /\ t - 1 \in 0 .. Trials - 1
    <3>1. t - 1 \in 0 .. Trials - 1
      BY <1>1
    <3>2. matrix[n][t] = results[Place(n, t - 1)].success
      BY <2>1
    <3> QED
      BY <3>1, <3>2, LedgerTellsResults
  <2>4. ASSUME NEW t \in 0 .. Trials - 1
        PROVE  t + 1 \in 1 .. Trials /\ (matrix[n][t + 1] <=> <<n, t>> \in Passed(Model))
    <3>1. t + 1 \in 1 .. Trials /\ t + 1 - 1 = t
      BY <1>1
    <3>2. matrix[n][t + 1] <=> <<n, t + 1 - 1>> \in Passed(Model)
      BY <2>3, <3>1
    <3> QED
      BY <3>1, <3>2
  <2> QED
    BY <2>1, <2>2, <2>3, <2>4
<1>3. DOMAIN matrix = 1 .. NTasks
  BY <1>1
<1> QED
  BY <1>2, <1>3 DEF matrix

LEMMA PassedTrials ==
  ASSUME Complete, NEW x \in Passed(Model)
  PROVE  x[1] \in 1 .. NTasks /\ x[2] \in 0 .. Trials - 1 /\ x = <<x[1], x[2]>>
<1>1. PICK j \in InLedger(Model) : x = <<ledger[j].id[2], ledger[j].id[3]>>
  BY DEF Passed, TrialsOf
<1>2. PICK i \in DOMAIN results : \E k \in DOMAIN results[i].events : ledger[j] = results[i].events[k]
  BY DEF Complete
<1>3. PICK n \in 1 .. NTasks, t \in 0 .. Trials - 1 : i = Place(n, t)
  BY <1>2, CompleteResults, PlaceFacts
<1>4. ResultOf(results[i], n, t)
  BY <1>3, CompleteResults
<1>5. x = <<n, t>>
  BY <1>1, <1>2, <1>4 DEF ResultOf
<1> QED
  BY <1>3, <1>5

\* The passes of summarize_suite() are those of the ledger.
LEMMA PassesAgree ==
  ASSUME Complete
  PROVE  LET summary == Summary(results)
             passed  == Passed(Model)
         IN /\ summary.pass_at_1 = Cardinality({x \in passed : x[2] = 0})
            /\ summary.pass_at_k = Cardinality({x[1] : x \in passed})
            /\ summary.pass_k =
                 Cardinality({n \in 1 .. NTasks : {n} \X (0 .. Trials - 1) \subseteq passed})
<1> DEFINE matrix == PerTask(results)
           passed == Passed(Model)
           first == {n \in 1 .. NTasks : PassesWithin(matrix, n, 1)}
           atZero == {x \in passed : x[2] = 0}
<1>0. NTasks \in Nat \ {0} /\ Trials \in Nat \ {0} /\ Len(results) = NTasks * Trials
  BY PlaceFacts DEF Complete
<1>1. DOMAIN matrix = 1 .. NTasks
  BY MatrixTells
<1>2. \A n \in 1 .. NTasks :
        /\ DOMAIN matrix[n] = 1 .. Trials /\ Len(matrix[n]) = Trials
        /\ \A t \in 1 .. Trials : /\ matrix[n][t] <=> <<n, t - 1>> \in passed
                                  /\ t - 1 \in 0 .. Trials - 1
        /\ \A t \in 0 .. Trials - 1 : /\ t + 1 \in 1 .. Trials
                                      /\ matrix[n][t + 1] <=> <<n, t>> \in passed
  BY MatrixTells
<1>3. Len(results) \div Cardinality(DOMAIN matrix) = Trials
  <2>1. Cardinality(1 .. NTasks) = NTasks
    BY <1>0, FS_Interval
  <2>2. (Trials * NTasks + 0) \div NTasks = Trials
    <3>1. 0 \in 0 .. NTasks - 1
      BY <1>0
    <3> QED
      BY <1>0, <3>1, Division
  <2>3. Trials * NTasks + 0 = NTasks * Trials
    BY <1>0
  <2> QED
    BY <1>0, <1>1, <2>1, <2>2, <2>3
<1>4. \A x \in passed : x[1] \in 1 .. NTasks /\ x[2] \in 0 .. Trials - 1 /\ x = <<x[1], x[2]>>
  BY PassedTrials
<1>5. Summary(results).pass_at_1 = PassAtK(matrix, 1)
      /\ Summary(results).pass_at_k = PassAtK(matrix, Trials)
      /\ Summary(results).pass_k = PassK(matrix, Trials)
  BY <1>3 DEF Summary
<1> HIDE DEF matrix, passed
<1>6. Cardinality(atZero) = Cardinality(first)
  <2> DEFINE f == [x \in atZero |-> x[1]]
  <2>1. \A n \in 1 .. NTasks : n \in first <=> <<n, 0>> \in passed
    <3> TAKE n \in 1 .. NTasks
    <3>1. 0 \in 0 .. Trials - 1 /\ 0 + 1 = 1
      BY <1>0
    <3>2. 1 \in 1 .. Trials /\ (matrix[n][1] <=> <<n, 0>> \in passed)
      BY <1>2, <3>1
    <3>3. PassesWithin(matrix, n, 1) <=> matrix[n][1]
      BY <1>2, <3>2 DEF PassesWithin
    <3> QED
      BY <3>2, <3>3
  <2>2. f \in [atZero -> first]
    BY <1>4, <2>1
  <2>3. \A x, y \in atZero : f[x] = f[y] => x = y
    BY <1>4
  <2>4. \A n \in first : \E x \in atZero : f[x] = n
    <3> TAKE n \in first
    <3>1. <<n, 0>> \in atZero /\ f[<<n, 0>>] = n
      BY <2>1
    <3> QED
      BY <3>1
  <2>5. IsFiniteSet(first)
    <3>1. first \subseteq 1 .. NTasks
      OBVIOUS
    <3>2. IsFiniteSet(1 .. NTasks)
      BY <1>0, FS_Interval
    <3> QED
      BY <3>1, <3>2, FS_Subset
  <2> HIDE DEF f, atZero, first
  <2> QED
    BY <2>2, <2>3, <2>4, <2>5, SameCount
<1>7. PassAtK(matrix, 1) = Cardinality(first)
  BY <1>1 DEF PassAtK
<1>8. PassAtK(matrix, Trials) = Cardinality({x[1] : x \in passed})
  <2>1. ASSUME NEW n \in 1 .. NTasks
        PROVE  PassesWithin(matrix, n, Trials) <=> n \in {x[1] : x \in passed}
    <3>1. ASSUME PassesWithin(matrix, n, Trials) PROVE n \in {x[1] : x \in passed}
      <4>1. PICK t \in 1 .. Trials : matrix[n][t]
        BY <1>2, <3>1 DEF PassesWithin
      <4>2. <<n, t - 1>> \in passed /\ <<n, t - 1>>[1] = n
        BY <1>2, <4>1
      <4> QED
        BY <4>2
    <3>2. ASSUME NEW x \in passed, x[1] = n PROVE PassesWithin(matrix, n, Trials)
      <4>1. x[2] \in 0 .. Trials - 1 /\ <<n, x[2]>> \in passed
        BY <1>4, <3>2
      <4>2. x[2] + 1 \in 1 .. Trials /\ matrix[n][x[2] + 1] /\ x[2] + 1 <= Trials
        BY <1>0, <1>2, <4>1
      <4> QED
        BY <1>2, <4>2 DEF PassesWithin
    <3> QED
      BY <3>1, <3>2
  <2>2. {n \in DOMAIN matrix : PassesWithin(matrix, n, Trials)} = {x[1] : x \in passed}
    BY <1>1, <1>4, <2>1
  <2> QED
    BY <2>2 DEF PassAtK
<1>9. PassK(matrix, Trials) =
        Cardinality({n \in 1 .. NTasks : {n} \X (0 .. Trials - 1) \subseteq passed})
  <2>1. ASSUME NEW n \in 1 .. NTasks
        PROVE  (Len(matrix[n]) >= Trials /\ \A i \in 1 .. Trials : matrix[n][i])
                 <=> {n} \X (0 .. Trials - 1) \subseteq passed
    <3>1. Len(matrix[n]) >= Trials
      BY <1>0, <1>2
    <3>2. ASSUME \A i \in 1 .. Trials : matrix[n][i]
          PROVE  {n} \X (0 .. Trials - 1) \subseteq passed
      <4>1. \A t \in 0 .. Trials - 1 : <<n, t>> \in passed
        BY <1>2, <3>2
      <4> QED
        BY <4>1
    <3>3. ASSUME {n} \X (0 .. Trials - 1) \subseteq passed
          PROVE  \A i \in 1 .. Trials : matrix[n][i]
      <4>1. \A i \in 1 .. Trials : <<n, i - 1>> \in passed
        BY <1>2, <3>3
      <4> QED
        BY <1>2, <4>1
    <3> QED
      BY <3>1, <3>2, <3>3
  <2>2. {n \in DOMAIN matrix : Len(matrix[n]) >= Trials /\ \A i \in 1 .. Trials : matrix[n][i]}
          = {n \in 1 .. NTasks : {n} \X (0 .. Trials - 1) \subseteq passed}
    BY <1>1, <2>1
  <2> QED
    BY <2>2 DEF PassK
<1> QED
  BY <1>5, <1>6, <1>7, <1>8, <1>9 DEF passed

\* sum(r.errored for r in results) counts the trials that did not end.
LEMMA ErrorsAgree ==
  ASSUME Complete
  PROVE  Summary(results).errors = Cardinality(AllTrials \ Ended(Model))
<1> DEFINE N == NTasks * Trials
           mask == [i \in DOMAIN results |-> results[i].errored]
           places == {i \in 1 .. N : mask[i]}
           trials == AllTrials \ Ended(Model)
<1>1. N \in Nat /\ DOMAIN results = 1 .. N
  BY PlaceFacts, CompleteResults
<1>2. mask \in [1 .. N -> BOOLEAN]
  BY <1>1, CompleteResults
<1>3. \A n \in 1 .. NTasks, t \in 0 .. Trials - 1 : <<n, t>> \in trials <=> Place(n, t) \in places
  <2> TAKE n \in 1 .. NTasks, t \in 0 .. Trials - 1
  <2>1. Place(n, t) \in 1 .. N
    BY PlaceFacts
  <2> QED
    BY <1>1, <2>1, LedgerTellsResults
<1>4. Summary(results).errors = Count(mask)
  BY DEF Summary
<1>5. Count(mask) = Cardinality(places)
  <2> HIDE DEF mask, N
  <2> QED
    BY <1>1, <1>2, CountIsCardinality
<1>6. trials \subseteq AllTrials /\ places \subseteq 1 .. NTasks * Trials
  OBVIOUS
<1> HIDE DEF trials, places
<1>7. Cardinality(trials) = Cardinality(places)
  BY <1>3, <1>6, TrialsCount
<1> QED
  BY <1>4, <1>5, <1>7 DEF trials

------------------------------------------------------------------------------
\* What each result costs when it failed.
Losses == [i \in DOMAIN results |-> IF ~ results[i].success THEN SeverityOfResult[i] ELSE 0]

LEMMA LossesAre ==
  ASSUME Complete
  PROVE  /\ Loss = Total(Losses) /\ Losses \in Seq(Nat) /\ Len(Losses) = NTasks * Trials
         /\ \A n \in 1 .. NTasks : TaskCosts[n] \in Nat
         /\ \A n \in 1 .. NTasks, t \in 0 .. Trials - 1 :
              Losses[Place(n, t)] = IF <<n, t>> \in AllTrials \ Passed(Model) THEN TaskCosts[n] ELSE 0
<1> DEFINE N == NTasks * Trials
<1>1. N \in Nat /\ DOMAIN results = 1 .. N
  BY PlaceFacts, CompleteResults
<1>2. \A n \in 1 .. NTasks : TaskCosts[n] \in Nat
  BY RunAssumption DEF NTasks
<1>3. Loss = Total(Losses)
  BY DEF Loss, SeverityLoss, Losses
<1>4. ASSUME NEW n \in 1 .. NTasks, NEW t \in 0 .. Trials - 1
      PROVE  /\ Losses[Place(n, t)] = IF <<n, t>> \in AllTrials \ Passed(Model) THEN TaskCosts[n] ELSE 0
             /\ Losses[Place(n, t)] \in Nat
  <2>1. Place(n, t) \in DOMAIN results /\ (Place(n, t) - 1) \div Trials + 1 = n
    BY <1>1, PlaceFacts
  <2>2. SeverityOfResult[Place(n, t)] = TaskCosts[n]
    BY <2>1 DEF SeverityOfResult
  <2>3. Losses[Place(n, t)] = IF ~ results[Place(n, t)].success THEN TaskCosts[n] ELSE 0
    BY <2>1, <2>2 DEF Losses
  <2> QED
    BY <1>2, <2>3, LedgerTellsResults
<1>5. ASSUME NEW i \in 1 .. N
      PROVE  Losses[i] \in Nat
  <2>1. PICK n \in 1 .. NTasks, t \in 0 .. Trials - 1 : i = Place(n, t)
    BY PlaceFacts
  <2> QED
    BY <1>4, <2>1
<1>6. Losses \in [1 .. N -> Nat]
  BY <1>1, <1>5 DEF Losses
<1>7. Losses \in Seq(Nat) /\ Len(Losses) = N
  <2> HIDE DEF N
  <2> QED
    BY <1>1, <1>6
<1> QED
  BY <1>2, <1>3, <1>4, <1>7

\* Of the trials, those of task n with a number below t.
Below(trials, n, t) == {x \in trials : x[1] = n /\ x[2] < t}

LEMMA BelowOneMore ==
  ASSUME NEW trials, trials \subseteq AllTrials, NEW n \in 1 .. NTasks, NEW t \in 0 .. Trials - 1
  PROVE  /\ Cardinality(Below(trials, n, t)) \in Nat
         /\ Cardinality(Below(trials, n, t + 1)) =
              Cardinality(Below(trials, n, t)) + (IF <<n, t>> \in trials THEN 1 ELSE 0)
<1> DEFINE below == Below(trials, n, t)
<1>0. /\ Trials \in Nat
      /\ \A x \in trials : x[1] \in 1 .. NTasks /\ x[2] \in 0 .. Trials - 1 /\ x = <<x[1], x[2]>>
  <2>1. Trials \in Nat
    BY PlaceFacts
  <2>2. \A x \in AllTrials : x[1] \in 1 .. NTasks /\ x[2] \in 0 .. Trials - 1
                            /\ x = <<x[1], x[2]>>
    BY DEF AllTrials
  <2> QED
    BY <2>1, <2>2
<1>1. IsFiniteSet(below)
  <2>1. below \subseteq AllTrials
    BY DEF Below
  <2> QED
    BY <2>1, AllTrialsCount, FS_Subset
<1>2. <<n, t>> \notin below
  BY <1>0 DEF Below
<1>3. CASE <<n, t>> \in trials
  <2>1. Below(trials, n, t + 1) = below \union {<<n, t>>}
    BY <1>0, <1>3 DEF Below
  <2> HIDE DEF below
  <2> QED
    BY <1>1, <1>2, <1>3, <2>1, FS_AddElement, FS_CardinalityType DEF below
<1>4. CASE <<n, t>> \notin trials
  <2>1. Below(trials, n, t + 1) = below
    BY <1>0, <1>4 DEF Below
  <2> HIDE DEF below
  <2> QED
    BY <1>1, <1>4, <2>1, FS_CardinalityType DEF below
<1> QED
  BY <1>3, <1>4

\* The losses of one task's trials add up to its K for each of those that failed.
LEMMA LossOfTask ==
  ASSUME Complete, NEW n \in 1 .. NTasks
  PROVE  LET lost == AllTrials \ Passed(Model)
             sums == Sums(Losses)
         IN sums[n * Trials] = sums[(n - 1) * Trials]
                                 + TaskCosts[n] * Cardinality({x \in lost : x[1] = n})
<1> DEFINE lost == AllTrials \ Passed(Model)
           sums == Sums(Losses)
           a == (n - 1) * Trials
           count(t) == Cardinality(Below(lost, n, t))
           good == {t \in 0 .. Trials : sums[a + t] = sums[a] + TaskCosts[n] * count(t)}
<1>1. /\ NTasks \in Nat \ {0} /\ Trials \in Nat \ {0} /\ a \in Nat /\ a + Trials <= NTasks * Trials
      /\ a + Trials = n * Trials /\ NTasks * Trials \in Nat
  <2>1. NTasks \in Nat \ {0} /\ Trials \in Nat \ {0} /\ NTasks * Trials \in Nat
    BY PlaceFacts
  <2>2. a \in Nat /\ a + Trials <= NTasks * Trials
    BY <2>1, Times
  <2> QED
    BY <2>1, <2>2
<1>2. /\ sums \in [0 .. NTasks * Trials -> Nat]
      /\ \A k \in 1 .. NTasks * Trials : sums[k] = sums[k - 1] + Losses[k]
  BY LossesAre, SumsAre
<1>3. lost \subseteq AllTrials
  OBVIOUS
<1>4. TaskCosts[n] \in Nat
  BY LossesAre
<1>5. \A t \in 0 .. Trials - 1 : Losses[Place(n, t)] = IF <<n, t>> \in lost THEN TaskCosts[n] ELSE 0
  BY LossesAre
<1> HIDE DEF lost, sums, a
<1>6. 0 \in good
  <2>1. Below(lost, n, 0) = {}
    BY <1>3 DEF Below, AllTrials
  <2>2. count(0) = 0
    BY <2>1, FS_EmptySet
  <2>3. sums[a] \in Nat
    BY <1>1, <1>2
  <2> QED
    BY <1>1, <1>4, <2>2, <2>3
<1>7. ASSUME NEW t \in 1 .. Trials, t - 1 \in good
      PROVE  t \in good
  <2> DEFINE u == t - 1
  <2>1. u \in 0 .. Trials - 1 /\ u + 1 = t
    BY <1>1
  <2>2. a + t = Place(n, u) /\ a + t \in 1 .. NTasks * Trials /\ (a + t) - 1 = a + u
    BY <1>1, <2>1 DEF Place, a
  <2>3. sums[a + u] = sums[a] + TaskCosts[n] * count(u)
    BY <1>7
  <2> HIDE DEF u
  <2>4. sums[a + t] = sums[a + u] + (IF <<n, u>> \in lost THEN TaskCosts[n] ELSE 0)
    <3> DEFINE p == Place(n, u)
    <3>1. p = a + t /\ p - 1 = a + u /\ p \in 1 .. NTasks * Trials
      BY <2>2
    <3>2. Losses[p] = IF <<n, u>> \in lost THEN TaskCosts[n] ELSE 0
      BY <1>5, <2>1
    <3> HIDE DEF p
    <3>3. sums[p] = sums[p - 1] + Losses[p]
      BY <1>2, <3>1
    <3>4. sums[p] = sums[a + u] + Losses[p]
      BY <3>1, <3>3
    <3> QED
      BY <3>1, <3>2, <3>4
  <2>5. count(u) \in Nat /\ count(t) = count(u) + (IF <<n, u>> \in lost THEN 1 ELSE 0)
    BY <1>3, <2>1, BelowOneMore
  <2>6. sums[a] \in Nat
    BY <1>1, <1>2
  <2> HIDE DEF count
  <2>7. TaskCosts[n] * (count(u) + 1) = TaskCosts[n] * count(u) + TaskCosts[n]
        /\ TaskCosts[n] * count(u) \in Nat
    BY <1>4, <2>5
  <2>8. sums[a + t] = sums[a] + TaskCosts[n] * count(t)
    BY <1>4, <2>3, <2>4, <2>5, <2>6, <2>7
  <2> QED
    BY <2>8
<1>8. \A t \in 0 .. Trials : t \in good
  <2>1. Trials \in Nat
    BY <1>1
  <2> HIDE DEF good
  <2> QED
    BY <1>6, <1>7, <2>1, UpTo
<1>9. sums[a + Trials] = sums[a] + TaskCosts[n] * count(Trials)
  <2>1. Trials \in 0 .. Trials
    BY <1>1
  <2> QED
    BY <1>8, <2>1
<1>10. Below(lost, n, Trials) = {x \in lost : x[1] = n}
  BY <1>1, <1>3 DEF Below, AllTrials
<1> QED
  BY <1>1, <1>9, <1>10 DEF sums, lost, a

\* The loss of a row is K of each task for as many of its trials as failed.
LEMMA LossAgrees ==
  ASSUME Complete
  PROVE  Loss = LossOf(AllTrials \ Passed(Model))
<1> DEFINE lost == AllTrials \ Passed(Model)
           K == [n \in 1 .. NTasks |-> TaskCosts[n] * Cardinality({x \in lost : x[1] = n})]
           sums == Sums(Losses)
           kums == Sums(K)
           good == {n \in 0 .. NTasks : sums[n * Trials] = kums[n]}
<1>1. NTasks \in Nat \ {0} /\ Trials \in Nat \ {0}
  BY PlaceFacts
<1>2. Loss = Total(Losses) /\ Losses \in Seq(Nat) /\ Len(Losses) = NTasks * Trials
      /\ \A n \in 1 .. NTasks : TaskCosts[n] \in Nat
  BY LossesAre
<1>3. K \in Seq(Nat) /\ Len(K) = NTasks
  <2>1. ASSUME NEW n \in 1 .. NTasks
        PROVE  TaskCosts[n] * Cardinality({x \in lost : x[1] = n}) \in Nat
    <3> DEFINE own == {x \in lost : x[1] = n}
    <3>1. own \subseteq AllTrials
      OBVIOUS
    <3> HIDE DEF own
    <3>2. Cardinality(own) \in Nat
      BY <3>1, AllTrialsCount, FS_Subset, FS_CardinalityType
    <3> QED
      BY <1>2, <3>2 DEF own
  <2>2. K \in [1 .. NTasks -> Nat]
    BY <2>1
  <2> HIDE DEF K
  <2> QED
    BY <1>1, <2>2
<1>4. \A n \in 1 .. NTasks : K[n] = TaskCosts[n] * Cardinality({x \in lost : x[1] = n})
  OBVIOUS
<1>5. \A n \in 1 .. NTasks : sums[n * Trials] = sums[(n - 1) * Trials] + K[n]
  BY <1>4, LossOfTask
<1>6. LossOf(lost) = Total(K)
  BY DEF LossOf
<1> HIDE DEF K, lost
<1>7. kums[0] = 0 /\ \A n \in 1 .. NTasks : kums[n] = kums[n - 1] + K[n]
  BY <1>3, SumsAre
<1>8. sums[0] = 0
  BY <1>2, SumsAre
<1> HIDE DEF sums, kums
<1>9. 0 \in good
  BY <1>1, <1>7, <1>8
<1>10. \A n \in 1 .. NTasks : n - 1 \in good => n \in good
  BY <1>1, <1>5, <1>7
<1>11. \A n \in 0 .. NTasks : n \in good
  <2> HIDE DEF good
  <2> QED
    BY <1>1, <1>9, <1>10, UpTo
<1>12. sums[NTasks * Trials] = kums[NTasks]
  BY <1>1, <1>11
<1> QED
  BY <1>2, <1>3, <1>6, <1>12 DEF Total, sums, kums, lost

------------------------------------------------------------------------------
\* What the events of a ledger that are of model m cost.
OwnCosts(events, m) == [j \in DOMAIN events |-> IF events[j].id[1] = m THEN events[j].cost ELSE 0]

LEMMA OwnCostsTypes ==
  ASSUME NEW events \in Seq(Events), NEW m
  PROVE  /\ OwnCosts(events, m) \in Seq(Nat) /\ Len(OwnCosts(events, m)) = Len(events)
         /\ DOMAIN events = 1 .. Len(events) /\ Len(events) \in Nat
         /\ \A j \in 1 .. Len(events) :
              OwnCosts(events, m)[j] = IF events[j].id[1] = m THEN events[j].cost ELSE 0
<1>1. \A e \in Events : e.cost \in Nat
  BY DEF Events
<1> HIDE DEF Events
<1>2. DOMAIN events = 1 .. Len(events) /\ Len(events) \in Nat
      /\ \A j \in 1 .. Len(events) : events[j] \in Events
  OBVIOUS
<1>3. \A j \in 1 .. Len(events) :
        OwnCosts(events, m)[j] = IF events[j].id[1] = m THEN events[j].cost ELSE 0
  BY <1>2 DEF OwnCosts
<1>4. OwnCosts(events, m) \in [1 .. Len(events) -> Nat]
  BY <1>1, <1>2 DEF OwnCosts
<1>5. OwnCosts(events, m) \in Seq(Nat) /\ Len(OwnCosts(events, m)) = Len(events)
  BY <1>2, <1>4
<1> QED
  BY <1>2, <1>3, <1>5

LEMMA CostInLedgerIs ==
  \A m : CostInLedger(m) = Total(OwnCosts(ledger, m))
<1> TAKE m
<1>1. \A j \in DOMAIN ledger : j \in InLedger(m) <=> ledger[j].id[1] = m
  BY DEF InLedger
<1>2. [j \in DOMAIN ledger |-> IF j \in InLedger(m) THEN ledger[j].cost ELSE 0]
        = OwnCosts(ledger, m)
  BY <1>1 DEF OwnCosts
<1> QED
  BY <1>2 DEF CostInLedger

LEMMA NothingCosts ==
  ASSUME NEW events \in Seq(Events), NEW m, \A j \in DOMAIN events : events[j].id[1] # m
  PROVE  Total(OwnCosts(events, m)) = 0
<1> DEFINE costs == OwnCosts(events, m)
           sums == Sums(costs)
           N == Len(events)
           good == {k \in 0 .. N : sums[k] = 0}
<1>1. costs \in Seq(Nat) /\ Len(costs) = N /\ N \in Nat /\ \A j \in 1 .. N : costs[j] = 0
  BY OwnCostsTypes
<1> HIDE DEF costs, N
<1>2. sums[0] = 0 /\ \A k \in 1 .. N : sums[k] = sums[k - 1] + costs[k]
  BY <1>1, SumsAre
<1> HIDE DEF sums
<1>3. 0 \in good
  BY <1>1, <1>2
<1>4. \A k \in 1 .. N : k - 1 \in good => k \in good
  BY <1>1, <1>2
<1>5. \A k \in 0 .. N : k \in good
  <2> HIDE DEF good
  <2> QED
    BY <1>1, <1>3, <1>4, UpTo
<1>6. sums[N] = 0
  BY <1>1, <1>5
<1> QED
  BY <1>1, <1>6 DEF Total, sums, costs, N

LEMMA OneMoreCosts ==
  ASSUME NEW events \in Seq(Events), NEW event \in Events, NEW m
  PROVE  /\ Total(OwnCosts(events, m)) \in Nat
         /\ Total(OwnCosts(Append(events, event), m)) =
              Total(OwnCosts(events, m)) + (IF event.id[1] = m THEN event.cost ELSE 0)
<1> DEFINE more == Append(events, event)
           costs == OwnCosts(events, m)
           price == IF event.id[1] = m THEN event.cost ELSE 0
           N == Len(events)
<1>1. price \in Nat
  BY DEF Events
<1>2. more \in Seq(Events) /\ Len(more) = N + 1 /\ more[N + 1] = event
      /\ \A j \in 1 .. N : more[j] = events[j]
  <2> HIDE DEF Events
  <2> QED
    OBVIOUS
<1> HIDE DEF more
<1>3. costs \in Seq(Nat) /\ Len(costs) = N /\ N \in Nat
      /\ \A j \in 1 .. N : costs[j] = IF events[j].id[1] = m THEN events[j].cost ELSE 0
  BY OwnCostsTypes
<1>4. OwnCosts(more, m) \in Seq(Nat) /\ Len(OwnCosts(more, m)) = N + 1
      /\ \A j \in 1 .. N + 1 :
           OwnCosts(more, m)[j] = IF more[j].id[1] = m THEN more[j].cost ELSE 0
  BY <1>2, OwnCostsTypes
<1> HIDE DEF costs, price, N
<1>5. ASSUME NEW j \in 1 .. N
      PROVE  OwnCosts(more, m)[j] = costs[j]
  <2>1. j \in 1 .. N + 1 /\ more[j] = events[j]
    BY <1>2, <1>3
  <2>2. OwnCosts(more, m)[j] = IF more[j].id[1] = m THEN more[j].cost ELSE 0
    BY <1>4, <2>1
  <2>3. costs[j] = IF events[j].id[1] = m THEN events[j].cost ELSE 0
    BY <1>3
  <2> QED
    BY <2>1, <2>2, <2>3
<1>6. OwnCosts(more, m)[N + 1] = price
  <2>1. N + 1 \in 1 .. N + 1 /\ more[N + 1] = event
    BY <1>2, <1>3
  <2>2. OwnCosts(more, m)[N + 1] = IF more[N + 1].id[1] = m THEN more[N + 1].cost ELSE 0
    BY <1>4, <2>1
  <2> QED
    BY <2>1, <2>2 DEF price
<1>7. OwnCosts(more, m) = Append(costs, price)
  <2> DEFINE a == OwnCosts(more, m)
             b == Append(costs, price)
  <2>1. a \in Seq(Nat) /\ Len(a) = N + 1 /\ a[N + 1] = price /\ \A j \in 1 .. N : a[j] = costs[j]
    BY <1>4, <1>5, <1>6
  <2>2. b \in Seq(Nat) /\ Len(b) = N + 1 /\ b[N + 1] = price /\ \A j \in 1 .. N : b[j] = costs[j]
    BY <1>1, <1>3
  <2> HIDE DEF a, b
  <2>3. \A j \in 1 .. N + 1 : a[j] = b[j]
    BY <1>3, <2>1, <2>2
  <2>4. a = b
    BY <2>1, <2>2, <2>3
  <2> QED
    BY <2>4 DEF a, b
<1>8. Total(Append(costs, price)) = Total(costs) + price /\ Total(costs) \in Nat
  BY <1>1, <1>3, TotalOfAppend
<1> QED
  BY <1>7, <1>8 DEF more, costs, price

------------------------------------------------------------------------------
LEMMA RowInit == Init => RowInv
<1> SUFFICES ASSUME Init PROVE RowInv
  OBVIOUS
<1>1. /\ phase = "step" /\ at.task = 1 /\ at.trial = 0 /\ episode = << >> /\ results = << >>
      /\ rows = << >>
  BY DEF Init, FirstTrial, StartOf
<1>2. NextTrial
  <2>1. Place(1, 0) = 1 /\ 1 \in 1 .. NTasks /\ 0 \in 0 .. Trials - 1
    BY PlaceFacts DEF Place
  <2>2. Len(results) = 0 /\ DOMAIN episode = {}
    BY <1>1
  <2> QED
    BY <1>1, <2>1, <2>2 DEF NextTrial
<1>3. InOrder
  BY <1>1 DEF InOrder
<1>4. RowsAreRegenerable
  BY <1>1 DEF RowsAreRegenerable
<1> QED
  BY <1>1, <1>2, <1>3, <1>4 DEF RowInv

\* The events of the trial that runs: only the last may have ended it, with a
\* match or without.
EndsWith(events, errored) ==
    /\ \A k \in DOMAIN events : k < Len(events) \/ errored =>
            ~ events[k].matched /\ events[k].decision = "VERIFY"
    /\ ~ errored => Len(events) > 0 /\ events[Len(events)].decision = "ALLOW"

LEMMA ResultIsOfTrial ==
  ASSUME LoopTypes, NEW events \in Seq(Events), EpisodeInv(events), NEW errored \in BOOLEAN,
         EndsWith(events, errored)
  PROVE  ResultOf(TrialResult(events, errored), at.task, at.trial)
<1> DEFINE r == TrialResult(events, errored)
           n == Len(events)
<1>1. r.task = at.task /\ r.events = events /\ r.cost = SumOfCosts(events) /\ r.errored = errored
      /\ r.success = (~ errored /\ Last(events).matched)
  BY DEF TrialResult
<1> HIDE DEF r
<1>2. n \in Nat /\ DOMAIN events = 1 .. n /\ Last(events) = events[n]
  BY DEF Last
<1>3. \A k \in DOMAIN events : events[k].id[2] = at.task /\ events[k].id[3] = at.trial
  BY DEF EpisodeInv
<1>4. /\ r.task = at.task /\ r.cost = SumOfCosts(r.events)
      /\ \A k \in DOMAIN r.events : r.events[k].id[2] = at.task /\ r.events[k].id[3] = at.trial
  BY <1>1, <1>3
<1>5. ASSUME errored PROVE ResultOf(r, at.task, at.trial)
  <2>1. \A k \in DOMAIN events : ~ events[k].matched /\ events[k].decision # "ALLOW"
    BY <1>5 DEF EndsWith
  <2>2. r.errored = TRUE /\ r.success = FALSE
    BY <1>1, <1>5
  <2>3. ~ \E k \in DOMAIN r.events : r.events[k].matched \/ r.events[k].decision = "ALLOW"
    BY <1>1, <2>1
  <2> QED
    BY <1>4, <2>2, <2>3 DEF ResultOf
<1>6. ASSUME ~ errored PROVE ResultOf(r, at.task, at.trial)
  <2>1. n \in DOMAIN events /\ events[n].decision = "ALLOW"
    BY <1>2, <1>6 DEF EndsWith
  <2>2. ASSUME NEW k \in DOMAIN events, events[k].matched
        PROVE  k = n
    <3>1. k <= n /\ k \in Nat
      BY <1>2
    <3>2. ~ (k < n)
      BY <2>2 DEF EndsWith
    <3> QED
      BY <1>2, <3>1, <3>2
  <2>3. r.success <=> \E k \in DOMAIN r.events : r.events[k].matched
    BY <1>1, <1>2, <1>6, <2>1, <2>2
  <2>4. r.errored = FALSE /\ \E k \in DOMAIN r.events : r.events[k].decision = "ALLOW"
    BY <1>1, <1>6, <2>1
  <2> QED
    BY <1>4, <2>3, <2>4 DEF ResultOf
<1> QED
  BY <1>5, <1>6 DEF r

\* A trial that ends takes its place, and the next one is due, or none is left.
LEMMA EndTrialKeepsOrder ==
  ASSUME LoopTypes, InTrial, NextTrial, InOrder, NEW events \in Seq(Events), EpisodeInv(events),
         NEW errored \in BOOLEAN, EndsWith(events, errored), EndTrial(events, errored)
  PROVE  /\ InOrder'
         /\ InTrial' => NextTrial'
         /\ phase' = "append" => Len(results') = NTasks * Trials
<1> DEFINE result == TrialResult(events, errored)
           n == Len(results) + 1
<1>0. /\ NTasks \in Nat \ {0} /\ Trials \in Nat \ {0}
      /\ at.task \in 1 .. NTasks /\ at.trial \in 0 .. Trials - 1 /\ n = Place(at.task, at.trial)
  BY PlaceFacts DEF NextTrial
<1>1. ResultOf(result, at.task, at.trial) /\ results' = Append(results, result)
  BY ResultIsOfTrial DEF EndTrial
<1> HIDE DEF result
<1>2. /\ Len(results) \in Nat /\ DOMAIN results = 1 .. Len(results)
      /\ Len(results') = n /\ DOMAIN results' = 1 .. n /\ results'[n] = result
      /\ \A i \in DOMAIN results : results'[i] = results[i]
  <2>1. PICK S : results \in Seq(S) /\ result \in S
    <3>1. results \in Seq(TrialResults \union {result})
      BY DEF LoopTypes
    <3> QED
      BY <3>1
  <2> QED
    BY <1>1, <2>1
<1> HIDE DEF n
<1>3. InOrder'
  <2> SUFFICES ASSUME NEW m \in 1 .. NTasks, NEW t \in 0 .. Trials - 1, Place(m, t) \in DOMAIN results'
               PROVE  ResultOf(results'[Place(m, t)], m, t)
    BY DEF InOrder, ResultOf
  <2>1. CASE Place(m, t) = n
    <3>1. m = at.task /\ t = at.trial
      <4>1. Place(m, t) = Place(at.task, at.trial)
        BY <1>0, <2>1
      <4>2. at.task \in 1 .. NTasks /\ at.trial \in 0 .. Trials - 1
        BY <1>0
      <4>3. \A k \in 1 .. NTasks, u \in 0 .. Trials - 1 : Place(m, t) = Place(k, u) => m = k /\ t = u
        BY PlaceFacts
      <4> QED
        BY <4>1, <4>2, <4>3
    <3> QED
      BY <1>1, <1>2, <2>1, <3>1
  <2>2. CASE Place(m, t) # n
    <3>1. Place(m, t) \in DOMAIN results
      BY <1>2, <2>2 DEF n
    <3> QED
      BY <1>2, <3>1 DEF InOrder
  <2> QED
    BY <2>1, <2>2
<1>4. CASE LastTrial
  <2>1. phase' = "append" /\ at.task = NTasks /\ at.trial = Trials - 1
    BY <1>4 DEF EndTrial, LastTrial
  <2>2. n = NTasks * Trials
    BY <1>0, <2>1 DEF Place
  <2> QED
    BY <1>2, <1>3, <2>1, <2>2 DEF InTrial
<1>5. CASE ~ LastTrial
  <2>1. phase' = "step" /\ episode' = << >>
    BY <1>5 DEF EndTrial
  <2>2. CASE at.trial < Trials - 1
    <3>1. at'.task = at.task /\ at'.trial = at.trial + 1
      BY <1>5, <2>2 DEF EndTrial, StartOf
    <3>2. Place(at.task, at.trial + 1) = n + 1 /\ at.trial + 1 \in 0 .. Trials - 1
      <4> DEFINE q == (at.task - 1) * Trials
      <4>1. q \in Nat
        BY <1>0
      <4>2. n = q + at.trial + 1 /\ Place(at.task, at.trial + 1) = q + (at.trial + 1) + 1
        BY <1>0 DEF Place
      <4> HIDE DEF q
      <4> QED
        BY <1>0, <2>2, <4>1, <4>2
    <3> QED
      BY <1>0, <1>2, <1>3, <2>1, <3>1, <3>2 DEF NextTrial
  <2>3. CASE ~ (at.trial < Trials - 1)
    <3>1. at'.task = at.task + 1 /\ at'.trial = 0
      BY <1>5, <2>3 DEF EndTrial, StartOf
    <3>2. at.trial = Trials - 1 /\ at.task + 1 \in 1 .. NTasks /\ 0 \in 0 .. Trials - 1
      BY <1>0, <1>5, <2>3 DEF LastTrial
    <3>3. Place(at.task + 1, 0) = n + 1
      <4>1. at.task * Trials = (at.task - 1) * Trials + Trials
        BY <1>0
      <4> QED
        BY <1>0, <3>2, <4>1 DEF Place
    <3> QED
      BY <1>0, <1>2, <1>3, <2>1, <3>1, <3>2, <3>3 DEF NextTrial
  <2> QED
    BY <2>2, <2>3
<1> QED
  BY <1>4, <1>5

\* A row stays regenerable as long as the ledger has the same of its model.
LEMMA RowStays ==
  ASSUME NEW row, Regenerable(row), InLedger(row.model)' = InLedger(row.model),
         \A j \in InLedger(row.model) : ledger'[j] = ledger[j],
         CostInLedger(row.model)' = CostInLedger(row.model)
  PROVE  Regenerable(row)'
<1> DEFINE m == row.model
<1>1. Passed(m)' = Passed(m)
  BY DEF Passed, TrialsOf
<1>2. Ended(m)' = Ended(m)
  BY DEF Ended, TrialsOf
<1> QED
  BY <1>1, <1>2 DEF Regenerable

LEMMA RowsStay ==
  ASSUME RowsAreRegenerable, ledger' = ledger, rows' = rows
  PROVE  RowsAreRegenerable'
<1> SUFFICES ASSUME NEW i \in DOMAIN rows PROVE Regenerable(rows[i])'
  BY DEF RowsAreRegenerable
<1>1. PICK row : row = rows[i]
  OBVIOUS
<1>2. Regenerable(row)
  BY <1>1 DEF RowsAreRegenerable
<1>3. \A m : InLedger(m)' = InLedger(m) /\ CostInLedger(m)' = CostInLedger(m)
  BY DEF InLedger, CostInLedger
<1>4. Regenerable(row)'
  BY <1>2, <1>3, RowStays
<1>5. rows'[i] = row
  BY <1>1
<1> QED
  BY <1>4, <1>5 DEF Regenerable

\* Results and events cost what numbers add up to.
LEMMA CostsAreNumbers ==
  /\ \A e \in Events : e.cost \in Nat
  /\ \A r \in TrialResults : r.cost \in Nat /\ r.events \in Seq(Events)
<1>1. \A e \in Events : e.cost \in Nat
  BY DEF Events
<1>2. ASSUME NEW events \in Seq(Events) PROVE SumOfCosts(events) \in Nat
  <2>1. Costed(events)
    <3>1. \A i \in DOMAIN events : events[i] \in Events
      OBVIOUS
    <3> QED
      BY <1>1, <3>1 DEF Costed, Counted
  <2> QED
    BY <2>1, CostIsNat
<1>3. \A r \in TrialResults : r.cost \in Nat /\ r.events \in Seq(Events)
  BY <1>2 DEF TrialResults
<1> QED
  BY <1>1, <1>3

LEMMA CostsOfTypes ==
  ASSUME NEW S, NEW seq \in Seq(S), \A x \in S : x.cost \in Nat
  PROVE  /\ CostsOf(seq) \in Seq(Nat) /\ Len(CostsOf(seq)) = Len(seq)
         /\ Len(seq) \in Nat /\ DOMAIN seq = 1 .. Len(seq)
         /\ \A i \in 1 .. Len(seq) : CostsOf(seq)[i] = seq[i].cost
         /\ SumOfCosts(seq) = Sums(CostsOf(seq))[Len(seq)]
<1>1. Len(seq) \in Nat /\ DOMAIN seq = 1 .. Len(seq) /\ \A i \in 1 .. Len(seq) : seq[i] \in S
  OBVIOUS
<1>2. CostsOf(seq) \in [1 .. Len(seq) -> Nat]
      /\ \A i \in 1 .. Len(seq) : CostsOf(seq)[i] = seq[i].cost
  BY <1>1 DEF CostsOf
<1>3. CostsOf(seq) \in Seq(Nat) /\ Len(CostsOf(seq)) = Len(seq)
  BY <1>1, <1>2
<1>4. SumOfCosts(seq) = Sums(CostsOf(seq))[Len(seq)]
  BY <1>3 DEF SumOfCosts, Total, CostsOf
<1> QED
  BY <1>1, <1>2, <1>3, <1>4

\* The loops over the results start with none of the model's events written.
LEMMA NothingAppended ==
  ASSUME ModelsDiffer, IdInv, InTrial, IdInv', ledger' = ledger, UNCHANGED at,
         Len(results') = NTasks * Trials
  PROVE  AppendInv'
<1>1. /\ LoopTypes /\ LoopTypes' /\ at.result = 1 /\ at.event = 1
      /\ at'.result = 1 /\ at'.event = 1 /\ Model' = Model
  BY DEF IdInv, Model
<1>2. InLedger(Model) = {}
  <2>1. \A id : ~ OfAWrittenEvent(id)
    BY <1>1, ResultTypes DEF OfAWrittenEvent, Written
  <2> QED
    BY <2>1, NothingWritten DEF Running
<1>3. WrittenInv'
  <2>1. InLedger(Model)' = {}
    BY <1>1, <1>2 DEF InLedger
  <2>2. ASSUME NEW i \in DOMAIN results', NEW k \in DOMAIN results'[i].events
        PROVE  ~ Written(i, k)'
    <3>1. results' \in Seq(TrialResults)
      BY <1>1 DEF LoopTypes
    <3>2. i \in Nat /\ i >= 1 /\ results'[i].events \in Seq(Events)
      BY <3>1, CostsAreNumbers
    <3>3. k \in Nat /\ k >= 1
      BY <3>2
    <3> QED
      BY <1>1, <3>2, <3>3 DEF Written
  <2> QED
    BY <2>1, <2>2 DEF WrittenInv
<1>4. CostInLedger(Model)' = 0
  <2>1. ledger \in Seq(Events)
    BY <1>1 DEF LoopTypes
  <2>2. \A j \in DOMAIN ledger : ledger[j].id[1] # Model
    BY <1>2 DEF InLedger
  <2>3. Total(OwnCosts(ledger, Model)) = 0
    BY <2>1, <2>2, NothingCosts
  <2>4. CostInLedger(Model)' = CostInLedger(Model)
    BY <1>1 DEF CostInLedger, InLedger
  <2> QED
    BY <2>3, <2>4, CostInLedgerIs
<1>5. CostOfWritten' = 0
  <2>1. results' \in Seq(TrialResults)
    BY <1>1 DEF LoopTypes
  <2>2. CostsOf(results') \in Seq(Nat)
    BY <2>1, CostsAreNumbers, CostsOfTypes
  <2>3. Sums(CostsOf(results'))[0] = 0
    BY <2>2, SumsAre
  <2> QED
    BY <1>1, <2>3 DEF CostOfWritten
<1> QED
  BY <1>3, <1>4, <1>5 DEF AppendInv

LEMMA TrialEndKeepsRows ==
  ASSUME ModelsDiffer, IdInv, IdInv', InTrial, RowInv, NEW events \in Seq(Events),
         EpisodeInv(events), NEW errored \in BOOLEAN, EndsWith(events, errored),
         EndTrial(events, errored), ledger' = ledger, rows' = rows
  PROVE  RowInv'
<1>1. LoopTypes /\ NextTrial /\ InOrder /\ RowsAreRegenerable
  BY DEF IdInv, RowInv, Running
<1>2. /\ InOrder'
      /\ InTrial' => NextTrial'
      /\ phase' = "append" => Len(results') = NTasks * Trials
  BY <1>1, EndTrialKeepsOrder
<1>3. RowsAreRegenerable'
  BY <1>1, RowsStay
<1>4. ASSUME phase' = "append" PROVE AppendInv'
  <2>1. at' = at
    BY <1>4 DEF EndTrial
  <2> QED
    BY <1>2, <1>4, <2>1, NothingAppended
<1> QED
  BY <1>2, <1>3, <1>4 DEF RowInv

\* A step that leaves the trial and the results where they are.
LEMMA WaitingKeepsRows ==
  ASSUME RowInv, InTrial, phase' # "append", UNCHANGED <<results, ledger, rows>>,
         InTrial' => at'.task = at.task /\ at'.trial = at.trial /\ episode' = episode
  PROVE  RowInv'
<1>1. NextTrial /\ InOrder /\ RowsAreRegenerable
  BY DEF RowInv, Running
<1>2. InOrder'
  BY <1>1 DEF InOrder, ResultOf
<1>3. RowsAreRegenerable'
  BY <1>1, RowsStay
<1>4. InTrial' => NextTrial'
  BY <1>1 DEF NextTrial
<1> QED
  BY <1>2, <1>3, <1>4 DEF RowInv

LEMMA RunningTrial ==
  ASSUME IdInv, InTrial, RowInv
  PROVE  /\ episode \in Seq(Events) /\ EpisodeInv(episode) /\ EndsWith(episode, TRUE)
         /\ at \in Positions
<1>1. NextTrial
  BY DEF RowInv
<1> QED
  BY <1>1 DEF IdInv, LoopTypes, NextTrial, EndsWith

LEMMA CheckKeepsRows ==
  ASSUME ModelsDiffer, IdInv, IdInv', RowInv, Check
  PROVE  RowInv'
<1>1. InTrial /\ ledger' = ledger /\ rows' = rows
  BY DEF Check, InTrial
<1>2. CASE Crosses
  <2>1. EndTrial(episode, TRUE)
    BY <1>2 DEF Check, CaughtByRunTask
  <2> QED
    BY <1>1, <2>1, RunningTrial, TrialEndKeepsRows
<1>3. CASE ~ Crosses
  <2>1. phase' = "call" /\ UNCHANGED <<at, episode, results>>
    BY <1>3 DEF Check
  <2> QED
    BY <1>1, <2>1, WaitingKeepsRows
<1> QED
  BY <1>2, <1>3

LEMMA AttemptFailsKeepsRows ==
  ASSUME ModelsDiffer, IdInv, IdInv', RowInv, AttemptFails
  PROVE  RowInv'
<1>1. InTrial /\ ledger' = ledger /\ rows' = rows /\ phase = "call"
  BY DEF AttemptFails, InTrial
<1>2. CASE at.attempt < Attempts
  <2>1. phase' = "call" /\ UNCHANGED <<episode, results>>
        /\ at' = [at EXCEPT !.attempt = AttemptsMade]
    BY <1>1, <1>2 DEF AttemptFails
  <2>2. at'.task = at.task /\ at'.trial = at.trial
    BY <1>1, <2>1, RunningTrial, LoopsMove DEF Now, AttemptsMade
  <2> QED
    BY <1>1, <2>1, <2>2, WaitingKeepsRows
<1>3. CASE ~ (at.attempt < Attempts)
  <2>1. EndTrial(episode, TRUE)
    BY <1>3 DEF AttemptFails
  <2> QED
    BY <1>1, <2>1, RunningTrial, TrialEndKeepsRows
<1> QED
  BY <1>2, <1>3

LEMMA AnsweredKeepsRows ==
  ASSUME ModelsDiffer, IdInv, IdInv', RowInv, NEW answer \in Answers, NEW cost \in Costs,
         Answered(answer, cost)
  PROVE  RowInv'
<1> DEFINE event == EventOf(answer, cost)
           events == Append(episode, event)
           n == Len(episode) + 1
<1>1. InTrial /\ ledger' = ledger /\ rows' = rows /\ phase = "call"
  BY DEF Answered, InTrial
<1>2. /\ episode \in Seq(Events) /\ EpisodeInv(episode) /\ EndsWith(episode, TRUE)
      /\ at \in Positions /\ Len(episode) = at.step
  BY <1>1, RunningTrial DEF IdInv
<1>3. /\ event.id = <<Model, at.task, at.trial, at.step>>
      /\ EndsEpisode(answer) => event.decision = "ALLOW"
      /\ ~ EndsEpisode(answer) => event.decision = "VERIFY" /\ event.matched = FALSE
      /\ event \in Events
  <2>1. Model \in STRING /\ at.task \in Nat /\ at.trial \in Nat /\ at.step \in Nat
    BY <1>2, RunAssumption DEF Model, Positions
  <2>2. cost \in Nat
    BY PricesAreBounded
  <2>3. (answer = "match") \in BOOLEAN /\ (~ EndsEpisode(answer) => (answer = "match") = FALSE)
    BY DEF EndsEpisode
  <2> QED
    BY <2>1, <2>2, <2>3 DEF EventOf, EventId, Events
<1> HIDE DEF event
<1>4. /\ events \in Seq(Events) /\ Len(events) = n /\ events[n] = event /\ Len(episode) \in Nat
      /\ \A k \in DOMAIN events : \/ k \in DOMAIN episode /\ events[k] = episode[k] /\ k # n
                                  \/ k = n
  <2> HIDE DEF Events
  <2> QED
    BY <1>2, <1>3
<1> HIDE DEF events
<1>5. EpisodeInv(events)
  <2> SUFFICES ASSUME NEW k \in DOMAIN events
               PROVE  events[k].id = <<Model, at.task, at.trial, k - 1>>
    BY DEF EpisodeInv
  <2>1. CASE k = n
    <3>1. k - 1 = at.step
      BY <1>2, <1>4, <2>1
    <3> QED
      BY <1>3, <1>4, <2>1, <3>1
  <2>2. CASE k # n
    BY <1>2, <1>4, <2>2 DEF EpisodeInv
  <2> QED
    BY <2>1, <2>2
<1>6. \A k \in DOMAIN episode : ~ episode[k].matched /\ episode[k].decision = "VERIFY"
  BY <1>2 DEF EndsWith
<1>7. CASE EndsEpisode(answer)
  <2>1. EndTrial(events, FALSE)
    BY <1>7 DEF Answered, event, events
  <2>2. EndsWith(events, FALSE)
    BY <1>3, <1>4, <1>6, <1>7 DEF EndsWith
  <2> QED
    BY <1>1, <1>4, <1>5, <2>1, <2>2, TrialEndKeepsRows
<1>8. CASE ~ EndsEpisode(answer)
  <2>1. /\ episode' = events /\ phase' = "step" /\ results' = results
        /\ at' = [at EXCEPT !.step = @ + 1, !.attempt = 1]
    BY <1>8 DEF Answered, event, events
  <2>2. at'.task = at.task /\ at'.trial = at.trial
    BY <1>2, <2>1, LoopsMove DEF Now
  <2>3. NextTrial /\ InOrder /\ RowsAreRegenerable
    BY <1>1 DEF RowInv, Running
  <2>4. \A k \in DOMAIN events : ~ events[k].matched /\ events[k].decision = "VERIFY"
    BY <1>3, <1>4, <1>6, <1>8
  <2>5. NextTrial'
    BY <2>1, <2>2, <2>3, <2>4 DEF NextTrial
  <2>6. InOrder' /\ RowsAreRegenerable'
    BY <1>1, <2>1, <2>3, RowsStay DEF InOrder, ResultOf
  <2> QED
    BY <2>1, <2>5, <2>6 DEF RowInv
<1> QED
  BY <1>7, <1>8

LEMMA AppendingFacts ==
  ASSUME ModelsDiffer, CountInv, RowInv, phase = "append"
  PROVE  /\ LoopTypes /\ ResultInv /\ CursorInv /\ RowsCount /\ RowsInv
         /\ InOrder /\ AppendInv /\ RowsAreRegenerable /\ episode = << >>
         /\ at \in Positions /\ results \in Seq(TrialResults) /\ ledger \in Seq(Events)
         /\ \A i \in DOMAIN rows : rows[i].model # Model
<1>1. /\ LoopTypes /\ ResultInv /\ CursorInv /\ RowsCount /\ RowsInv
      /\ InOrder /\ AppendInv /\ RowsAreRegenerable /\ episode = << >>
  BY DEF CountInv, IdInv, RowInv, Running
<1>2. ASSUME NEW i \in DOMAIN rows
      PROVE  rows[i].model # Model
  <2>1. i \in 1 .. at.model - 1
    BY <1>1, AppendCounts DEF RowsInv, Running
  <2>2. PICK ids : ModelIds \in Seq(ids)
    BY RunAssumption
  <2>3. i # at.model /\ i \in DOMAIN ModelIds /\ at.model \in DOMAIN ModelIds
    BY <1>1, <2>1, <2>2, PositionTypes
  <2>4. ModelIds[i] # Model
    BY <2>3 DEF ModelsDiffer, Model
  <2> QED
    BY <1>1, <2>4 DEF RowsCount
<1> QED
  BY <1>1, <1>2 DEF LoopTypes

\* An event of the model that runs leaves what the ledger has of the others.
LEMMA OtherRowsStay ==
  ASSUME NEW event \in Events, event.id[1] = Model, ledger \in Seq(Events),
         ledger' = Append(ledger, event), rows' = rows, RowsAreRegenerable,
         \A i \in DOMAIN rows : rows[i].model # Model
  PROVE  RowsAreRegenerable'
<1> SUFFICES ASSUME NEW i \in DOMAIN rows PROVE Regenerable(rows[i])'
  BY DEF RowsAreRegenerable
<1>1. PICK row : row = rows[i]
  OBVIOUS
<1>2. Regenerable(row) /\ row.model # event.id[1]
  BY <1>1 DEF RowsAreRegenerable
<1>3. /\ DOMAIN ledger' = DOMAIN ledger \union {Len(ledger) + 1}
      /\ ledger'[Len(ledger) + 1] = event
      /\ \A j \in DOMAIN ledger : ledger'[j] = ledger[j]
  <2> HIDE DEF Events
  <2>1. /\ DOMAIN ledger = 1 .. Len(ledger) /\ Len(ledger) \in Nat
        /\ DOMAIN ledger' = 1 .. Len(ledger) + 1
        /\ ledger'[Len(ledger) + 1] = event /\ \A j \in DOMAIN ledger : ledger'[j] = ledger[j]
    OBVIOUS
  <2> QED
    BY <2>1
<1>4. InLedger(row.model)' = InLedger(row.model)
  BY <1>2, <1>3 DEF InLedger
<1>5. \A j \in InLedger(row.model) : ledger'[j] = ledger[j]
  BY <1>3 DEF InLedger
<1>6. CostInLedger(row.model)' = CostInLedger(row.model)
  <2>1. Total(OwnCosts(Append(ledger, event), row.model)) = Total(OwnCosts(ledger, row.model))
    BY <1>2, OneMoreCosts
  <2>2. CostInLedger(row.model) = Total(OwnCosts(ledger, row.model))
    BY CostInLedgerIs
  <2>3. CostInLedger(row.model)' = Total(OwnCosts(ledger', row.model))
    <3>1. [j \in DOMAIN ledger' |-> IF j \in InLedger(row.model)' THEN ledger'[j].cost ELSE 0]
            = OwnCosts(ledger', row.model)
      BY DEF InLedger, OwnCosts
    <3> QED
      BY <3>1 DEF CostInLedger
  <2> QED
    BY <2>1, <2>2, <2>3
<1>7. Regenerable(row)'
  BY <1>2, <1>4, <1>5, <1>6, RowStays
<1>8. rows'[i] = row
  BY <1>1
<1> QED
  BY <1>7, <1>8 DEF Regenerable

LEMMA AppendEventKeepsRows ==
  ASSUME ModelsDiffer, CountInv, RowInv, AppendEvent
  PROVE  RowInv'
<1>0. /\ phase = "append" /\ LoopTypes /\ ResultInv /\ CursorInv /\ InOrder /\ AppendInv
      /\ RowsAreRegenerable /\ at \in Positions /\ results \in Seq(TrialResults)
      /\ ledger \in Seq(Events) /\ \A i \in DOMAIN rows : rows[i].model # Model
  BY AppendingFacts DEF AppendEvent, TrialIsDue
<1> DEFINE own == results[at.result].events
           event == own[at.event]
           n == Len(ledger) + 1
<1>1. /\ results' = results /\ rows' = rows
      /\ at.result \in DOMAIN results /\ at.event \in DOMAIN own
  BY <1>0, PositionTypes, ResultTypes DEF AppendEvent, TrialIsDue, Positions
<1>2. event \in Events /\ event.id[1] = Model /\ own \in Seq(Events)
  <2>1. results[at.result] \in TrialResults
    BY <1>0, <1>1
  <2> QED
    BY <1>0, <1>1, <2>1, ResultTypes, CostsAreNumbers DEF ResultInv
<1>3. CASE phase' = "died" /\ UNCHANGED ledger
  <2>1. RowsAreRegenerable'
    BY <1>0, <1>1, <1>3, RowsStay
  <2> QED
    BY <1>3, <2>1 DEF RowInv, Running, InTrial
<1>4. CASE /\ ledger' = Append(ledger, event) /\ at' = [at EXCEPT !.event = @ + 1]
           /\ UNCHANGED phase
  <2> HIDE DEF event, own
  <2>1. at'.model = at.model /\ at'.result = at.result /\ at'.event = at.event + 1
    BY <1>0, <1>4, LoopsMove DEF Now
  <2>2. Model' = Model
    BY <2>1 DEF Model
  <2>3. /\ DOMAIN ledger' = DOMAIN ledger \union {n}
        /\ ledger'[n] = event /\ \A j \in DOMAIN ledger : ledger'[j] = ledger[j]
    <3> HIDE DEF Events
    <3>1. /\ DOMAIN ledger = 1 .. Len(ledger) /\ Len(ledger) \in Nat
          /\ DOMAIN ledger' = 1 .. n
          /\ ledger'[n] = event /\ \A j \in DOMAIN ledger : ledger'[j] = ledger[j]
      BY <1>0, <1>2, <1>4
    <3> QED
      BY <3>1
  <2> HIDE DEF n
  <2>4. RowsAreRegenerable'
    BY <1>0, <1>1, <1>2, <1>4, OtherRowsStay
  <2>5. InLedger(Model)' = InLedger(Model) \union {n}
    BY <1>2, <2>2, <2>3 DEF InLedger
  <2>6. WrittenInv'
    <3>1. ASSUME NEW j \in InLedger(Model)'
          PROVE  \E i \in DOMAIN results : \E k \in DOMAIN results[i].events :
                    ledger'[j] = results[i].events[k]
      <4>1. CASE j = n
        BY <1>1, <2>3, <4>1 DEF event, own
      <4>2. CASE j \in InLedger(Model)
        BY <1>0, <2>3, <4>2 DEF AppendInv, WrittenInv, InLedger
      <4> QED
        BY <2>5, <4>1, <4>2
    <3>2. ASSUME NEW i \in DOMAIN results, NEW k \in DOMAIN results[i].events, Written(i, k)'
          PROVE  \E j \in InLedger(Model)' : ledger'[j] = results[i].events[k]
      <4>1. CASE Written(i, k)
        <5>1. PICK j \in InLedger(Model) : ledger[j] = results[i].events[k]
          BY <1>0, <4>1 DEF AppendInv, WrittenInv
        <5> QED
          BY <2>3, <2>5, <5>1 DEF InLedger
      <4>2. CASE ~ Written(i, k)
        <5>1. i = at.result /\ k = at.event
          BY <1>0, <2>1, <3>2, <4>2, PositionTypes, ResultTypes DEF Written
        <5> QED
          BY <2>3, <2>5, <5>1 DEF event, own
      <4> QED
        BY <4>1, <4>2
    <3> QED
      BY <1>1, <3>1, <3>2 DEF WrittenInv
  <2>7. CostInLedger(Model)' = CostInLedger(Model) + event.cost
    <3>1. Total(OwnCosts(Append(ledger, event), Model)) = Total(OwnCosts(ledger, Model)) + event.cost
      BY <1>0, <1>2, OneMoreCosts
    <3>2. CostInLedger(Model)' = Total(OwnCosts(ledger', Model'))
      <4>1. [j \in DOMAIN ledger' |-> IF j \in InLedger(Model)' THEN ledger'[j].cost ELSE 0]
              = OwnCosts(ledger', Model')
        BY DEF InLedger, OwnCosts
      <4> QED
        BY <4>1 DEF CostInLedger
    <3> QED
      BY <1>4, <2>2, <3>1, <3>2, CostInLedgerIs
  <2>8. CostOfWritten' = CostOfWritten + event.cost
    <3> DEFINE sums == Sums(CostsOf(own))
               base == Sums(CostsOf(results))[at.result - 1]
    <3>1. /\ CostsOf(own) \in Seq(Nat) /\ at.event \in 1 .. Len(CostsOf(own))
          /\ CostsOf(own)[at.event] = event.cost
      BY <1>1, <1>2, CostsAreNumbers, CostsOfTypes DEF event
    <3>2. sums[0] = 0 /\ sums[at.event] = sums[at.event - 1] + event.cost /\ at.event \in Nat
      BY <3>1, SumsAre
    <3>3. base \in Nat /\ sums[at.event - 1] \in Nat /\ event.cost \in Nat
      <4>1. CostsOf(results) \in Seq(Nat) /\ at.result - 1 \in 0 .. Len(CostsOf(results))
        BY <1>0, <1>1, CostsAreNumbers, CostsOfTypes
      <4>2. base \in Nat
        BY <4>1, SumsAre
      <4>3. sums[at.event - 1] \in Nat
        <5>1. at.event - 1 \in 0 .. Len(CostsOf(own))
          BY <3>1
        <5>2. sums \in [0 .. Len(CostsOf(own)) -> Nat]
          BY <3>1, SumsAre
        <5> HIDE DEF sums
        <5> QED
          BY <5>1, <5>2
      <4> QED
        BY <1>2, <4>2, <4>3, CostsAreNumbers
    <3>4. CostOfWritten = base + IF at.event = 1 THEN 0 ELSE sums[at.event - 1]
      BY DEF CostOfWritten, own
    <3>5. CostOfWritten' = base + IF at.event + 1 = 1 THEN 0 ELSE sums[(at.event + 1) - 1]
      BY <1>1, <2>1 DEF CostOfWritten, own
    <3> HIDE DEF sums, base
    <3>6. (at.event + 1) - 1 = at.event /\ at.event + 1 # 1
      BY <3>1
    <3> QED
      BY <3>2, <3>3, <3>4, <3>5, <3>6
  <2>9. AppendInv'
    BY <1>0, <1>1, <2>6, <2>7, <2>8 DEF AppendInv
  <2>10. InOrder'
    BY <1>0, <1>1 DEF InOrder, ResultOf
  <2> QED
    BY <1>0, <1>4, <2>4, <2>9, <2>10 DEF RowInv, InTrial
<1> QED
  BY <1>3, <1>4 DEF AppendEvent

LEMMA NextResultKeepsRows ==
  ASSUME ModelsDiffer, CountInv, RowInv, NextResult
  PROVE  RowInv'
<1>0. /\ phase = "append" /\ LoopTypes /\ CursorInv /\ InOrder /\ AppendInv
      /\ RowsAreRegenerable /\ at \in Positions /\ results \in Seq(TrialResults)
  BY AppendingFacts DEF NextResult, TrialIsDue
<1> DEFINE own == results[at.result].events
<1>1. /\ UNCHANGED <<phase, results, ledger, rows>>
      /\ at.event > Len(own) /\ at.result \in DOMAIN results
      /\ at' = [at EXCEPT !.result = @ + 1, !.event = 1]
  BY <1>0, PositionTypes, ResultTypes DEF NextResult, TrialIsDue, Positions
<1>2. at'.model = at.model /\ at'.result = at.result + 1 /\ at'.event = 1 /\ Model' = Model
  BY <1>0, <1>1, LoopsMove DEF Now, Model
<1>3. /\ at.result \in Nat \ {0} /\ at.event \in Nat /\ Len(own) \in Nat
      /\ at.event = Len(own) + 1 /\ DOMAIN own = 1 .. Len(own)
  BY <1>0, <1>1, PositionTypes, ResultTypes DEF CursorInv
<1>4. own \in Seq(Events) /\ results[at.result].cost = SumOfCosts(own)
  <2>1. results[at.result] \in TrialResults
    BY <1>0, <1>1
  <2>2. at.result \in 1 .. NTasks * Trials
    BY <1>0, <1>1, ResultTypes DEF AppendInv
  <2>3. PICK k \in 1 .. NTasks, t \in 0 .. Trials - 1 : at.result = Place(k, t)
    BY <2>2, PlaceFacts
  <2>4. ResultOf(results[at.result], k, t)
    BY <1>0, <1>1, <2>3 DEF InOrder
  <2> QED
    BY <2>1, <2>4, CostsAreNumbers DEF ResultOf
<1>5. CostOfWritten' = CostOfWritten
  <2> DEFINE sums == Sums(CostsOf(results))
             owns == Sums(CostsOf(own))
             r == at.result
  <2>1. /\ CostsOf(results) \in Seq(Nat) /\ r \in 1 .. Len(CostsOf(results))
        /\ CostsOf(results)[r] = results[r].cost
    BY <1>0, <1>1, CostsAreNumbers, CostsOfTypes
  <2>2. sums[r] = sums[r - 1] + results[r].cost
    BY <2>1, SumsAre
  <2>3. sums[r - 1] \in Nat
    <3>1. r - 1 \in 0 .. Len(CostsOf(results))
      BY <2>1
    <3>2. sums \in [0 .. Len(CostsOf(results)) -> Nat]
      BY <2>1, SumsAre
    <3> HIDE DEF sums
    <3> QED
      BY <3>1, <3>2
  <2>4. /\ CostsOf(own) \in Seq(Nat) /\ results[r].cost = owns[Len(own)]
    BY <1>4, CostsAreNumbers, CostsOfTypes
  <2>5. owns[0] = 0
    BY <2>4, SumsAre
  <2>6. CostOfWritten = sums[r - 1] + IF at.event = 1 THEN 0 ELSE owns[at.event - 1]
    BY DEF CostOfWritten
  <2>7. CostOfWritten' = sums[(r + 1) - 1] + 0
    BY <1>1, <1>2 DEF CostOfWritten
  <2>8. (r + 1) - 1 = r /\ at.event - 1 = Len(own)
    BY <1>3
  <2> HIDE DEF sums, owns, own, r
  <2>9. CostOfWritten = sums[r - 1] + results[r].cost
    <3>1. CASE at.event = 1
      BY <2>3, <2>4, <2>5, <2>6, <2>8, <3>1
    <3>2. CASE at.event # 1
      BY <2>4, <2>6, <2>8, <3>2
    <3> QED
      BY <3>1, <3>2
  <2>10. results[r].cost \in Nat
    <3>1. results[r] \in TrialResults
      BY <1>0, <1>1 DEF r
    <3> QED
      BY <3>1, CostsAreNumbers
  <2> QED
    BY <2>2, <2>3, <2>7, <2>8, <2>9, <2>10
<1>6. WrittenInv'
  <2>1. ASSUME NEW i \in DOMAIN results, NEW k \in DOMAIN results[i].events, Written(i, k)'
        PROVE  Written(i, k)
    <3>1. CASE i = at.result
      BY <1>3, <3>1 DEF Written
    <3>2. CASE i # at.result
      <4>1. i \in Nat /\ k \in Nat /\ k >= 1
        BY <1>0, ResultTypes
      <4> QED
        BY <1>2, <1>3, <2>1, <3>2, <4>1 DEF Written
    <3> QED
      BY <3>1, <3>2
  <2>2. InLedger(Model)' = InLedger(Model)
    BY <1>1, <1>2 DEF InLedger
  <2> QED
    BY <1>0, <1>1, <2>1, <2>2 DEF AppendInv, WrittenInv
<1>7. CostInLedger(Model)' = CostInLedger(Model)
  BY <1>1, <1>2 DEF CostInLedger, InLedger
<1>8. AppendInv'
  BY <1>0, <1>1, <1>5, <1>6, <1>7 DEF AppendInv
<1>9. InOrder' /\ RowsAreRegenerable'
  BY <1>0, <1>1, RowsStay DEF InOrder, ResultOf
<1> QED
  BY <1>0, <1>1, <1>8, <1>9 DEF RowInv, InTrial

\* When all is written, the row has what the ledger has.
LEMMA RowIsRegenerable ==
  ASSUME ModelsDiffer, CountInv, RowInv, phase = "append", RowIsDue,
         Row.model = Model, Row.events = Cardinality(InLedger(Model))
  PROVE  Regenerable(Row)
<1> DEFINE row == Row
<1>0. /\ LoopTypes /\ CursorInv /\ InOrder /\ AppendInv
      /\ at \in Positions /\ results \in Seq(TrialResults)
  BY AppendingFacts
<1>1. Len(results) \in Nat /\ at.result = Len(results) + 1 /\ at.event = 1
  BY <1>0, PositionTypes, ResultTypes DEF CursorInv, RowIsDue
<1>2. Complete
  <2>1. \A i \in DOMAIN results : \A k \in DOMAIN results[i].events : Written(i, k)
    BY <1>0, <1>1, ResultTypes DEF Written
  <2> QED
    BY <1>0, <2>1 DEF Complete, AppendInv, WrittenInv
<1>3. /\ row.trials = Len(results) /\ row.loss = Loss
      /\ row.pass_at_1 = Summary(results).pass_at_1
      /\ row.pass_at_k = Summary(results).pass_at_k
      /\ row.pass_k = Summary(results).pass_k
      /\ row.errors = Summary(results).errors
      /\ row.cost = Summary(results).cost
  BY DEF Row
<1>4. row.trials = Cardinality(AllTrials)
  BY <1>0, <1>3, AllTrialsCount DEF AppendInv
<1>5. row.cost = CostInLedger(Model)
  <2>1. Summary(results).cost = SumOfCosts(results)
    BY DEF Summary, SumOfCosts
  <2>2. SumOfCosts(results) = Sums(CostsOf(results))[Len(results)]
        /\ CostsOf(results) \in Seq(Nat) /\ Len(CostsOf(results)) = Len(results)
    BY <1>0, CostsAreNumbers, CostsOfTypes
  <2>3. Sums(CostsOf(results))[Len(results)] \in Nat
    <3>1. Sums(CostsOf(results)) \in [0 .. Len(results) -> Nat]
      BY <2>2, SumsAre
    <3> QED
      BY <1>1, <3>1
  <2>4. CostOfWritten = Sums(CostsOf(results))[Len(results)] + 0
    <3>1. (Len(results) + 1) - 1 = Len(results)
      BY <1>1
    <3> QED
      BY <1>1, <3>1 DEF CostOfWritten
  <2>5. CostInLedger(Model) = CostOfWritten
    BY <1>0 DEF AppendInv
  <2> QED
    BY <1>3, <2>1, <2>2, <2>3, <2>4, <2>5
<1>6. row.model = Model /\ row.events = Cardinality(InLedger(Model))
  OBVIOUS
<1> HIDE DEF row
<1>7. Regenerable(row)
  BY <1>2, <1>3, <1>4, <1>5, <1>6, PassesAgree, ErrorsAgree, LossAgrees DEF Regenerable
<1> QED
  BY <1>7 DEF row

LEMMA WriteRowKeepsRows ==
  ASSUME ModelsDiffer, CountInv, CountInv', RowInv, WriteRow
  PROVE  RowInv'
<1> DEFINE row == Row
<1>0. /\ phase = "append" /\ LoopTypes /\ CursorInv /\ RowsCount /\ RowsInv /\ episode = << >>
      /\ RowsAreRegenerable
  BY AppendingFacts DEF WriteRow
<1>1. RowIsDue /\ rows' = Append(rows, row) /\ ledger' = ledger /\ results' = << >>
      /\ episode' = << >>
  BY <1>0 DEF WriteRow
<1>2. row.model = Model
  BY DEF Row
<1> HIDE DEF row
<1>3. /\ Counted(rows) /\ Len(rows) \in Nat /\ Len(rows') = Len(rows) + 1
      /\ DOMAIN rows' = 1 .. Len(rows) + 1 /\ rows'[Len(rows) + 1] = row
      /\ \A i \in DOMAIN rows' : \/ i \in DOMAIN rows /\ rows'[i] = rows[i]
                                 \/ i = Len(rows) + 1 /\ rows'[i] = row
  <2>1. PICK S : rows \in Seq(S) /\ row \in S
    <3>1. PICK S : rows \in Seq(S)
      BY <1>0 DEF RowsInv, Counted
    <3>2. rows \in Seq(S \union {row})
      BY <3>1
    <3> QED
      BY <3>2
  <2>2. Counted(rows)
    BY <1>0 DEF RowsInv
  <2> QED
    BY <1>1, <2>1, <2>2, AppendCounts
<1>4. row.events = Cardinality(InLedger(Model))
  <2>1. \A k \in DOMAIN rows' : /\ rows'[k].model = ModelIds[k]
                               /\ rows'[k].events = Cardinality(InLedger(ModelIds[k])')
    BY DEF CountInv, RowsCount
  <2>2. \A m : InLedger(m)' = InLedger(m)
    BY <1>1 DEF InLedger
  <2>3. \A k \in DOMAIN rows' : /\ rows'[k].model = ModelIds[k]
                               /\ rows'[k].events = Cardinality(InLedger(ModelIds[k]))
    BY <2>1, <2>2
  <2>4. Len(rows) + 1 \in DOMAIN rows'
    BY <1>3
  <2> QED
    BY <1>2, <1>3, <2>3, <2>4
<1>5. Regenerable(row)
  BY <1>0, <1>1, <1>2, <1>4, RowIsRegenerable DEF row
<1>6. ASSUME NEW i \in DOMAIN rows' PROVE Regenerable(rows'[i])
  BY <1>0, <1>3, <1>5 DEF RowsAreRegenerable
<1>7. RowsAreRegenerable'
  <2> SUFFICES ASSUME NEW i \in DOMAIN rows' PROVE Regenerable(rows[i])'
    BY DEF RowsAreRegenerable
  <2>1. PICK one : one = rows'[i]
    OBVIOUS
  <2>2. \A m : InLedger(m)' = InLedger(m) /\ CostInLedger(m)' = CostInLedger(m)
    BY <1>1 DEF InLedger, CostInLedger
  <2>3. Regenerable(one)
    BY <1>6, <2>1
  <2>4. Regenerable(one)'
    BY <1>1, <2>2, <2>3, RowStays
  <2> QED
    BY <2>1, <2>4 DEF Regenerable
<1>8. InOrder'
  BY <1>1 DEF InOrder
<1>9. InTrial' => NextTrial'
  <2>1. Len(results') = 0 /\ DOMAIN episode' = {}
    BY <1>1
  <2>2. ASSUME InTrial' PROVE at'.task = 1 /\ at'.trial = 0
    BY <2>2 DEF WriteRow, InTrial, FirstTrial, StartOf
  <2>3. Place(1, 0) = 1 /\ 1 \in 1 .. NTasks /\ 0 \in 0 .. Trials - 1
    BY PlaceFacts DEF Place
  <2> QED
    BY <2>1, <2>2, <2>3 DEF NextTrial
<1>10. phase' # "append"
  BY DEF WriteRow
<1> QED
  BY <1>7, <1>8, <1>9, <1>10 DEF RowInv

LEMMA RowNext ==
  ASSUME ModelsDiffer, CountInv, RowInv, [Next]_vars
  PROVE  RowInv'
<1>0. CountInv' /\ IdInv /\ IdInv'
  BY CountNext DEF CountInv
<1>1. ASSUME NEW cost \in Costs, AnsweredNull(cost)
      PROVE  RowInv'
  <2>1. InTrial /\ ~ InTrial' /\ phase' # "append" /\ UNCHANGED <<results, ledger, rows>>
    BY <1>1 DEF AnsweredNull, InTrial
  <2> QED
    BY <2>1, WaitingKeepsRows
<1>2. CASE UNCHANGED vars
  <2>1. UNCHANGED <<phase, at, episode, results, ledger, rows>>
    BY <1>2 DEF vars
  <2>2. (InTrial => NextTrial) /\ (Running => InOrder) /\ (phase = "append" => AppendInv)
        /\ RowsAreRegenerable
    BY DEF RowInv
  <2>3. RowsAreRegenerable'
    BY <2>1, <2>2, RowsStay
  <2>4. InTrial' => NextTrial'
    BY <2>1, <2>2 DEF NextTrial, InTrial
  <2>5. Running' => InOrder'
    BY <2>1, <2>2 DEF InOrder, ResultOf, Running, InTrial
  <2>6. phase' = "append" => AppendInv'
    <3>1. WrittenInv => WrittenInv'
      BY <2>1 DEF WrittenInv, InLedger, Model, Written
    <3>2. CostOfWritten' = CostOfWritten /\ CostInLedger(Model)' = CostInLedger(Model)
      BY <2>1 DEF CostOfWritten, CostInLedger, InLedger, Model
    <3> QED
      BY <2>1, <2>2, <3>1, <3>2 DEF AppendInv
  <2> QED
    BY <2>3, <2>4, <2>5, <2>6 DEF RowInv
<1> QED
  BY <1>0, <1>1, <1>2, CheckKeepsRows, AttemptFailsKeepsRows, AnsweredKeepsRows,
     AppendEventKeepsRows, NextResultKeepsRows, WriteRowKeepsRows DEF Next

\* The columns of Row, its passes, errors, cost and loss with the rest, can be
\* had again from the ledger alone, whatever the provider answered and whichever
\* attempts failed, when no model is named twice by --models: the events of a
\* model named twice would be taken for those of both its rows.
THEOREM RowsCanBeRegenerated ==
  ASSUME ModelsDiffer
  PROVE  Spec => []RowsAreRegenerable
<1> DEFINE IInv == CountInv /\ RowInv
<1>1. Init => IInv
  BY IdInit, CountInit, RowInit DEF CountInv
<1>2. IInv /\ [Next]_vars => IInv'
  BY CountNext, RowNext
<1>3. IInv => RowsAreRegenerable
  BY DEF RowInv
<1> QED
  BY <1>1, <1>2, <1>3, PTL DEF Spec

------------------------------------------------------------------------------
\* What a card is made of: files of one run, where the report is none of the
\* runs before.
OneRun(dir) ==
    IsResult(dir.board) =>
        /\ dir.board.of # "stub"
        /\ ReportBelongs(dir) => dir.report.of \in {"nobody", dir.board.of}

IsOwn(file) == file.of = "this" /\ {"of", "mtime"} \subseteq DOMAIN file

\* The run's own directory has no file but the run's, the report after the
\* leaderboard.
OwnFiles ==
    /\ runDir = [board |-> runDir.board, report |-> runDir.report]
    /\ runDir.board = NoFile \/ IsOwn(runDir.board)
    /\ runDir.report = NoFile \/ IsOwn(runDir.report)

SharedFiles ==
    /\ shared = [board |-> shared.board, report |-> shared.report]
    /\ now \in Int /\ shared.report.mtime \in Int /\ shared.report.mtime < now

CardInv == OwnFiles /\ SharedFiles /\ OneRun(runDir) /\ OneRun(shared) /\ CardIsOfOneRun

------------------------------------------------------------------------------
LEMMA CardInit == PubInit => CardInv
<1> SUFFICES ASSUME PubInit PROVE CardInv
  OBVIOUS
<1>1. OwnFiles /\ OneRun(runDir)
  BY DEF PubInit, OwnFiles, OneRun, IsResult
<1>2. SharedFiles /\ OneRun(shared)
  BY EarlierAssumption DEF PubInit, SharedFiles, OneRun, IsResult, ReportBelongs
<1>3. CardIsOfOneRun
  BY DEF PubInit, NoCard, CardIsOfOneRun
<1> QED
  BY <1>1, <1>2, <1>3 DEF CardInv

LEMMA CardOfOneRun ==
  ASSUME NEW dir, OneRun(dir), card' = CardOf(dir)
  PROVE  CardIsOfOneRun'
<1>1. CASE ~ IsResult(dir.board)
  BY <1>1 DEF CardOf, Table, Coverage, CoversNothing, IsResult, CardIsOfOneRun
<1>2. CASE IsResult(dir.board)
  <2>1. card'.of = dir.board.of /\ card'.models = dir.board.models /\ card'.models # << >>
    BY <1>2 DEF CardOf, Table, IsResult
  <2>2. card'.coverage # "none"
    BY <1>2 DEF CardOf, Coverage, CoversNothing, IsResult
  <2>3. card'.report \in {"nobody", card'.of}
    BY <1>2, <2>1 DEF CardOf, OneRun
  <2> QED
    BY <1>2, <2>1, <2>2, <2>3 DEF OneRun, CardIsOfOneRun
<1> QED
  BY <1>1, <1>2

LEMMA CardNext ==
  ASSUME CardInv, [PubNext]_<<vars, pubVars>>
  PROVE  CardInv'
<1>1. CASE UNCHANGED pubVars
  BY <1>1 DEF pubVars, CardInv, OwnFiles, SharedFiles, CardIsOfOneRun
<1>2. CASE WriteBoard
  <2>1. /\ runDir.board = NoFile /\ UNCHANGED <<shared, card>> /\ now' = now + 1
        /\ IsOwn(runDir'.board) /\ runDir'.report = runDir.report
        /\ runDir' = [board |-> runDir'.board, report |-> runDir'.report]
    BY <1>2 DEF WriteBoard, CardInv, OwnFiles, At, Board, IsOwn
  <2>2. OneRun(runDir)' /\ OwnFiles'
    BY <2>1 DEF CardInv, OwnFiles, IsOwn, OneRun, ReportBelongs
  <2> QED
    BY <2>1, <2>2 DEF CardInv, SharedFiles, CardIsOfOneRun
<1>3. CASE WriteReport
  <2>1. /\ runDir.board # NoFile /\ UNCHANGED <<shared, card>> /\ now' = now + 1
        /\ IsOwn(runDir'.report) /\ runDir'.board = runDir.board
        /\ runDir' = [board |-> runDir'.board, report |-> runDir'.report]
    BY <1>3 DEF WriteReport, CardInv, OwnFiles, At, Report, IsOwn
  <2>2. OneRun(runDir)' /\ OwnFiles'
    BY <2>1 DEF CardInv, OwnFiles, IsOwn, OneRun, ReportBelongs
  <2> QED
    BY <2>1, <2>2 DEF CardInv, SharedFiles, CardIsOfOneRun
<1>4. CASE Copy("board")
  <2>1. /\ UNCHANGED <<runDir, card>> /\ now' = now + 1
        /\ shared'.board.of = "this" /\ shared'.board.mtime = now
        /\ shared'.report = shared.report
        /\ shared' = [board |-> shared'.board, report |-> shared'.report]
    <3>1. runDir.board # NoFile /\ IsOwn(runDir.board)
      BY <1>4 DEF Copy, CardInv, OwnFiles
    <3>2. At(runDir.board).of = "this" /\ At(runDir.board).mtime = now
      BY <3>1 DEF At, IsOwn
    <3>3. shared' = [shared EXCEPT !.board = At(runDir.board)]
      BY <1>4 DEF Copy
    <3>4. shared' = [board |-> At(runDir.board), report |-> shared.report]
      BY <3>3 DEF CardInv, SharedFiles
    <3>5. UNCHANGED <<runDir, card>> /\ now' = now + 1
      BY <1>4 DEF Copy
    <3> QED
      BY <3>2, <3>4, <3>5
  <2>2. ~ ReportBelongs(shared)'
    BY <2>1 DEF CardInv, SharedFiles, ReportBelongs
  <2> QED
    BY <2>1, <2>2 DEF CardInv, OwnFiles, SharedFiles, OneRun, CardIsOfOneRun
<1>5. CASE Copy("report")
  <2>1. /\ UNCHANGED <<runDir, card>> /\ now' = now + 1
        /\ shared.board.of = "this" /\ shared'.board = shared.board
        /\ shared'.report.of = "this" /\ shared'.report.mtime = now
        /\ shared' = [board |-> shared'.board, report |-> shared'.report]
    <3>1. runDir.report # NoFile /\ IsOwn(runDir.report)
      BY <1>5 DEF Copy, CardInv, OwnFiles
    <3>2. At(runDir.report).of = "this" /\ At(runDir.report).mtime = now
      BY <3>1 DEF At, IsOwn
    <3>3. shared' = [shared EXCEPT !.report = At(runDir.report)]
      BY <1>5 DEF Copy
    <3> QED
      BY <1>5, <3>2, <3>3 DEF Copy, CardInv, SharedFiles
  <2> QED
    BY <2>1 DEF CardInv, OwnFiles, SharedFiles, OneRun, CardIsOfOneRun
<1>6. CASE Publish
  <2>1. CardIsOfOneRun'
    BY <1>6, CardOfOneRun DEF Publish, CardInv
  <2> QED
    BY <1>6, <2>1 DEF Publish, CardInv, OwnFiles, SharedFiles
<1> QED
  BY <1>1, <1>2, <1>3, <1>4, <1>5, <1>6 DEF PubNext, RunStep

\* build_payload() makes a card of the files of one run, and of no stub, when the
\* files of a run are copied in the order they were written, wherever the run or
\* the copying stopped: the report's mtime tells one that was left behind.
THEOREM CardsAreOfOneRun == PubSpec => []CardIsOfOneRun
<1>1. CardInv => CardIsOfOneRun
  BY DEF CardInv
<1> QED
  BY <1>1, CardInit, CardNext, PTL DEF PubSpec

------------------------------------------------------------------------------
Finished(models) == phase = "finished" /\ models = rows

\* The files of this run, and a card made of them, are of its finished rows.
FilesInv ==
    /\ runDir.board # NoFile => "models" \in DOMAIN runDir.board /\ Finished(runDir.board.models)
    /\ shared.board.of = "this" => Finished(shared.board.models)
    /\ card.of = "this" => Finished(card.models)

EndInv == CardInv /\ RowsInv /\ FilesInv

\* A finished run is at rest.
LEMMA FinishedStays ==
  ASSUME [Next]_vars, phase = "finished"
  PROVE  UNCHANGED <<phase, rows, aborted>>
  BY DEF Next, vars, Check, AttemptFails, Answered, AnsweredNull, AppendEvent, NextResult,
         TrialIsDue, WriteRow

LEMMA EndInit == PubInit => EndInv
<1> SUFFICES ASSUME PubInit PROVE EndInv
  OBVIOUS
<1>1. Counted(<< >>)
  BY DEF Counted
<1>2. RowsInv
  BY <1>1 DEF PubInit, Init, FirstTrial, StartOf, RowsInv
<1>3. FilesInv
  BY EarlierAssumption DEF PubInit, FilesInv, NoCard
<1> QED
  BY <1>2, <1>3, CardInit DEF EndInv

LEMMA EndNext ==
  ASSUME EndInv, [PubNext]_<<vars, pubVars>>
  PROVE  EndInv'
<1>0. CardInv' /\ OwnFiles /\ SharedFiles
  BY CardNext DEF EndInv, CardInv
<1>1. CASE RunStep \/ UNCHANGED <<vars, pubVars>>
  <2>1. [Next]_vars /\ UNCHANGED pubVars
    BY <1>1 DEF RunStep
  <2>2. RowsInv'
    BY <2>1, RowsNext DEF EndInv
  <2>3. FilesInv'
    BY <2>1, FinishedStays DEF EndInv, FilesInv, Finished, pubVars
  <2> QED
    BY <1>0, <2>2, <2>3 DEF EndInv
<1>2. ASSUME UNCHANGED vars, FilesInv'
      PROVE  EndInv'
  BY <1>0, <1>2 DEF EndInv, RowsInv, Running, InTrial, vars
<1>3. CASE WriteBoard
  <2>1. /\ UNCHANGED <<vars, shared, card>> /\ phase = "finished"
        /\ runDir'.board = At(Board("this", "openai_compat", rows))
    BY <1>0, <1>3 DEF WriteBoard, BoardIsDue, OwnFiles
  <2>2. "models" \in DOMAIN runDir'.board /\ runDir'.board.models = rows
    BY <2>1 DEF At, Board
  <2> QED
    BY <1>2, <2>1, <2>2 DEF EndInv, FilesInv, Finished, vars
<1>4. CASE WriteReport
  <2>1. UNCHANGED <<vars, shared, card>> /\ runDir'.board = runDir.board
    BY <1>0, <1>4 DEF WriteReport, OwnFiles
  <2> QED
    BY <1>2, <2>1 DEF EndInv, FilesInv, Finished, vars
<1>5. CASE Copy("board")
  <2>1. UNCHANGED <<vars, runDir, card>> /\ runDir.board # NoFile
    BY <1>5 DEF Copy
  <2>2. shared'.board = At(runDir.board)
    BY <1>0, <1>5 DEF Copy, SharedFiles
  <2>3. shared'.board.models = rows /\ phase = "finished"
    BY <2>1, <2>2 DEF EndInv, FilesInv, Finished, At
  <2> QED
    BY <1>2, <2>1, <2>3 DEF EndInv, FilesInv, Finished, vars
<1>6. CASE Copy("report")
  <2>1. UNCHANGED <<vars, runDir, card>> /\ shared'.board = shared.board
    BY <1>0, <1>6 DEF Copy, SharedFiles
  <2> QED
    BY <1>2, <2>1 DEF EndInv, FilesInv, Finished, vars
<1>7. CASE Publish
  <2>1. PICK dir \in {runDir, shared} : card' = CardOf(dir)
    BY <1>7 DEF Publish
  <2>2. UNCHANGED <<vars, runDir, shared>>
    BY <1>7 DEF Publish
  <2>3. card'.of = "this" => card'.models = dir.board.models /\ dir.board.of = "this"
                            /\ dir.board # NoFile
    BY <2>1 DEF CardOf, IsResult, Table
  <2>4. card'.of = "this" => Finished(card'.models)
    BY <2>3 DEF EndInv, FilesInv
  <2> QED
    BY <1>2, <2>2, <2>4 DEF EndInv, FilesInv, Finished, vars
<1> QED
  BY <1>1, <1>3, <1>4, <1>5, <1>6, <1>7 DEF PubNext

\* The first two parts of PublishedRunIsComplete: a card shows numbers of this
\* run only when the run came to its end, with a row of every model; a run that
\* died, at any point and whatever it had measured, is on no card.
THEOREM PublishedRunsCameToTheirEnd == PubSpec => [](card.of = "this" => CameToItsEnd)
<1>1. EndInv => (card.of = "this" => CameToItsEnd)
  BY DEF EndInv, FilesInv, RowsInv, Finished, CameToItsEnd
<1> QED
  BY <1>1, EndInit, EndNext, PTL DEF PubSpec

------------------------------------------------------------------------------
\* Publication leaves the run alone: what is proved of every run holds of the
\* one whose files are copied and published while it goes on.
THEOREM PublicationLeavesTheRun == PubSpec => Spec
<1>1. PubInit => Init
  BY DEF PubInit
<1>2. [PubNext]_<<vars, pubVars>> => [Next]_vars
  BY DEF PubNext, RunStep, WriteBoard, WriteReport, Copy, Publish
<1> QED
  BY <1>1, <1>2, PTL DEF PubSpec, Spec

\* A run that died is never published as complete: a card with numbers of
\* this run is made of its finished rows, one for every model unless the run was
\* given up, and the columns of Row can be had again from the ledger, when
\* --models names no model twice.
THEOREM PublishedRunsAreComplete ==
  ASSUME ModelsDiffer
  PROVE  PubSpec => []PublishedRunIsComplete
<1> DEFINE IInv == CountInv /\ RowInv
<1>1. EndInv /\ IInv => PublishedRunIsComplete
  <2> SUFFICES ASSUME EndInv, IInv, card.of = "this"
               PROVE  CameToItsEnd /\ \A i \in DOMAIN card.models : Regenerable(card.models[i])
    BY DEF PublishedRunIsComplete
  <2>1. phase = "finished" /\ card.models = rows
    BY DEF EndInv, FilesInv, Finished
  <2>2. CameToItsEnd
    BY <2>1 DEF EndInv, RowsInv, CameToItsEnd
  <2>3. RowsAreRegenerable
    BY DEF RowInv
  <2> QED
    BY <2>1, <2>2, <2>3 DEF RowsAreRegenerable
<1>2. PubInit => IInv
  BY IdInit, CountInit, RowInit DEF PubInit, CountInv
<1>3. IInv /\ [PubNext]_<<vars, pubVars>> => IInv'
  <2>1. [PubNext]_<<vars, pubVars>> => [Next]_vars
    BY DEF PubNext, RunStep, WriteBoard, WriteReport, Copy, Publish
  <2> QED
    BY <2>1, CountNext, RowNext
<1> QED
  BY <1>1, <1>2, <1>3, EndInit, EndNext, PTL DEF PubSpec
==============================================================================
