------------------------------ MODULE TaskSuite ------------------------------
(***************************************************************************)
(* The task generators of src/lossbench/generate and what is done with     *)
(* their suites: the one a run is scored on, and the eval and train splits *)
(* that packaging/hf/publish.py regenerates from their seeds, certifies    *)
(* free of overlap (src/lossbench/contamination/monitor.py) and publishes. *)
(*                                                                         *)
(* Random(seed) is a stream of candidates nobody has read yet: a draw at a *)
(* new position of a seed's stream is any candidate, at an old position it *)
(* is the one drawn before.  So suites of one seed are as alike as the     *)
(* loops that make them, and those of two seeds may happen to collide.     *)
(*                                                                         *)
(* A candidate holds what its verdict depends on; references, the wording  *)
(* of reasons and the prompt are left out, and difficulty is easy or hard. *)
(***************************************************************************)
EXTENDS TaskVerifiers

CONSTANTS Domains,         \* of generate.DOMAINS
          Mixes,           \* severity_mix: the severities with a weight; {} is None
          Requests,        \* the suites, in order: seed and n_tasks
          Eval, Train,     \* the positions of the two splits in Requests
          AttemptsPerTask, \* max_attempts / n_tasks
          Difficulties,    \* of each domain: {"easy", "hard"} or one of them
          Names, Amounts, Bookings

ASSUME SuiteAssumption ==
    /\ Domains \subseteq {"reconciliation", "payment_repair", "settlement"}
    /\ Requests \in Seq([seed : STRING, n : Nat \ {0}])
    /\ {Eval, Train} \subseteq DOMAIN Requests
    /\ AttemptsPerTask \in Nat \ {0}
    /\ Difficulties \in [Domains -> SUBSET {"easy", "hard"}]

\* Amounts count cents and dates days; no name of the pools (_NAMES,
\* _BENEFICIARIES) has a word of "TOTALLY DIFFERENT ENTITY OY", here OTHER OY.
ASSUME DrawAssumption ==
    /\ Names \subseteq Seq(STRING \ {"OTHER", "OY"}) \ {<< >>}
    /\ Amounts \subseteq Nat
    /\ Bookings \subseteq Nat

VARIABLES domain, mix, \* of this behaviour
          stream,      \* what each seed's generator has drawn so far
          attempts,    \* of the loop that runs
          tasks,       \* accepted by the loop that runs
          suites,      \* the suites that are complete
          stage        \* "generate", "raised", "refused" or "published"

vars == <<domain, mix, stream, attempts, tasks, suites, stage>>

Seeds == {Requests[i].seed : i \in DOMAIN Requests}

------------------------------------------------------------------------------
\* The classes a draw may take under the severity mix.
Drawable(severityOf, severities) ==
    {c \in DOMAIN severityOf : severities = {} \/ severityOf[c] \in severities}

\* A draw from which a task is made.
Candidate(state, gold, severity, difficulty) ==
    [state |-> state, gold |-> gold, severity |-> severity, difficulty |-> difficulty]

\* _make_clean(): settled one or two days after the booking; in a hard task
\* the second day is only kept when it falls on a weekend.
CleanRecords(difficulty) ==
    {[reference |-> "REF", amount |-> amount, currency |-> "USD", counterparty |-> "BIC",
      beneficiary |-> name, booking_date |-> day,
      value_date |-> IF difficulty = "hard" /\ ~ Weekend(day + k) THEN day + 1 ELSE day + k] :
        amount \in Amounts, name \in Names, day \in Bookings, k \in {1, 2}}

Pair(ledger, statement) == [ledger |-> ledger, statement |-> statement, prior_bookings |-> {}]

\* _near_miss_amount() and _fmt_amount(): half a cent more, less or nothing,
\* rounded half to even.
NearMiss(amount) == IF amount % 2 = 0 THEN {amount} ELSE {amount - 1, amount, amount + 1}

CleanPairs(difficulty) ==
    UNION {{Pair([r EXCEPT !.amount = a], r) : a \in NearMiss(r.amount)} :
             r \in CleanRecords(difficulty)}

\* One field made unreadable; "X" is a readable name.
Corrupted(r) == {[r EXCEPT !.amount = NotANumber], [r EXCEPT !.reference = ""],
                 [r EXCEPT !.beneficiary = <<"X">>]}

\* _apply_exception().
PairsWith(type, r) ==
    CASE type = "MISSING_MESSAGE"       -> {Pair(r, NoStatement)}
      [] type = "FIELD_CORRUPTION"      -> {Pair(r, c) : c \in Corrupted(r)}
                                             \union {Pair(c, r) : c \in Corrupted(r)}
      [] type = "FX_CONVERSION_ERROR"   -> {Pair(r, [r EXCEPT !.currency = "EUR"])}
      [] type = "AMOUNT_MISMATCH"       -> {Pair(r, [r EXCEPT !.amount = @ + 1237])}
      [] type = "DUPLICATE"             -> {[Pair(r, r) EXCEPT !.prior_bookings = {r.reference}]}
      [] type = "BENEFICIARY_MISMATCH"  -> {Pair(r, [r EXCEPT !.beneficiary = <<"OTHER", "OY">>])}
      [] type = "PARTIAL_MATCH"         -> {Pair(r, [r EXCEPT !.beneficiary = Append(Front(@), "INC")])}
      [] type = "COUNTERPARTY_MISMATCH" -> {Pair(r, [r EXCEPT !.counterparty = "OTHERBIC"])}
      [] type = "VALUE_DATE_MISMATCH"   -> {Pair(r, [r EXCEPT !.value_date = r.booking_date + 5])}

\* generate_reconciliation_task(): gold is what was put in, not yet verified.
ReconciliationTasks(severities) ==
    UNION {
      {Candidate(pair, Match, "LOW", d) : pair \in CleanPairs(d)}
      \union
      UNION {{Candidate(pair, Exception(type), ExceptionSeverity[type], d) :
                pair \in UNION {PairsWith(type, r) : r \in CleanRecords(d)}} :
               type \in Drawable(ExceptionSeverity, severities)} :
      d \in Difficulties["reconciliation"]}

------------------------------------------------------------------------------
\* _make_payment() under a signal whose detail names no source.
Payments(signal) ==
    {[signal |-> signal, creditor |-> "BIC", creditor_name |-> name, source_name |-> name,
      amount |-> amount, source_amount |-> amount, moved |-> 0, instruction |-> "pacs.008"] :
        name \in Names, amount \in Amounts}

\* _apply_signal(): a hard task is a near miss.
Signalled(p, hard) ==
    CASE p.signal = "AMOUNT_MISMATCH" ->
           {[p EXCEPT !.amount = @ + (@ * (IF hard THEN 1 ELSE 12)) \div 100]}
      [] p.signal = "BENEFICIARY_MISMATCH" ->
           {[p EXCEPT !.creditor_name = IF hard THEN Append(@, "HOLDING") ELSE <<"OTHER", "OY">>]}
      [] p.signal = "MISSING_FIELD" ->
           {[p EXCEPT !.creditor_name = << >>], [p EXCEPT !.instruction = ""]}
      [] p.signal = "VALUE_DATE" -> {[p EXCEPT !.moved = IF hard THEN 1 ELSE 5]}
      [] OTHER -> {p}

\* generate_payment_repair_task(): gold is the verifier's own decision.
PaymentTasks(severities) ==
    UNION {{Candidate(q, RepairDecision(q), SignalSeverity[signal], d) :
              q \in UNION {Signalled(p, d = "hard") : p \in Payments(signal)}} :
             signal \in Drawable(SignalSeverity, severities),
             d \in Difficulties["payment_repair"]}

------------------------------------------------------------------------------
\* _make_signal() on a trade within its limit.
Trades(signal) ==
    LET trade == [signal |-> signal, days |-> 0, limit |-> 100, exposure |-> 85] IN
    CASE signal \in {"DELAYED", "MISSING_CONFIRMATION"} -> {[trade EXCEPT !.days = n] : n \in 1 .. 6}
      [] signal = "LIMIT_BREACH" -> {[trade EXCEPT !.exposure = 101], [trade EXCEPT !.exposure = 130]}
      [] OTHER -> {trade}

\* generate_settlement_task().
SettlementTasks(severities) ==
    {Candidate(t, SettlementVerdict(t), SettlementSeverity[t.signal], d) :
       t \in UNION {Trades(s) : s \in Drawable(SettlementSeverity, severities)},
       d \in Difficulties["settlement"]}

------------------------------------------------------------------------------
Drawn == [d \in Domains |-> [m \in Mixes |->
            CASE d = "reconciliation" -> ReconciliationTasks(m)
              [] d = "payment_repair" -> PaymentTasks(m)
              [] d = "settlement"     -> SettlementTasks(m)]]

\* No class has a severity of the mix, which a draw of a class finds out.
MixHasNoClass ==
    CASE domain = "reconciliation" -> Drawable(ExceptionSeverity, mix) = {}
      [] domain = "payment_repair" -> Drawable(SignalSeverity, mix) = {}
      [] domain = "settlement"     -> Drawable(SettlementSeverity, mix) = {}

\* The verifier of the domain, of the state alone.
Verdict(state) ==
    CASE domain = "reconciliation" -> ReconciliationVerdict(state)
      [] domain = "payment_repair" -> RepairDecision(state)
      [] domain = "settlement"     -> SettlementVerdict(state)

\* Mutant: the metadata is hashed as well.
SignatureWithId(task) == task

\* task_signature(): all but id, seed and signature.
Signature(task) == [task EXCEPT !.id = "excluded"]

SignaturesOf(suite) == {Signature(suite[i]) : i \in DOMAIN suite}

Request == Requests[Len(suites) + 1]

TaskOf(c) == [id |-> <<Request.seed, Len(tasks)>>, domain |-> domain, content |-> c]

\* Mutant: what another suite of the process has is not generated again.
SeenInAnySuite == SignaturesOf(tasks) \union UNION {SignaturesOf(suites[i]) : i \in DOMAIN suites}

\* seen_ids of the loop that runs.
Seen == SignaturesOf(tasks)

\* Mutant: the generator trusts its own gold.
KeepsUnverified(c) == Signature(TaskOf(c)) \notin Seen

\* The verifier agrees with gold, and the suite has no such task yet.
Keeps(c) == Verdict(c.state) = c.gold /\ Signature(TaskOf(c)) \notin Seen

Init ==
    /\ domain \in Domains
    /\ mix \in Mixes
    /\ stream = [s \in Seeds |-> << >>]
    /\ attempts = 0
    /\ tasks = << >>
    /\ suites = << >>
    /\ stage = "generate"

Wanted == stage = "generate" /\ Len(suites) < Len(Requests)

\* Mutant: only kept candidates count as attempts.
AttemptsAfter(c) == IF Keeps(c) THEN attempts + 1 ELSE attempts

AttemptsMade(c) == attempts + 1

\* while len(tasks) < n_tasks and attempts < max_attempts.
MayTry == attempts < AttemptsPerTask * Request.n

\* One turn of the loop.
Draw ==
    LET read == stream[Request.seed] IN
    /\ Wanted
    /\ Len(tasks) < Request.n /\ MayTry
    /\ \E c \in IF attempts < Len(read) THEN {read[attempts + 1]} ELSE Drawn[domain][mix] :
         /\ stream' = [stream EXCEPT ![Request.seed] = IF attempts < Len(@) THEN @ ELSE Append(@, c)]
         /\ attempts' = AttemptsMade(c)
         /\ tasks' = IF Keeps(c) THEN Append(tasks, TaskOf(c)) ELSE tasks
    /\ UNCHANGED <<domain, mix, suites, stage>>

\* The draw of a class raises ValueError.
DrawRaises ==
    /\ Wanted /\ MixHasNoClass
    /\ Len(tasks) < Request.n /\ MayTry
    /\ attempts = Len(stream[Request.seed])
    /\ stage' = "raised"
    /\ UNCHANGED <<domain, mix, stream, attempts, tasks, suites>>

\* return tasks.
Complete ==
    /\ Wanted
    /\ Len(tasks) = Request.n
    /\ suites' = Append(suites, tasks)
    /\ tasks' = << >>
    /\ attempts' = 0
    /\ UNCHANGED <<domain, mix, stream, stage>>

\* RuntimeError: generator exhausted retries.
Exhausted ==
    /\ Wanted
    /\ Len(tasks) < Request.n /\ ~ MayTry
    /\ stage' = "raised"
    /\ UNCHANGED <<domain, mix, stream, attempts, tasks, suites>>

\* signature_overlap() as a count: it is 0.0 when this is 0.
Overlap(train, eval) == Cardinality(SignaturesOf(train) \intersect SignaturesOf(eval))

\* build_payload(): certify, then refuse or go on to publish.
Certify ==
    /\ stage = "generate" /\ Len(suites) = Len(Requests)
    /\ stage' = IF Overlap(suites[Train], suites[Eval]) = 0 THEN "published" ELSE "refused"
    /\ UNCHANGED <<domain, mix, stream, attempts, tasks, suites>>

Next == Draw \/ DrawRaises \/ Complete \/ Exhausted \/ Certify

Spec == Init /\ [][Next]_vars

\* The loops are sequential code that nothing blocks.
FairSpec == Spec /\ WF_vars(Next)

------------------------------------------------------------------------------
Accepted == ToSet(tasks) \union UNION {ToSet(suites[i]) : i \in DOMAIN suites}

\* What a miss is charged is what the fields deserve: the severity of a task is
\* the one of the class its state shows, whatever class was injected (a
\* beneficiary overwritten as corrupt reads as another beneficiary).  It is one
\* that was asked for, but for clean pairs, and if it is CRITICAL no automatic
\* answer is right.
SeverityFitsTheFields ==
    \A t \in Accepted :
        LET shown == Verdict(t.content.state).exception_type
            severity == t.content.severity
        IN
        /\ severity =
            CASE shown = "null"            -> "LOW"
              [] shown \in ExceptionTypes /\ domain = "reconciliation" -> ExceptionSeverity[shown]
              [] shown \in PaymentSignals /\ domain = "payment_repair" -> SignalSeverity[shown]
              [] shown \in SettlementSignals /\ domain = "settlement" -> SettlementSeverity[shown]
        /\ mix # {} => severity \in mix \/ t.content.gold = Match
        /\ severity = "CRITICAL" =>
             t.content.gold.verdict \notin {"MATCH", "REPAIR_SAFE", "ESCALATE"}

\* A model that applies the rules of the prompt as they are worded answers
\* every payment and settlement task as the verifier does, in every graded
\* field.  In reconciliation the prompt leaves one answer, verdict and
\* exception_type, and it is the verifier's, but for three kinds of task: an
\* amount one cent off, a reference booked before, and another beneficiary, of
\* which it leaves open which of two classes it is.  And the answer is within
\* the schema the prompt asks for.
StatedRulesDecide ==
    \A t \in Accepted :
        LET s == t.content.state
            g == t.content.gold
        IN  CASE domain = "payment_repair" ->
                   /\ StatedRepair(s) = g
                   /\ g \in AnswersPayment
              [] domain = "settlement" ->
                   /\ StatedSettlement(s) = g
                   /\ g \in AnswersSettlement
              [] domain = "reconciliation" ->
                   /\ \/ StatedAnswers(s) = {g}
                      \/ g = Match /\ Distance(s.ledger.amount, s.statement.amount) = 1
                      \/ g = Exception("DUPLICATE")
                      \/ g \in StatedAnswers(s) /\ s.ledger.beneficiary # s.statement.beneficiary
                   /\ g \in AnswersReconciliation

\* Of two suites of one seed the shorter is a prefix of the longer: retries,
\* rejections and other suites in between shift nothing ("Same seed =>
\* byte-identical Task list"; "the prefix subset n_tasks=" of publish.py).
SameSeedSamePrefix ==
    \A i, j \in DOMAIN suites :
        Requests[i].seed = Requests[j].seed /\ Requests[i].n <= Requests[j].n =>
            IsPrefix(suites[i], suites[j])

\* Splits that are published have no task in common, also not under another
\* number ("a renumbered copy of the same content still collides").
PublishedSplitsShareNothing ==
    stage = "published" =>
        \A i \in DOMAIN suites[Train], j \in DOMAIN suites[Eval] :
            suites[Train][i].content # suites[Eval][j].content

\* Every generation ends: with its suites, or with an exception.
GenerationEnds == <>(stage # "generate")

------------------------------------------------------------------------------
\* generate/prompt.py of its rules: "without them a model is scored on guessing
\* an unpublished convention rather than on applying a stated one".  So what the
\* prompt states leaves one answer to a reconciliation task: the verifier's.
ScoredOnStatedRules ==
    domain = "reconciliation" =>
        \A t \in Accepted : StatedAnswers(t.content.state) = {t.content.gold}
==============================================================================
