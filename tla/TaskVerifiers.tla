---------------------------- MODULE TaskVerifiers ----------------------------
(***************************************************************************)
(* The domain verifiers of src/lossbench/generate: what the fields of a    *)
(* task's initial_state decide, in the order the code tries its rules, and *)
(* the rules as the prompt states them to a model (generate/prompt.py).    *)
(*                                                                         *)
(* A name is the sequence of its word tokens, an amount counts cents, and  *)
(* a date counts days from a Monday.                                       *)
(***************************************************************************)
EXTENDS Integers, FiniteSets, Sequences, SequencesExt

\* The result of the first rule whose condition holds.
FirstMatch(rules) ==
    LET Fires(i) == rules[i].when /\ \A j \in 1 .. i - 1 : ~ rules[j].when
    IN  rules[CHOOSE i \in DOMAIN rules : Fires(i)].then

Otherwise == TRUE
Rule(condition, result) == [when |-> condition, then |-> result]

Distance(a, b) == IF a > b THEN a - b ELSE b - a

\* _token_overlap(): shared tokens in all tokens, 0.0 when a name is blank.
Shared(a, b) == Cardinality(ToSet(a) \intersect ToSet(b))
AllTokens(a, b) == Cardinality(ToSet(a) \union ToSet(b))

------------------------------------------------------------------------------
(* Reconciliation: a ledger record and the counterparty's statement of it. *)

ExceptionSeverity ==
    LET high   == {"AMOUNT_MISMATCH", "FX_CONVERSION_ERROR", "BENEFICIARY_MISMATCH",
                   "COUNTERPARTY_MISMATCH"}
        medium == {"VALUE_DATE_MISMATCH", "MISSING_MESSAGE", "PARTIAL_MATCH"}
        low    == {"DUPLICATE", "FIELD_CORRUPTION"}
    IN  [t \in high \union medium \union low |->
           CASE t \in high -> "HIGH" [] t \in medium -> "MEDIUM" [] t \in low -> "LOW"]

ExceptionTypes == DOMAIN ExceptionSeverity

\* An amount that Decimal() does not parse.
NotANumber == -1

\* A state without a statement.
NoStatement == [reference |-> "", amount |-> NotANumber, currency |-> "", counterparty |-> "",
                beneficiary |-> << >>, value_date |-> -1, booking_date |-> -1]

IllFormed(side) ==
    \/ "" \in {side.reference, side.currency, side.counterparty}
    \/ side.beneficiary = << >>
    \/ side.amount = NotANumber

Weekend(day) == day % 7 >= 5

\* _TOLERANCE, in cents.
Tolerance == 1

Match == [verdict |-> "MATCH", exception_type |-> "null"]
Exception(type) == [verdict |-> "EXCEPTION", exception_type |-> type]

ReconciliationVerdict(state) ==
    LET l == state.ledger
        s == state.statement
    IN  FirstMatch(<<
          Rule(s = NoStatement, Exception("MISSING_MESSAGE")),
          Rule(IllFormed(l) \/ IllFormed(s), Exception("FIELD_CORRUPTION")),
          Rule(l.currency # s.currency, Exception("FX_CONVERSION_ERROR")),
          Rule(Distance(l.amount, s.amount) > Tolerance, Exception("AMOUNT_MISMATCH")),
          Rule(s.reference \in state.prior_bookings, Exception("DUPLICATE")),
          Rule(l.beneficiary # s.beneficiary /\ Shared(l.beneficiary, s.beneficiary) > 0,
               Exception("PARTIAL_MATCH")),
          Rule(l.beneficiary # s.beneficiary, Exception("BENEFICIARY_MISMATCH")),
          Rule(l.counterparty # s.counterparty, Exception("COUNTERPARTY_MISMATCH")),
          Rule(/\ l.value_date # s.value_date
               /\ Weekend(s.value_date) \/ s.value_date - l.booking_date > 2,
               Exception("VALUE_DATE_MISMATCH")),
          Rule(Otherwise, Match) >>)

\* The classes whose name fits the two records: of a class the prompt tells a
\* model its name and no more.
FittingClasses(state) ==
    LET l == state.ledger
        s == state.statement
        Fits(type) ==
            \/ type = "FIELD_CORRUPTION" /\ (IllFormed(l) \/ IllFormed(s))
            \/ type = "FX_CONVERSION_ERROR" /\ l.currency # s.currency
            \/ type = "AMOUNT_MISMATCH" /\ l.amount # s.amount /\ NotANumber \notin {l.amount, s.amount}
            \/ type = "DUPLICATE" /\ s.reference \in state.prior_bookings
            \/ type \in {"PARTIAL_MATCH", "BENEFICIARY_MISMATCH"} /\ l.beneficiary # s.beneficiary
            \/ type = "COUNTERPARTY_MISMATCH" /\ l.counterparty # s.counterparty
            \/ type = "VALUE_DATE_MISMATCH" /\ l.value_date # s.value_date
    IN  IF s = NoStatement THEN {"MISSING_MESSAGE"} ELSE {type \in ExceptionTypes : Fits(type)}

\* The answers the prompt leaves open: "If every field agrees between the ledger
\* record and the statement, verdict is MATCH and exception_type is null.
\* Otherwise verdict is EXCEPTION and exception_type names the single
\* discrepancy class."
StatedAnswers(state) ==
    IF state.ledger = state.statement
    THEN {Match}
    ELSE {Exception(type) : type \in FittingClasses(state)}

AnswersReconciliation ==
    [verdict : {"MATCH", "EXCEPTION"}, exception_type : ExceptionTypes \union {"null"}]

------------------------------------------------------------------------------
(* Payment repair: a payment, the signal that stopped it, and what the      *)
(* signal's detail says of the source (no detail: the payment's own field). *)

SignalSeverity ==
    LET high   == {"AMOUNT_MISMATCH", "BENEFICIARY_MISMATCH"}
        medium == {"RETURNED", "REJECTED", "VALUE_DATE"}
        low    == {"DUPLICATE_ALERT", "MISSING_FIELD"}
    IN  [g \in {"FRAUD_HOLD"} \union high \union medium \union low |->
           CASE g = "FRAUD_HOLD" -> "CRITICAL"
             [] g \in high -> "HIGH" [] g \in medium -> "MEDIUM" [] g \in low -> "LOW"]

PaymentSignals == DOMAIN SignalSeverity

\* _amount_deviation() beyond _NEAR_MISS_TOLERANCE, which is 2 %.
DeviatesTooMuch(p) == 50 * Distance(p.amount, p.source_amount) > p.source_amount

\* _beneficiary_overlap() below _OVERLAP_THRESHOLD, which is a half.
OverlapsTooLittle(p) ==
    2 * Shared(p.creditor_name, p.source_name) < AllTokens(p.creditor_name, p.source_name)

Repair(verdict, signal, verb) ==
    [verdict |-> verdict, exception_type |-> signal,
     repair_safe |-> verdict = "REPAIR_SAFE", repair |-> verb]

OnHold(p) == p.signal = "FRAUD_HOLD"

\* compute_repair_decision_from_state(): the verdict and the repair.
RepairRules(p) ==
    LET hitl == <<"HITL", "hold_hitl">>
        Safe(verb) == <<"REPAIR_SAFE", verb>>
    IN  <<Rule(OnHold(p), <<"EXCEPTION", "hold_hitl">>),
          Rule(p.creditor = "" \/ p.creditor_name = << >>, hitl),
          Rule(p.signal = "AMOUNT_MISMATCH" /\ ~ DeviatesTooMuch(p), Safe("amend_amount")),
          Rule(DeviatesTooMuch(p), hitl),
          Rule(p.signal = "BENEFICIARY_MISMATCH" /\ ~ OverlapsTooLittle(p),
               Safe("amend_beneficiary")),
          Rule(OverlapsTooLittle(p), hitl),
          Rule(p.signal = "DUPLICATE_ALERT", hitl),
          Rule(p.signal = "VALUE_DATE", Safe("resubmit")),
          Rule(Otherwise, Safe("approve"))>>

RepairDecision(p) ==
    LET outcome == FirstMatch(RepairRules(p))
    IN  Repair(outcome[1], p.signal, outcome[2])

\* The rules of the prompt as it words them: "creditor_name shares at least
\* half its word tokens with detail.source_creditor_name", so the share is of
\* the name's own tokens.
StatedOutcome(p) ==
    LET within == 100 * Distance(p.amount, p.source_amount) <= 2 * p.source_amount
        half   == 2 * Shared(p.creditor_name, p.source_name)
                    >= Cardinality(ToSet(p.creditor_name))
    IN  FirstMatch(<<
          Rule(p.signal = "FRAUD_HOLD", <<"EXCEPTION", "hold_hitl">>),
          Rule(p.creditor = "" \/ p.creditor_name = << >>, <<"HITL", "hold_hitl">>),
          Rule(p.signal = "AMOUNT_MISMATCH" /\ within, <<"REPAIR_SAFE", "amend_amount">>),
          Rule(~ within, <<"HITL", "hold_hitl">>),
          Rule(p.signal = "BENEFICIARY_MISMATCH" /\ half, <<"REPAIR_SAFE", "amend_beneficiary">>),
          Rule(~ half, <<"HITL", "hold_hitl">>),
          Rule(p.signal = "DUPLICATE_ALERT", <<"HITL", "hold_hitl">>),
          Rule(p.signal = "VALUE_DATE", <<"REPAIR_SAFE", "resubmit">>),
          Rule(Otherwise, <<"REPAIR_SAFE", "approve">>) >>)

\* A rule says repair_safe true where it says REPAIR_SAFE; "exception_type is
\* always the signal named in the input".
StatedRepair(p) == Repair(StatedOutcome(p)[1], p.signal, StatedOutcome(p)[2])

AnswersPayment ==
    [verdict : {"REPAIR_SAFE", "EXCEPTION", "HITL"}, exception_type : PaymentSignals,
     repair_safe : BOOLEAN,
     repair : {"approve", "amend_amount", "amend_beneficiary", "resubmit", "hold_hitl", "reject"}]

------------------------------------------------------------------------------
(* Settlement: a trade and the signal about it. *)

SettlementSeverity ==
    LET high   == {"LIMIT_BREACH", "COUNTERPARTY_MISMATCH"}
        medium == {"DELAYED", "MISSING_CONFIRMATION"}
    IN  [g \in {"HERSTATT_EXPOSURE", "ON_TIME"} \union high \union medium |->
           CASE g = "HERSTATT_EXPOSURE" -> "CRITICAL"
             [] g \in high -> "HIGH" [] g \in medium -> "MEDIUM" [] g = "ON_TIME" -> "LOW"]

SettlementSignals == DOMAIN SettlementSeverity

\* _T2_GRACE_DAYS.
Grace == 2

\* Mutant: the days of grace are counted as late.
ExposureRulesWithoutGrace(t) ==
    <<Rule(t.signal = "HERSTATT_EXPOSURE", "CRITICAL"),
      Rule(t.signal = "LIMIT_BREACH" /\ t.exposure > t.limit, "HIGH"),
      Rule(t.signal \in {"DELAYED", "MISSING_CONFIRMATION"} /\ t.days >= Grace, "HIGH"),
      Rule(Otherwise, "LOW")>>

\* _exposure_class_from_signal() and compute_verdict_from_state().
ExposureRules(t) ==
    <<Rule(t.signal = "HERSTATT_EXPOSURE", "CRITICAL"),
      Rule(t.signal = "LIMIT_BREACH" /\ t.exposure > t.limit, "HIGH"),
      Rule(t.signal \in {"DELAYED", "MISSING_CONFIRMATION"} /\ t.days > Grace, "HIGH"),
      Rule(Otherwise, "LOW")>>

ExposureClass(t) == FirstMatch(ExposureRules(t))

SettlementRules(t) ==
    LET class == ExposureClass(t)
        Verdict(verdict, type) ==
            [verdict |-> verdict, exception_type |-> type, exposure_class |-> class]
    IN  <<Rule(t.signal = "ON_TIME", Verdict("MATCH", "null")),
          Rule(class \in {"HIGH", "CRITICAL"}, Verdict("HITL", t.signal)),
          Rule(Otherwise, Verdict("ESCALATE", t.signal))>>

SettlementVerdict(t) == FirstMatch(SettlementRules(t))

\* The prompt's rules: the class by signal, then the verdict by class;
\* "exception_type is the signal named in the input, except for ON_TIME".
StatedSettlement(t) ==
    LET class == CASE t.signal = "HERSTATT_EXPOSURE" -> "CRITICAL"
                   [] t.signal = "LIMIT_BREACH" -> IF t.exposure > t.limit THEN "HIGH" ELSE "LOW"
                   [] t.signal \in {"DELAYED", "MISSING_CONFIRMATION"} ->
                        IF t.days > 2 THEN "HIGH" ELSE "LOW"
                   [] OTHER -> "LOW"
        verdict == CASE t.signal = "ON_TIME" -> "MATCH"
                     [] t.signal # "ON_TIME" /\ class = "LOW" -> "ESCALATE"
                     [] OTHER -> "HITL"
    IN  [verdict |-> verdict,
         exception_type |-> IF t.signal = "ON_TIME" THEN "null" ELSE t.signal,
         exposure_class |-> class]

AnswersSettlement ==
    [verdict : {"MATCH", "ESCALATE", "HITL"},
     exception_type : (SettlementSignals \ {"ON_TIME"}) \union {"null"},
     exposure_class : {"LOW", "HIGH", "CRITICAL"}]
==============================================================================
