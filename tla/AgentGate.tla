------------------------------- MODULE AgentGate -------------------------------
(***************************************************************************)
(* The policy gates in front of an agent's model and tool calls, and the   *)
(* way of their decisions into the audit ledger:                           *)
(*   LossGuardMiddleware (src/lossbench/adapters/langgraph.py),            *)
(*   DshPluginBridge (src/lossbench/adapters/dsh/plugin.py),               *)
(*   TrajectoryRecorder (src/lossbench/record/recorder.py) and             *)
(*   POST /v1/tenants/{tenant_id}/events (src/lossbench/server/app.py).    *)
(*                                                                         *)
(* A gate is an object with an engine and perhaps a recorder; the agent's  *)
(* threads share it.  Who drains a recorder is no part of this code: it    *)
(* flushes when it likes and posts each event any number of times, because *)
(* an answer may be lost.  The server appends to one ledger, whose append  *)
(* is one step (see AuditLedger).  A gate's process may die; the next one  *)
(* makes the object anew.                                                  *)
(***************************************************************************)
EXTENDS DecisionPolicy

CONSTANTS Threads,      \* threads of the agents
          Middlewares,  \* LossGuardMiddleware objects
          Bridges,      \* DshPluginBridge objects
          Recording,    \* the gates that have a recorder
          BundleOf,     \* the policy of each gate's engine
          Asks,         \* what a harness may tell a hook of a call
          Resolutions,  \* the human answers a bridge is told
          MaxCalls,     \* bound: calls that are gated
          MaxAnswers,   \* bound: calls of on_resolution()
          MaxLives      \* bound: restarts of a gate

Gates == Middlewares \union Bridges

\* model_tiers is a dict: a model is in one tier.
IsTierDict(tiers) ==
    /\ tiers \in Seq([model : STRING, cost : Nat])
    /\ \A i, j \in DOMAIN tiers : tiers[i].model = tiers[j].model => i = j

HasRisk(ask) == "risk" \in DOMAIN ask /\ ask.risk \in Nat \union {NoRisk}

ASSUME GateAssumption ==
    /\ Middlewares \intersect Bridges = {} /\ Recording \subseteq Gates
    /\ DOMAIN BundleOf = Gates
    /\ \A g \in Gates : /\ BundleOf[g].escalation_threshold \in Int
                      /\ IsTierDict(BundleOf[g].model_tiers)
    /\ \A ask \in Asks : HasRisk(ask)
    /\ {MaxCalls, MaxAnswers, MaxLives} \subseteq Nat

VARIABLES pc,        \* where each thread is
          call,      \* the decision each thread is at: an index of decided
          decided,   \* the decisions made, in order
          went,      \* the decisions whose model or tool was then called
          seq,       \* _seq of each middleware
          life,      \* how often each gate was made anew
          buffer,    \* _events of each gate's recorder
          flushed,   \* the events each gate's recorder has handed out
          told,      \* the answers on_resolution() has returned
          ledger,    \* the events stored
          answered   \* <<event, status>> of the posts

vars == <<pc, call, decided, went, seq, life, buffer, flushed, told, ledger, answered>>

NoCall == 0

Init ==
    /\ pc = [t \in Threads |-> "idle"]
    /\ call = [t \in Threads |-> NoCall]
    /\ decided = << >>
    /\ went = {}
    /\ seq = [g \in Middlewares |-> 0]
    /\ life = [g \in Gates |-> 0]
    /\ buffer = [g \in Gates |-> {}]
    /\ flushed = [g \in Gates |-> {}]
    /\ told = << >>
    /\ ledger = {}
    /\ answered = {}

------------------------------------------------------------------------------
HooksOf(g) == IF g \in Bridges THEN {"on_before_model", "on_before_tool"}
              ELSE {"wrap_model_call", "wrap_tool_call", "before_model"}

\* The DecisionRequest of a middleware's hook.  The hooks of the LangChain
\* surface have no place for a risk, a severity or models: the request has the
\* defaults.  (before_tool() does what wrap_tool_call() does.)
MiddlewareRequest(hook, ask) ==
    LET bare == [tool |-> ask.tool, risk |-> NoRisk, severity |-> "LOW", models |-> << >>]
    IN  CASE hook = "wrap_model_call" -> [bare EXCEPT !.tool = "model_call"]
          [] hook = "wrap_tool_call"  -> bare
          [] hook = "before_model"    -> ask

\* on_before_model(): what the messages' metadata say.
BridgeModelRequest(ask) == ask

\* on_before_tool(): what the tool's arguments say.
BridgeToolRequest(ask) == [ask EXCEPT !.models = << >>]

RequestOf(hook, ask) ==
    CASE hook = "on_before_model" -> BridgeModelRequest(ask)
      [] hook = "on_before_tool"  -> BridgeToolRequest(ask)
      [] OTHER                    -> MiddlewareRequest(hook, ask)

Goto(t, label) == pc' = [pc EXCEPT ![t] = label]

FirstStep(g) == IF g \notin Recording THEN "act"
                ELSE IF g \in Middlewares THEN "number" ELSE "record"

\* A hook is called: the engine decides.
Gate(t) ==
    /\ pc[t] = "idle"
    /\ Len(decided) < MaxCalls
    /\ \E g \in Gates : \E hook \in HooksOf(g) :
         \E request \in {RequestOf(hook, ask) : ask \in Asks} :
           /\ decided' = Append(decided,
                 [thread |-> t, gate |-> g, life |-> life[g], hook |-> hook, request |-> request,
                  decision |-> Decide(BundleOf[g], request).decision,
                  model |-> Decide(BundleOf[g], request).model])
           /\ Goto(t, FirstStep(g))
    /\ call' = [call EXCEPT ![t] = Len(decided) + 1]
    /\ UNCHANGED <<went, seq, life, buffer, flushed, told, ledger, answered>>

GateOf(t) == decided[call[t]].gate

\* self._seq += 1.
NumberTaken(g) == [seq EXCEPT ![g] = @ + 1]

Number(t) ==
    /\ pc[t] = "number"
    /\ seq' = NumberTaken(GateOf(t))
    /\ Goto(t, "record")
    /\ UNCHANGED <<call, decided, went, life, buffer, flushed, told, ledger, answered>>

\* f"mw-{self.name}-{self._seq}", where name is the class's.
MiddlewareId(g) == <<"mw", seq[g]>>

\* uuid.uuid4().hex: no two are the same.
BridgeId(n) == <<"uuid", n>>

DecisionId(g, n) == IF g \in Middlewares THEN MiddlewareId(g) ELSE BridgeId(n)

\* What is kept of a DecisionEvent: its id and the decision it is about.
Event(id, n, decision) == [id |-> id, of |-> n, decision |-> decision]

\* Mutant: the after hook records an ALLOW of its own.
EventsWithAfterHook(g, n) ==
    {Event(DecisionId(g, n), n, decided[n].decision), Event(DecisionId(g, n), n, "ALLOW")}

\* The events recorded of decision n.
EventsOf(g, n) == {Event(DecisionId(g, n), n, decided[n].decision)}

\* record_decision(): the event goes into the recorder's buffer.
Record(t) ==
    LET g == GateOf(t) IN
    /\ pc[t] = "record"
    /\ buffer' = [buffer EXCEPT ![g] = @ \union EventsOf(g, call[t])]
    /\ Goto(t, "act")
    /\ UNCHANGED <<call, decided, went, seq, life, flushed, told, ledger, answered>>

\* A middleware raises on DENY; an ESCALATE passes.
MiddlewarePasses(decision) == decision # "DENY"

\* Mutant: the bridge answers "continue" unless the call is denied.
EnvelopeUnlessDenied(decision) == IF decision = "DENY" THEN "block" ELSE "continue"

\* The action of the bridge's answer.
Envelope(decision) ==
    CASE decision = "DENY"     -> "block"
      [] decision = "ESCALATE" -> "escalate"
      [] OTHER                 -> "continue"

\* The handler is called, or the harness goes on.
Passes(d) == IF d.gate \in Middlewares THEN MiddlewarePasses(d.decision)
             ELSE Envelope(d.decision) = "continue"

Act(t) ==
    /\ pc[t] = "act"
    /\ went' = IF Passes(decided[call[t]]) THEN went \union {call[t]} ELSE went
    /\ Goto(t, "idle")
    /\ call' = [call EXCEPT ![t] = NoCall]
    /\ UNCHANGED <<decided, seq, life, buffer, flushed, told, ledger, answered>>

\* Mutant: the answer takes the id of the decision it answers.
AnswerIdOfDecision(n) == BridgeId(n)

\* f"{decision_id}@resolved".
AnswerId(n) == <<"resolved", n>>

\* APPROVE is recorded as ALLOW, REJECT as DENY, AMEND as VERIFY.
AnswerDecision(resolution) ==
    CASE resolution = "APPROVE" -> "ALLOW"
      [] resolution = "REJECT"  -> "DENY"
      [] resolution = "AMEND"   -> "VERIFY"

\* _validate_resolution(): otherwise it raises and nothing is recorded.
IsValid(resolution) == resolution \in {"APPROVE", "REJECT", "AMEND"}

\* on_resolution(): nothing is asked of the decision or of earlier answers.
OnResolution(g) ==
    /\ g \in Bridges
    /\ Len(told) < MaxAnswers
    /\ \E n \in {k \in DOMAIN decided : decided[k].gate \in Bridges
                                        /\ decided[k].decision = "ESCALATE"},
          resolution \in Resolutions :
         /\ IsValid(resolution)
         /\ LET e == Event(AnswerId(n), n, AnswerDecision(resolution)) IN
            /\ told' = Append(told, e)
            /\ buffer' = IF g \in Recording THEN [buffer EXCEPT ![g] = @ \union {e}]
                         ELSE buffer
    /\ UNCHANGED <<pc, call, decided, went, seq, life, flushed, ledger, answered>>

\* flush() hands out the buffered events and starts with an empty buffer.
Flush(g) ==
    /\ buffer[g] # {}
    /\ flushed' = [flushed EXCEPT ![g] = @ \union buffer[g]]
    /\ buffer' = [buffer EXCEPT ![g] = {}]
    /\ UNCHANGED <<pc, call, decided, went, seq, life, told, ledger, answered>>

\* Mutant: a repeated event_id is stored again.
NothingTaken(e) == FALSE

\* append() raises ValueError.
IdTaken(e) == \E f \in ledger : f.id = e.id

\* post_event(): 201, or 409 when the ledger has the event_id.
Post(g) ==
    /\ \E e \in flushed[g] :
         IF IdTaken(e)
         THEN /\ answered' = answered \union {<<e, 409>>}
              /\ UNCHANGED ledger
         ELSE /\ ledger' = ledger \union {e}
              /\ answered' = answered \union {<<e, 201>>}
    /\ UNCHANGED <<pc, call, decided, went, seq, life, buffer, flushed, told>>

\* The gate's process dies with what it buffered, had flushed or was doing.
Restart(g) ==
    LET caught == {t \in Threads : call[t] # NoCall /\ GateOf(t) = g} IN
    /\ life[g] < MaxLives
    /\ life' = [life EXCEPT ![g] = @ + 1]
    /\ seq' = [m \in Middlewares |-> IF m = g THEN 0 ELSE seq[m]]
    /\ buffer' = [buffer EXCEPT ![g] = {}]
    /\ flushed' = [flushed EXCEPT ![g] = {}]
    /\ pc' = [t \in Threads |-> IF t \in caught THEN "idle" ELSE pc[t]]
    /\ call' = [t \in Threads |-> IF t \in caught THEN NoCall ELSE call[t]]
    /\ UNCHANGED <<decided, went, told, ledger, answered>>

Next ==
    \/ \E t \in Threads : Gate(t) \/ Number(t) \/ Record(t) \/ Act(t)
    \/ \E g \in Gates : OnResolution(g) \/ Flush(g) \/ Post(g) \/ Restart(g)

Spec == Init /\ [][Next]_vars

------------------------------------------------------------------------------
\* No call of a denied tool goes through a gate, by whatever hook and with
\* whatever risk; and a bridge lets nothing through that awaits a human.
PolicyHolds ==
    \A n \in went :
        LET d == decided[n] IN
        /\ ~ Denied(BundleOf[d.gate], d.request.tool)
        /\ d.gate \in Bridges =>
             ~ Escalated(BundleOf[d.gate], Probability(d.request.risk),
                         SeverityOf(d.request.severity))

\* The events about decision n that are not answers of a human.
Recorded(events, n) == {e \in events : e.of = n /\ e \notin ToSet(told)}

\* "exactly ONE DecisionEvent per decision point ... with the engine's actual
\* decision" (langgraph.py, module docstring): while a gate lives, every call it
\* has dealt with, refused or not, has one event, and no event that is stored
\* contradicts the decision.  A middleware gives one number only to calls that
\* run at once: the events of a thread have ids of their own.
OneEventPerDecision ==
    /\ \A g \in Middlewares : \A e, f \in buffer[g] \union flushed[g] :
         e.id = f.id /\ decided[e.of].thread = decided[f.of].thread => e = f
    /\ \A n \in DOMAIN decided :
         LET d == decided[n]
             g == d.gate
         IN /\ g \in Recording /\ life[g] = d.life /\ (\A t \in Threads : call[t] # n)
               => Cardinality(Recorded(buffer[g] \union flushed[g], n)) = 1
            /\ \A e \in Recorded(buffer[g] \union flushed[g] \union ledger, n) :
                  e.decision = d.decision

\* A bridge's decisions are never taken for another event: refused is only what
\* is stored.  "The resolution event's id is derived ... so it can never collide
\* with the source decision's ledger id" (plugin.py, on_resolution).
BridgeDecisionsAreKept ==
    \A a \in answered : decided[a[1].of].gate \in Bridges /\ a[1] \notin ToSet(told)
                        => a[1] \in ledger

\* An event that was accepted stays stored, alone under its id, however often
\* and late it and others are posted: of several answers to one decision the
\* first that arrives stands.
AcceptedStands ==
    \A a \in answered : a[2] = 201 =>
        a[1] \in ledger /\ \A f \in ledger : f.id = a[1].id => f = a[1]

CostOfModel(g, model) ==
    LET tiers == BundleOf[g].model_tiers
    IN  tiers[CHOOSE i \in DOMAIN tiers : tiers[i].model = model].cost

\* Of two calls of a tool at one gate the riskier and more severe one gets no
\* less review, and of two that are routed among the same tiers it gets no
\* cheaper model: the engine reads a tier as a price that buys safety.
\* (fit_model_tiers() makes a tier of a model's risk, the other way round.)
RiskierCallsGetMoreCare ==
    \A m, n \in DOMAIN decided :
        LET a == decided[m]
            b == decided[n]
        IN /\ a.gate = b.gate /\ a.request.tool = b.request.tool
           /\ Probability(a.request.risk) <= Probability(b.request.risk)
           /\ CostOf[SeverityOf(a.request.severity)] <= CostOf[SeverityOf(b.request.severity)]
           => /\ a.decision = "ESCALATE" => b.decision = "ESCALATE"
              /\ /\ a.request.models = b.request.models
                 /\ TiersAvailable(BundleOf[a.gate], a.request.models) # {}
                 /\ a.decision = "ROUTE" /\ b.decision = "ROUTE"
                 => CostOfModel(a.gate, a.model) <= CostOfModel(b.gate, b.model)

------------------------------------------------------------------------------
\* server/app.py, post_event: "A duplicate event_id returns 409 (idempotent
\* retry semantics on an append-only endpoint)": what is refused is a retry.
ConflictIsRetry == \A a \in answered : a[2] = 409 => a[1] \in ledger
==============================================================================
