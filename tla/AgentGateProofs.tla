---------------------------- MODULE AgentGateProofs ----------------------------
(***************************************************************************)
(* Proofs about AgentGate: what a gate lets through obeys the policy, what *)
(* the server has accepted stands, a decision has one event, and a riskier *)
(* call gets no less care, for any agents, gates, policies and calls,      *)
(* whatever is lost, repeated or restarted.                                *)
(***************************************************************************)
EXTENDS AgentGate, FiniteSetTheorems, WellFoundedInduction, TLAPS

Hooks == {"on_before_model", "on_before_tool", "wrap_model_call", "wrap_tool_call",
          "before_model"}

Requests == {RequestOf(hook, ask) : hook \in Hooks, ask \in Asks}

Responses == {Decide(BundleOf[g], request) : g \in Gates, request \in Requests}

DecidedCalls ==
    [thread : Threads, gate : Gates, life : Nat, hook : Hooks, request : Requests,
     decision : {r.decision : r \in Responses}, model : {r.model : r \in Responses}]

HumanAnswers == [id : {AnswerId(n) : n \in Nat}, of : Nat, decision : {"ALLOW", "DENY", "VERIFY"}]

\* The types the proofs need.
GateTypes ==
    /\ decided \in Seq(DecidedCalls)
    /\ call \in [Threads -> Nat]
    /\ pc \in [Threads -> {"idle", "number", "record", "act"}]
    /\ life \in [Gates -> Nat]
    /\ told \in Seq(HumanAnswers)
    /\ DOMAIN buffer = Gates /\ DOMAIN flushed = Gates

\* Every decision is the engine's, and only what passes has gone through.
GateInv ==
    /\ \A n \in DOMAIN decided :
         decided[n].decision = Decide(BundleOf[decided[n].gate], decided[n].request).decision
    /\ \A t \in Threads : pc[t] # "idle" => call[t] \in DOMAIN decided
    /\ \A n \in went : n \in DOMAIN decided /\ Passes(decided[n])

\* What an event can be: the answer of a human, the decision of a bridge under
\* the id that only this decision has, or that of a middleware.
OfBridge(e) ==
    /\ e.of \in DOMAIN decided
    /\ decided[e.of].gate \in Bridges
    /\ e = Event(BridgeId(e.of), e.of, decided[e.of].decision)

OfMiddleware(e) ==
    /\ e.of \in DOMAIN decided
    /\ decided[e.of].gate \in Middlewares
    /\ e.id[1] = "mw" /\ e.decision = decided[e.of].decision

Known(e) == e \in ToSet(told) \/ OfBridge(e) \/ OfMiddleware(e)

EventsInv ==
    /\ \A g \in Gates : \A e \in buffer[g] \union flushed[g] : Known(e)
    /\ \A e \in ledger : Known(e)
    /\ \A a \in answered : Known(a[1])

\* Accepted is stored, refused has its id taken, and an id is taken once.
LedgerInv ==
    /\ \A a \in answered : a[2] = 201 => a[1] \in ledger
    /\ \A a \in answered : IdTaken(a[1])
    /\ \A e, f \in ledger : e.id = f.id => e = f

IInv == GateTypes /\ GateInv /\ EventsInv /\ LedgerInv

------------------------------------------------------------------------------
\* A denied call is answered DENY, another one that needs a review ESCALATE.
LEMMA RulesOfDecide ==
  ASSUME NEW bundle, NEW request
  PROVE  /\ Denied(bundle, request.tool) => Decide(bundle, request).decision = "DENY"
         /\ /\ ~ Denied(bundle, request.tool)
            /\ Escalated(bundle, Probability(request.risk), SeverityOf(request.severity))
            => Decide(bundle, request).decision = "ESCALATE"
  BY DEF Decide, Response

LEMMA HookKnown == \A g \in Gates : HooksOf(g) \subseteq Hooks
  BY DEF HooksOf, Hooks

\* A decision taken keeps the earlier ones, and an answer told the ones before.
LEMMA Appending ==
  ASSUME NEW S, NEW s \in Seq(S), NEW x \in S
  PROVE  /\ Append(s, x) \in Seq(S)
         /\ DOMAIN Append(s, x) = DOMAIN s \union {Len(s) + 1}
         /\ \A n \in DOMAIN s : Append(s, x)[n] = s[n]
         /\ Append(s, x)[Len(s) + 1] = x
         /\ ToSet(Append(s, x)) = ToSet(s) \union {x}
<1>1. /\ Append(s, x) \in Seq(S)
      /\ DOMAIN Append(s, x) = DOMAIN s \union {Len(s) + 1}
      /\ \A n \in DOMAIN s : Append(s, x)[n] = s[n]
      /\ Append(s, x)[Len(s) + 1] = x
  OBVIOUS
<1>2. ToSet(Append(s, x)) = ToSet(s) \union {x}
  BY <1>1 DEF ToSet
<1> QED
  BY <1>1, <1>2

\* What an event is stays so when decisions and answers are only added.
LEMMA KnownStays ==
  ASSUME DOMAIN decided \subseteq DOMAIN decided',
         \A n \in DOMAIN decided : decided'[n] = decided[n],
         ToSet(told) \subseteq ToSet(told')
  PROVE  \A e : Known(e) => Known(e)'
  BY DEF Known, OfBridge, OfMiddleware

LEMMA GateInit == Init => IInv
<1> SUFFICES ASSUME Init PROVE IInv
  OBVIOUS
<1>1. GateTypes
  BY DEF Init, GateTypes, NoCall
<1>2. GateInv
  BY DEF Init, GateInv
<1>3. EventsInv
  BY DEF Init, EventsInv
<1>4. LedgerInv
  BY DEF Init, LedgerInv
<1> QED
  BY <1>1, <1>2, <1>3, <1>4 DEF IInv

\* The steps that leave every event and the ledger where they are.
LEMMA EventsStay ==
  ASSUME IInv, GateTypes', UNCHANGED <<buffer, flushed, ledger, answered>>,
         \A e : Known(e) => Known(e)'
  PROVE  EventsInv' /\ LedgerInv'
<1>1. EventsInv'
  BY DEF IInv, EventsInv
<1>2. LedgerInv'
  BY DEF IInv, LedgerInv, IdTaken
<1> QED
  BY <1>1, <1>2

LEMMA GateStep ==
  ASSUME IInv, NEW t \in Threads, Gate(t)
  PROVE  IInv'
<1> DEFINE Decided(g, hook, request) ==
             [thread |-> t, gate |-> g, life |-> life[g], hook |-> hook, request |-> request,
              decision |-> Decide(BundleOf[g], request).decision,
              model |-> Decide(BundleOf[g], request).model]
<1>1. PICK g \in Gates : \E hook \in HooksOf(g) :
        \E request \in {RequestOf(hook, ask) : ask \in Asks} :
          decided' = Append(decided, Decided(g, hook, request)) /\ Goto(t, FirstStep(g))
  BY DEF Gate
<1>2. PICK hook \in HooksOf(g) :
        \E request \in {RequestOf(hook, ask) : ask \in Asks} :
          decided' = Append(decided, Decided(g, hook, request)) /\ Goto(t, FirstStep(g))
  BY <1>1
<1>3. PICK request \in {RequestOf(hook, ask) : ask \in Asks} :
        decided' = Append(decided, Decided(g, hook, request)) /\ Goto(t, FirstStep(g))
  BY <1>2
<1> DEFINE d == Decided(g, hook, request)
<1>4. hook \in Hooks /\ request \in Requests
  BY <1>1, <1>2, <1>3, HookKnown DEF Requests
<1>5. d \in DecidedCalls
  <2>1. Decide(BundleOf[g], request) \in Responses
    BY <1>4 DEF Responses
  <2> QED
    BY <1>4, <2>1 DEF DecidedCalls, IInv, GateTypes
<1>a. d.gate = g /\ d.request = request /\ d.decision = Decide(BundleOf[g], request).decision
  OBVIOUS
<1>b. decided' = Append(decided, d) /\ Goto(t, FirstStep(g))
  BY <1>3
<1> HIDE DEF d
<1>6. /\ decided' = Append(decided, d)
      /\ decided' \in Seq(DecidedCalls)
      /\ DOMAIN decided' = DOMAIN decided \union {Len(decided) + 1}
      /\ \A n \in DOMAIN decided : decided'[n] = decided[n]
      /\ decided'[Len(decided) + 1] = d
  <2>1. decided \in Seq(DecidedCalls)
    BY DEF IInv, GateTypes
  <2>2. decided' = Append(decided, d)
    BY <1>b
  <2> QED
    BY <2>1, <2>2, <1>5, Appending
<1>7. GateTypes'
  BY <1>b, <1>6 DEF Gate, Goto, FirstStep, IInv, GateTypes
<1>8. GateInv'
  <2>1. d.decision = Decide(BundleOf[d.gate], d.request).decision
    BY <1>a
  <2>2. \A n \in DOMAIN decided' :
          decided'[n].decision = Decide(BundleOf[decided'[n].gate], decided'[n].request).decision
    BY <1>6, <2>1 DEF IInv, GateInv
  <2>3. \A s \in Threads : pc'[s] # "idle" => call'[s] \in DOMAIN decided'
    BY <1>b, <1>6 DEF Gate, Goto, IInv, GateInv, GateTypes
  <2>4. \A n \in went' : n \in DOMAIN decided' /\ Passes(decided'[n])
    BY <1>6 DEF Gate, IInv, GateInv
  <2> QED
    BY <2>2, <2>3, <2>4 DEF GateInv
<1>9. \A e : Known(e) => Known(e)'
  BY <1>6, KnownStays DEF Gate
<1> QED
  BY <1>7, <1>8, <1>9, EventsStay DEF Gate, IInv

LEMMA NumberStep ==
  ASSUME IInv, NEW t \in Threads, Number(t)
  PROVE  IInv'
<1>1. GateTypes'
  BY DEF Number, Goto, IInv, GateTypes
<1>2. GateInv'
  BY DEF Number, Goto, IInv, GateInv, GateTypes
<1>3. \A e : Known(e) => Known(e)'
  BY KnownStays DEF Number
<1> QED
  BY <1>1, <1>2, <1>3, EventsStay DEF Number, IInv

LEMMA ActStep ==
  ASSUME IInv, NEW t \in Threads, Act(t)
  PROVE  IInv'
<1>1. GateTypes'
  BY DEF Act, Goto, NoCall, IInv, GateTypes
<1>2. GateInv'
  <2>1. call[t] \in DOMAIN decided
    BY DEF Act, IInv, GateInv
  <2>2. \A n \in went' : n \in DOMAIN decided /\ Passes(decided[n])
    BY <2>1 DEF Act, IInv, GateInv
  <2>3. \A s \in Threads : pc'[s] # "idle" => call'[s] \in DOMAIN decided
    BY DEF Act, Goto, IInv, GateInv, GateTypes
  <2> QED
    BY <2>2, <2>3 DEF Act, IInv, GateInv
<1>3. \A e : Known(e) => Known(e)'
  BY KnownStays DEF Act
<1> QED
  BY <1>1, <1>2, <1>3, EventsStay DEF Act, IInv

LEMMA RecordStep ==
  ASSUME IInv, NEW t \in Threads, Record(t)
  PROVE  IInv'
<1> DEFINE n == call[t]
           g == GateOf(t)
           e == Event(DecisionId(g, n), n, decided[n].decision)
<1>1. n \in DOMAIN decided
  BY DEF Record, IInv, GateInv
<1>2. g \in Gates /\ g = decided[n].gate
  <2>1. decided[n] \in DecidedCalls
    BY <1>1 DEF IInv, GateTypes
  <2> QED
    BY <2>1 DEF GateOf, DecidedCalls
<1>3. GateTypes'
  BY DEF Record, Goto, IInv, GateTypes
<1>4. GateInv'
  BY DEF Record, Goto, IInv, GateInv, GateTypes
<1>5. \A f : Known(f) => Known(f)'
  BY KnownStays DEF Record
<1>6. Known(e)
  <2>1. CASE g \in Middlewares
    BY <1>1, <1>2, <2>1 DEF Known, OfMiddleware, DecisionId, MiddlewareId, Event
  <2>2. CASE g \notin Middlewares
    BY <1>1, <1>2, <2>2 DEF Known, OfBridge, DecisionId, Event, Gates
  <2> QED
    BY <2>1, <2>2
<1>7. EventsInv'
  <2>1. buffer' = [buffer EXCEPT ![g] = @ \union {e}]
    BY DEF Record, EventsOf
  <2>2. \A h \in Gates : \A f \in buffer'[h] : f \in buffer[h] \/ f = e
    BY <2>1, <1>2 DEF IInv, GateTypes
  <2> QED
    BY <2>2, <1>5, <1>6 DEF Record, IInv, EventsInv
<1>8. LedgerInv'
  BY DEF Record, IInv, LedgerInv, IdTaken
<1> QED
  BY <1>3, <1>4, <1>7, <1>8 DEF IInv

LEMMA OnResolutionStep ==
  ASSUME IInv, NEW g \in Gates, OnResolution(g)
  PROVE  IInv'
<1>1. PICK n \in DOMAIN decided, resolution \in Resolutions :
        /\ IsValid(resolution)
        /\ told' = Append(told, Event(AnswerId(n), n, AnswerDecision(resolution)))
        /\ buffer' = IF g \in Recording
                     THEN [buffer EXCEPT ![g] =
                             @ \union {Event(AnswerId(n), n, AnswerDecision(resolution))}]
                     ELSE buffer
  BY DEF OnResolution
<1> DEFINE e == Event(AnswerId(n), n, AnswerDecision(resolution))
<1>2. e \in HumanAnswers
  <2>1. n \in Nat
    BY DEF IInv, GateTypes
  <2>2. AnswerDecision(resolution) \in {"ALLOW", "DENY", "VERIFY"}
    BY <1>1 DEF AnswerDecision, IsValid
  <2> QED
    BY <2>1, <2>2 DEF HumanAnswers, Event
<1>3. /\ told' = Append(told, e)
      /\ \A h \in Gates : \A f \in buffer'[h] : f \in buffer[h] \/ f = e
      /\ DOMAIN buffer' = Gates
  BY <1>1 DEF IInv, GateTypes
<1> HIDE DEF e
<1>4. told' \in Seq(HumanAnswers) /\ ToSet(told') = ToSet(told) \union {e}
  BY <1>2, <1>3, Appending DEF IInv, GateTypes
<1>5. \A f : Known(f) => Known(f)'
  BY <1>4, KnownStays DEF OnResolution
<1>6. GateTypes'
  BY <1>3, <1>4 DEF OnResolution, IInv, GateTypes
<1>7. GateInv'
  BY DEF OnResolution, IInv, GateInv
<1>8. EventsInv'
  <2>1. Known(e)'
    BY <1>4 DEF Known
  <2> QED
    BY <2>1, <1>3, <1>5 DEF OnResolution, IInv, EventsInv
<1>9. LedgerInv'
  BY DEF OnResolution, IInv, LedgerInv, IdTaken
<1> QED
  BY <1>6, <1>7, <1>8, <1>9 DEF IInv

LEMMA FlushStep ==
  ASSUME IInv, NEW g \in Gates, Flush(g)
  PROVE  IInv'
<1>1. /\ DOMAIN buffer' = Gates /\ DOMAIN flushed' = Gates
      /\ \A h \in Gates : buffer'[h] \union flushed'[h] \subseteq buffer[h] \union flushed[h]
  BY DEF Flush, IInv, GateTypes
<1>2. GateTypes'
  BY <1>1 DEF Flush, IInv, GateTypes
<1>3. GateInv'
  BY DEF Flush, IInv, GateInv
<1>4. \A f : Known(f) => Known(f)'
  BY KnownStays DEF Flush
<1>5. EventsInv'
  BY <1>1, <1>4 DEF Flush, IInv, EventsInv
<1>6. LedgerInv'
  BY DEF Flush, IInv, LedgerInv, IdTaken
<1> QED
  BY <1>2, <1>3, <1>5, <1>6 DEF IInv

LEMMA PostStep ==
  ASSUME IInv, NEW g \in Gates, Post(g)
  PROVE  IInv'
<1>1. GateTypes' /\ GateInv'
  BY DEF Post, IInv, GateTypes, GateInv
<1>2. \A f : Known(f) => Known(f)'
  BY KnownStays DEF Post
<1>3. PICK e \in flushed[g] :
        IF IdTaken(e)
        THEN answered' = answered \union {<<e, 409>>} /\ ledger' = ledger
        ELSE ledger' = ledger \union {e} /\ answered' = answered \union {<<e, 201>>}
  BY DEF Post
<1>4. Known(e)
  BY <1>3 DEF IInv, EventsInv
<1>5. EventsInv'
  BY <1>2, <1>3, <1>4 DEF Post, IInv, EventsInv
<1>6. LedgerInv'
  <2>1. CASE IdTaken(e)
    BY <2>1, <1>3 DEF IInv, LedgerInv, IdTaken
  <2>2. CASE ~ IdTaken(e)
    BY <2>2, <1>3 DEF IInv, LedgerInv, IdTaken
  <2> QED
    BY <2>1, <2>2
<1> QED
  BY <1>1, <1>5, <1>6 DEF IInv

LEMMA RestartStep ==
  ASSUME IInv, NEW g \in Gates, Restart(g)
  PROVE  IInv'
<1>1. GateTypes'
  BY DEF Restart, NoCall, IInv, GateTypes
<1>2. GateInv'
  BY DEF Restart, IInv, GateInv, GateTypes
<1>3. \A f : Known(f) => Known(f)'
  BY KnownStays DEF Restart
<1>4. \A h \in Gates : buffer'[h] \union flushed'[h] \subseteq buffer[h] \union flushed[h]
  BY DEF Restart, IInv, GateTypes
<1>5. EventsInv'
  BY <1>3, <1>4 DEF Restart, IInv, EventsInv
<1>6. LedgerInv'
  BY DEF Restart, IInv, LedgerInv, IdTaken
<1> QED
  BY <1>1, <1>2, <1>5, <1>6 DEF IInv

\* The invariant holds always: a gate's step only adds decisions, answers and
\* events that are Known, and the server's only adds an event with a new id.
THEOREM GateInvariant == Spec => []IInv
<1>1. Init => IInv
  BY GateInit
<1>2. IInv /\ [Next]_vars => IInv'
  <2> SUFFICES ASSUME IInv, [Next]_vars PROVE IInv'
    OBVIOUS
  <2>1. CASE UNCHANGED vars
    BY <2>1 DEF vars, IInv, GateTypes, GateInv, EventsInv, LedgerInv, Known, OfBridge,
                OfMiddleware, IdTaken
  <2>2. CASE Next
    BY <2>2, GateStep, NumberStep, RecordStep, ActStep, OnResolutionStep, FlushStep,
       PostStep, RestartStep DEF Next
  <2> QED
    BY <2>1, <2>2
<1> QED
  BY <1>1, <1>2, PTL DEF Spec

\* No call of a denied tool goes through any gate, and a bridge lets nothing
\* through that awaits a human, whatever the policies and the calls are.
THEOREM ThePolicyHolds == Spec => []PolicyHolds
<1>1. IInv => PolicyHolds
  <2> SUFFICES ASSUME IInv, NEW n \in went
               PROVE  LET d == decided[n] IN
                      /\ ~ Denied(BundleOf[d.gate], d.request.tool)
                      /\ d.gate \in Bridges =>
                           ~ Escalated(BundleOf[d.gate], Probability(d.request.risk),
                                       SeverityOf(d.request.severity))
    BY DEF PolicyHolds
  <2> DEFINE d == decided[n]
  <2>1. d.decision = Decide(BundleOf[d.gate], d.request).decision /\ Passes(d)
    BY DEF IInv, GateInv
  <2>2. d.decision # "DENY"
    BY <2>1 DEF Passes, MiddlewarePasses, Envelope
  <2>3. d.gate \in Bridges => d.decision # "ESCALATE"
    BY <2>1, GateAssumption DEF Passes, Envelope
  <2> QED
    BY <2>1, <2>2, <2>3, RulesOfDecide
<1> QED
  BY <1>1, GateInvariant, PTL

\* An event the server has accepted stays, alone under its id, for any number
\* of gates, answers, repeated posts and restarts.
THEOREM WhatIsAcceptedStands == Spec => []AcceptedStands
<1>1. IInv => AcceptedStands
  BY DEF IInv, LedgerInv, AcceptedStands
<1> QED
  BY <1>1, GateInvariant, PTL

\* The server refuses the decision of a bridge only when it is stored: neither
\* another decision nor an answer of a human can have its id.
THEOREM DecisionsOfBridgesAreKept == Spec => []BridgeDecisionsAreKept
<1>1. IInv => BridgeDecisionsAreKept
  <2> SUFFICES ASSUME IInv, NEW a \in answered, decided[a[1].of].gate \in Bridges,
                      a[1] \notin ToSet(told)
               PROVE  a[1] \in ledger
    BY DEF BridgeDecisionsAreKept
  <2>1. OfBridge(a[1])
    BY GateAssumption DEF IInv, EventsInv, Known, OfMiddleware
  <2>2. PICK f \in ledger : f.id = a[1].id
    BY DEF IInv, LedgerInv, IdTaken
  <2>3. f.id = <<"uuid", a[1].of>>
    BY <2>1, <2>2 DEF OfBridge, Event, BridgeId
  <2>4. CASE f \in ToSet(told)
    <3>1. f \in HumanAnswers
      BY <2>4 DEF IInv, GateTypes, ToSet
    <3>2. PICK n \in Nat : f.id = <<"resolved", n>>
      BY <3>1 DEF HumanAnswers, AnswerId
    <3> QED
      BY <3>2, <2>3
  <2>5. CASE OfMiddleware(f)
    BY <2>3, <2>5 DEF OfMiddleware
  <2>6. CASE OfBridge(f)
    <3>1. f.id = <<"uuid", f.of>>
      BY <2>6 DEF OfBridge, Event, BridgeId
    <3>2. f.of = a[1].of
      BY <3>1, <2>3
    <3> QED
      BY <3>2, <2>1, <2>6, <2>2 DEF OfBridge
  <2> QED
    BY <2>2, <2>4, <2>5, <2>6 DEF IInv, EventsInv, Known
<1> QED
  BY <1>1, GateInvariant, PTL

------------------------------------------------------------------------------
\* The events a gate's recorder has been given in this life.
Held(g) == buffer[g] \union flushed[g]

\* The calls in hand: whose they are, and that their gate lives.
CallsInv ==
    /\ \A t \in Threads : pc[t] = "idle" <=> call[t] = NoCall
    /\ \A t \in Threads : pc[t] # "idle" =>
         /\ decided[call[t]].thread = t
         /\ decided[call[t]].life = life[GateOf(t)]
         /\ pc[t] \in {"number", "record"} => GateOf(t) \in Recording
         /\ pc[t] = "number" => GateOf(t) \in Middlewares
    /\ \A n \in DOMAIN decided : decided[n].life <= life[decided[n].gate]

\* The number of a middleware's event is one it has given out, and a thread
\* that is about to record has a newer one than it has recorded.
NumbersInv ==
    /\ seq \in [Middlewares -> Nat]
    /\ \A g \in Middlewares : \A e \in Held(g) :
         /\ OfMiddleware(e)
         /\ e.id[2] \in Nat /\ e.id[2] <= seq[g]
    /\ \A t \in Threads : pc[t] = "record" /\ GateOf(t) \in Middlewares =>
         \A e \in Held(GateOf(t)) : decided[e.of].thread = t =>
            e.id[2] < seq[GateOf(t)]
    /\ \A g \in Middlewares : \A e, f \in Held(g) :
         e.id = f.id /\ decided[e.of].thread = decided[f.of].thread => e = f

\* Decision n was made and its event not yet recorded.
Unrecorded(n) == \E t \in Threads : call[t] = n /\ pc[t] \in {"number", "record"}

\* The event of a decision is held once it was recorded, and no other is.
HeldInv ==
    \A n \in DOMAIN decided :
        LET g == decided[n].gate IN
        g \in Recording /\ life[g] = decided[n].life =>
            IF Unrecorded(n) THEN Recorded(Held(g), n) = {}
            ELSE \E e \in Held(g) : Recorded(Held(g), n) = {e}

RecInv == CallsInv /\ NumbersInv /\ HeldInv

------------------------------------------------------------------------------
LEMMA CallInHand ==
  ASSUME IInv, NEW t \in Threads, pc[t] # "idle"
  PROVE  /\ call[t] \in DOMAIN decided /\ call[t] # NoCall
         /\ GateOf(t) = decided[call[t]].gate /\ GateOf(t) \in Gates
<1>1. call[t] \in DOMAIN decided
  BY DEF IInv, GateInv
<1>2. decided[call[t]] \in DecidedCalls
  BY <1>1 DEF IInv, GateTypes
<1>3. call[t] # NoCall
  BY <1>1 DEF IInv, GateTypes, NoCall
<1> QED
  BY <1>1, <1>2, <1>3 DEF GateOf, DecidedCalls

\* The answers of humans have ids of their own.
LEMMA AnswersHaveOtherIds ==
  ASSUME IInv, NEW e, e.id[1] \in {"mw", "uuid"}
  PROVE  e \notin ToSet(told)
<1> SUFFICES ASSUME e \in ToSet(told) PROVE FALSE
  OBVIOUS
<1>1. e \in HumanAnswers
  BY DEF IInv, GateTypes, ToSet
<1>2. PICK n \in Nat : e.id = <<"resolved", n>>
  BY <1>1 DEF HumanAnswers, AnswerId
<1> QED
  BY <1>2

\* What a gate holds and no human has said is about a decision that was made.
LEMMA HeldIsOfADecision ==
  ASSUME IInv, NEW g \in Gates, NEW e \in Held(g), e \notin ToSet(told)
  PROVE  /\ e.of \in DOMAIN decided /\ e.decision = decided[e.of].decision
         /\ e.id[1] \in {"mw", "uuid"}
<1>1. Known(e)
  BY DEF IInv, EventsInv, Held
<1> QED
  BY <1>1 DEF Known, OfBridge, OfMiddleware, Event, BridgeId

LEMMA RecInit == Init => RecInv
<1> SUFFICES ASSUME Init PROVE RecInv
  OBVIOUS
<1>1. CallsInv
  BY DEF Init, CallsInv
<1>2. NumbersInv
  BY DEF Init, NumbersInv, Held, Gates
<1>3. HeldInv
  BY DEF Init, HeldInv
<1> QED
  BY <1>1, <1>2, <1>3 DEF RecInv

\* The step of a gate that decides.
LEMMA GateAppends ==
  ASSUME IInv, NEW t \in Threads, Gate(t)
  PROVE  \E g \in Gates : \E d :
           /\ d.thread = t /\ d.gate = g /\ d.life = life[g]
           /\ Goto(t, FirstStep(g))
           /\ DOMAIN decided' = DOMAIN decided \union {Len(decided) + 1}
           /\ \A n \in DOMAIN decided : decided'[n] = decided[n]
           /\ decided'[Len(decided) + 1] = d
<1>1. PICK g \in Gates : \E hook \in HooksOf(g) :
        \E request \in {RequestOf(hook, ask) : ask \in Asks} :
          /\ decided' = Append(decided,
                 [thread |-> t, gate |-> g, life |-> life[g], hook |-> hook, request |-> request,
                  decision |-> Decide(BundleOf[g], request).decision,
                  model |-> Decide(BundleOf[g], request).model])
          /\ Goto(t, FirstStep(g))
  BY DEF Gate
<1>2. PICK d : /\ d.thread = t /\ d.gate = g /\ d.life = life[g]
               /\ decided' = Append(decided, d) /\ Goto(t, FirstStep(g))
  BY <1>1
<1>3. decided \in Seq({decided[n] : n \in DOMAIN decided} \union {d})
  BY DEF IInv, GateTypes
<1>4. /\ DOMAIN decided' = DOMAIN decided \union {Len(decided) + 1}
      /\ \A n \in DOMAIN decided : decided'[n] = decided[n]
      /\ decided'[Len(decided) + 1] = d
  BY <1>2, <1>3, Appending
<1> QED
  BY <1>2, <1>4

LEMMA RecGate ==
  ASSUME IInv, RecInv, NEW t \in Threads, Gate(t)
  PROVE  RecInv'
<1> DEFINE new == Len(decided) + 1
<1>0. PICK g \in Gates : \E d :
        /\ d.thread = t /\ d.gate = g /\ d.life = life[g]
        /\ Goto(t, FirstStep(g))
        /\ DOMAIN decided' = DOMAIN decided \union {new}
        /\ \A n \in DOMAIN decided : decided'[n] = decided[n]
        /\ decided'[new] = d
  BY GateAppends
<1>1. PICK d :
        /\ d.thread = t /\ d.gate = g /\ d.life = life[g]
        /\ Goto(t, FirstStep(g))
        /\ DOMAIN decided' = DOMAIN decided \union {new}
        /\ \A n \in DOMAIN decided : decided'[n] = decided[n]
        /\ decided'[new] = d
  BY <1>0
<1>2. new \notin DOMAIN decided /\ new \in Nat /\ new # NoCall
  BY DEF IInv, GateTypes, NoCall
<1> HIDE DEF new
<1>3. /\ pc[t] = "idle" /\ call' = [call EXCEPT ![t] = new]
      /\ UNCHANGED <<seq, life, buffer, flushed, told>>
  BY DEF Gate, new
<1>4. /\ pc'[t] = FirstStep(g) /\ call'[t] = new /\ GateOf(t)' = g
      /\ FirstStep(g) \in {"act", "number", "record"}
  BY <1>1, <1>3 DEF IInv, GateTypes, Goto, FirstStep, GateOf
<1>5. \A s \in Threads : s # t => pc'[s] = pc[s] /\ call'[s] = call[s]
  BY <1>1, <1>3 DEF IInv, GateTypes, Goto
<1>6. \A s \in Threads : s # t /\ pc[s] # "idle" =>
        GateOf(s)' = GateOf(s) /\ call[s] \in DOMAIN decided
  BY <1>1, <1>5, CallInHand DEF GateOf
<1>7. CallsInv'
  <2>1. \A s \in Threads : pc'[s] = "idle" <=> call'[s] = NoCall
    BY <1>2, <1>4, <1>5 DEF RecInv, CallsInv
  <2>2. \A s \in Threads : pc'[s] # "idle" =>
         /\ decided'[call'[s]].thread = s
         /\ decided'[call'[s]].life = life'[GateOf(s)']
         /\ pc'[s] \in {"number", "record"} => GateOf(s)' \in Recording
         /\ pc'[s] = "number" => GateOf(s)' \in Middlewares
    <3> SUFFICES ASSUME NEW s \in Threads, pc'[s] # "idle"
                 PROVE  /\ decided'[call'[s]].thread = s
                        /\ decided'[call'[s]].life = life'[GateOf(s)']
                        /\ pc'[s] \in {"number", "record"} => GateOf(s)' \in Recording
                        /\ pc'[s] = "number" => GateOf(s)' \in Middlewares
      OBVIOUS
    <3>1. CASE s = t
      BY <1>1, <1>3, <1>4, <3>1 DEF FirstStep
    <3>2. CASE s # t
      BY <1>1, <1>3, <1>5, <1>6, <3>2 DEF RecInv, CallsInv
    <3> QED
      BY <3>1, <3>2
  <2>3. \A n \in DOMAIN decided' : decided'[n].life <= life'[decided'[n].gate]
    BY <1>1, <1>3 DEF RecInv, CallsInv, IInv, GateTypes
  <2> QED
    BY <2>1, <2>2, <2>3 DEF CallsInv
<1>8. \A h : Held(h)' = Held(h)
  BY <1>3 DEF Held
<1>9. \A h \in Middlewares : \A e \in Held(h) :
        OfMiddleware(e)' /\ decided'[e.of] = decided[e.of]
  BY <1>1 DEF RecInv, NumbersInv, OfMiddleware
<1>10. NumbersInv'
  <2>1. \A s \in Threads : pc'[s] = "record" /\ GateOf(s)' \in Middlewares =>
         s # t /\ pc[s] = "record" /\ GateOf(s)' = GateOf(s)
    BY <1>4, <1>5, <1>6 DEF FirstStep
  <2>2. \A s \in Threads : pc'[s] = "record" /\ GateOf(s)' \in Middlewares =>
         \A e \in Held(GateOf(s)) : decided'[e.of].thread = s => e.id[2] < seq[GateOf(s)]
    BY <1>9, <2>1 DEF RecInv, NumbersInv
  <2>3. \A h \in Middlewares : \A e, f \in Held(h) :
         e.id = f.id /\ decided'[e.of].thread = decided'[f.of].thread => e = f
    BY <1>9 DEF RecInv, NumbersInv
  <2>4. \A h \in Middlewares : \A e \in Held(h) :
          OfMiddleware(e)' /\ e.id[2] \in Nat /\ e.id[2] <= seq[h]
    BY <1>9 DEF RecInv, NumbersInv
  <2> QED
    BY <1>3, <1>8, <2>1, <2>2, <2>3, <2>4 DEF RecInv, NumbersInv
<1>11. HeldInv'
  <2> SUFFICES ASSUME NEW n \in DOMAIN decided',
                      decided'[n].gate \in Recording, life[decided'[n].gate] = decided'[n].life
               PROVE  IF Unrecorded(n)' THEN Recorded(Held(decided'[n].gate), n) = {}
                      ELSE \E e \in Held(decided'[n].gate) :
                             Recorded(Held(decided'[n].gate), n) = {e}
    BY <1>3, <1>8 DEF HeldInv, Recorded
  <2>1. CASE n = new
    <3>1. Unrecorded(n)'
      BY <1>1, <1>4, <2>1 DEF Unrecorded, FirstStep
    <3>2. Recorded(Held(g), n) = {}
      BY <1>2, <2>1, HeldIsOfADecision DEF Recorded
    <3> QED
      BY <1>1, <2>1, <3>1, <3>2
  <2>2. CASE n \in DOMAIN decided
    <3>1. Unrecorded(n)' <=> Unrecorded(n)
      BY <1>2, <1>3, <1>4, <1>5, <2>2 DEF Unrecorded, RecInv, CallsInv
    <3> QED
      BY <1>1, <2>2, <3>1 DEF RecInv, HeldInv
  <2> QED
    BY <1>1, <2>1, <2>2
<1> QED
  BY <1>7, <1>10, <1>11 DEF RecInv

\* The steps that neither decide, number, nor add a decision's event.
LEMMA HeldStays ==
  ASSUME IInv, RecInv, CallsInv', UNCHANGED <<decided, seq, life>>,
         \A t \in Threads : pc'[t] \in {"number", "record"} <=> pc[t] \in {"number", "record"},
         \A t \in Threads : pc'[t] = "record" => pc[t] = "record",
         \A t \in Threads : pc'[t] # "idle" => call'[t] = call[t],
         \A g \in Middlewares : Held(g)' = Held(g),
         \A g \in Gates, n \in DOMAIN decided : Recorded(Held(g), n)' = Recorded(Held(g), n)
  PROVE  RecInv'
<1>1. \A t \in Threads : pc'[t] # "idle" => GateOf(t)' = GateOf(t)
  BY DEF GateOf
<1>2. \A e : OfMiddleware(e)' <=> OfMiddleware(e)
  BY DEF OfMiddleware
<1>3. NumbersInv'
  BY <1>1, <1>2 DEF RecInv, NumbersInv
<1>4. HeldInv'
  <2> SUFFICES ASSUME NEW n \in DOMAIN decided,
                      decided[n].gate \in Recording, life[decided[n].gate] = decided[n].life
               PROVE  IF Unrecorded(n)' THEN Recorded(Held(decided[n].gate), n)' = {}
                      ELSE \E e \in Held(decided[n].gate)' :
                             Recorded(Held(decided[n].gate), n)' = {e}
    BY DEF HeldInv
  <2>1. Unrecorded(n)' <=> Unrecorded(n)
    BY DEF Unrecorded
  <2>2. decided[n].gate \in Gates
    <3>1. decided[n] \in DecidedCalls
      BY DEF IInv, GateTypes
    <3> QED
      BY <3>1 DEF DecidedCalls
  <2>3. Recorded(Held(decided[n].gate), n)' = Recorded(Held(decided[n].gate), n)
    BY <2>2
  <2>4. Recorded(Held(decided[n].gate), n)' \subseteq Held(decided[n].gate)'
    BY DEF Recorded
  <2> QED
    BY <2>1, <2>3, <2>4 DEF RecInv, HeldInv
<1> QED
  BY <1>3, <1>4 DEF RecInv

LEMMA RecAct ==
  ASSUME IInv, RecInv, NEW t \in Threads, Act(t)
  PROVE  RecInv'
<1>1. /\ pc[t] = "act" /\ pc' = [pc EXCEPT ![t] = "idle"]
      /\ call' = [call EXCEPT ![t] = NoCall]
      /\ UNCHANGED <<decided, seq, life, buffer, flushed, told>>
  BY DEF Act, Goto
<1>2. /\ pc'[t] = "idle" /\ call'[t] = NoCall
      /\ \A s \in Threads : s # t => pc'[s] = pc[s] /\ call'[s] = call[s]
  BY <1>1 DEF IInv, GateTypes
<1>3. \A s \in Threads : s # t => GateOf(s)' = GateOf(s)
  BY <1>1, <1>2 DEF GateOf
<1>4. CallsInv'
  BY <1>1, <1>2, <1>3 DEF RecInv, CallsInv
<1>5. \A g : Held(g)' = Held(g)
  BY <1>1 DEF Held
<1>6. \A g, n : Recorded(Held(g), n)' = Recorded(Held(g), n)
  BY <1>1, <1>5 DEF Recorded
<1> QED
  BY <1>1, <1>2, <1>4, <1>5, <1>6, HeldStays

LEMMA RecFlush ==
  ASSUME IInv, RecInv, NEW g \in Gates, Flush(g)
  PROVE  RecInv'
<1>1. UNCHANGED <<decided, seq, life, told, pc, call>>
  BY DEF Flush
<1>2. CallsInv'
  BY <1>1 DEF RecInv, CallsInv, GateOf
<1>3. \A h \in Gates : Held(h)' = Held(h)
  BY DEF Flush, Held, IInv, GateTypes
<1>4. \A h \in Gates, n \in DOMAIN decided : Recorded(Held(h), n)' = Recorded(Held(h), n)
  BY <1>1, <1>3 DEF Recorded
<1> QED
  BY <1>1, <1>2, <1>3, <1>4, HeldStays DEF Gates

LEMMA RecPost ==
  ASSUME IInv, RecInv, NEW g \in Gates, Post(g)
  PROVE  RecInv'
<1>1. UNCHANGED <<decided, seq, life, told, pc, call, buffer, flushed>>
  BY DEF Post
<1>2. CallsInv'
  BY <1>1 DEF RecInv, CallsInv, GateOf
<1>3. \A h : Held(h)' = Held(h)
  BY <1>1 DEF Held
<1>4. \A h, n : Recorded(Held(h), n)' = Recorded(Held(h), n)
  BY <1>1, <1>3 DEF Recorded
<1> QED
  BY <1>1, <1>2, <1>3, <1>4, HeldStays

LEMMA RecOnResolution ==
  ASSUME IInv, RecInv, NEW g \in Gates, OnResolution(g)
  PROVE  RecInv'
<1>1. UNCHANGED <<decided, seq, life, pc, call, flushed>> /\ g \in Bridges
  BY DEF OnResolution
<1>2. PICK n \in DOMAIN decided, resolution \in Resolutions :
        /\ told' = Append(told, Event(AnswerId(n), n, AnswerDecision(resolution)))
        /\ buffer' = IF g \in Recording
                     THEN [buffer EXCEPT ![g] =
                             @ \union {Event(AnswerId(n), n, AnswerDecision(resolution))}]
                     ELSE buffer
  BY DEF OnResolution
<1> DEFINE e == Event(AnswerId(n), n, AnswerDecision(resolution))
<1>3. e.id[1] = "resolved"
  BY DEF Event, AnswerId
<1>4. /\ told' = Append(told, e)
      /\ \A h \in Gates : buffer[h] \subseteq buffer'[h] /\ buffer'[h] \subseteq buffer[h] \union {e}
      /\ \A h \in Gates : h # g => buffer'[h] = buffer[h]
  BY <1>2 DEF IInv, GateTypes
<1> HIDE DEF e
<1>5. ToSet(told') = ToSet(told) \union {e}
  <2>1. told \in Seq(HumanAnswers \union {e})
    BY DEF IInv, GateTypes
  <2> QED
    BY <1>4, <2>1, Appending
<1>6. CallsInv'
  BY <1>1 DEF RecInv, CallsInv, GateOf
<1>7. \A h \in Middlewares : Held(h)' = Held(h)
  BY <1>1, <1>4, GateAssumption DEF Held, Gates
<1>8. \A h \in Gates, m \in DOMAIN decided : Recorded(Held(h), m)' = Recorded(Held(h), m)
  <2> SUFFICES ASSUME NEW h \in Gates, NEW m, NEW f
               PROVE  f \in Recorded(Held(h), m)' <=> f \in Recorded(Held(h), m)
    OBVIOUS
  <2>1. f \in Recorded(Held(h), m)' <=> f \in Held(h)' /\ f.of = m /\ f \notin ToSet(told')
    BY DEF Recorded
  <2>2. f \in Recorded(Held(h), m) <=> f \in Held(h) /\ f.of = m /\ f \notin ToSet(told)
    BY DEF Recorded
  <2>3. f # e => (f \in Held(h)' <=> f \in Held(h))
    BY <1>1, <1>4 DEF Held
  <2>4. e \in Held(h) => e \in ToSet(told)
    BY <1>3, HeldIsOfADecision
  <2> QED
    BY <1>5, <2>1, <2>2, <2>3, <2>4
<1> QED
  BY <1>1, <1>6, <1>7, <1>8, HeldStays

LEMMA RecNumber ==
  ASSUME IInv, RecInv, NEW t \in Threads, Number(t)
  PROVE  RecInv'
<1> DEFINE g == GateOf(t)
<1>1. /\ pc[t] = "number" /\ seq' = [seq EXCEPT ![g] = @ + 1] /\ g \in Middlewares
      /\ pc' = [pc EXCEPT ![t] = "record"]
      /\ UNCHANGED <<call, decided, life, buffer, flushed, told>>
  BY DEF Number, NumberTaken, Goto, RecInv, CallsInv
<1>2. \A s : GateOf(s)' = GateOf(s)
  BY <1>1 DEF GateOf
<1> HIDE DEF g
<1>3. pc'[t] = "record" /\ \A s \in Threads : s # t => pc'[s] = pc[s]
  BY <1>1 DEF IInv, GateTypes
<1>4. CallsInv'
  BY <1>1, <1>2, <1>3 DEF RecInv, CallsInv
<1>5. \A h : Held(h)' = Held(h)
  BY <1>1 DEF Held
<1>6. /\ seq' \in [Middlewares -> Nat] /\ seq'[g] = seq[g] + 1 /\ seq[g] \in Nat
      /\ \A h \in Middlewares : seq[h] <= seq'[h] /\ seq[h] \in Nat /\ seq'[h] \in Nat
  BY <1>1 DEF RecInv, NumbersInv
<1>7. \A e : OfMiddleware(e)' <=> OfMiddleware(e)
  BY <1>1 DEF OfMiddleware
<1>8. NumbersInv'
  <2>1. \A h \in Middlewares : \A e \in Held(h) :
          OfMiddleware(e)' /\ e.id[2] \in Nat /\ e.id[2] <= seq[h] /\ e.id[2] <= seq'[h]
    BY <1>6, <1>7 DEF RecInv, NumbersInv
  <2>2. \A s \in Threads : pc'[s] = "record" /\ GateOf(s) \in Middlewares =>
          \A e \in Held(GateOf(s)) : decided[e.of].thread = s => e.id[2] < seq'[GateOf(s)]
    <3> SUFFICES ASSUME NEW s \in Threads, pc'[s] = "record", GateOf(s) \in Middlewares,
                        NEW e \in Held(GateOf(s)), decided[e.of].thread = s
                 PROVE  e.id[2] < seq'[GateOf(s)]
      OBVIOUS
    <3>1. CASE s = t
      BY <1>1, <1>6, <2>1, <3>1 DEF g
    <3>2. CASE s # t
      <4>1. e.id[2] < seq[GateOf(s)]
        BY <1>3, <3>2 DEF RecInv, NumbersInv
      <4> QED
        BY <1>6, <2>1, <4>1
    <3> QED
      BY <3>1, <3>2
  <2> QED
    BY <1>1, <1>2, <1>5, <1>6, <2>1, <2>2 DEF RecInv, NumbersInv
<1>9. HeldInv'
  <2>1. \A n : Unrecorded(n)' <=> Unrecorded(n)
    BY <1>1, <1>3 DEF Unrecorded
  <2>2. \A h, n : Recorded(Held(h), n)' = Recorded(Held(h), n)
    BY <1>1, <1>5 DEF Recorded
  <2> QED
    BY <1>1, <1>5, <2>1, <2>2 DEF RecInv, HeldInv
<1> QED
  BY <1>4, <1>8, <1>9 DEF RecInv

LEMMA RecRecord ==
  ASSUME IInv, RecInv, NEW t \in Threads, Record(t)
  PROVE  RecInv'
<1>0. PICK n, g, e : /\ n = call[t] /\ g = GateOf(t)
                     /\ e = Event(DecisionId(g, n), n, decided[n].decision)
  OBVIOUS
<1>1. /\ pc[t] = "record" /\ buffer' = [buffer EXCEPT ![g] = @ \union {e}]
      /\ pc' = [pc EXCEPT ![t] = "act"]
      /\ UNCHANGED <<call, decided, seq, life, flushed, told>>
  BY <1>0 DEF Record, EventsOf, Goto
<1>2. /\ n \in DOMAIN decided /\ g = decided[n].gate /\ g \in Gates /\ g \in Recording
      /\ decided[n].thread = t
  BY <1>0, <1>1, CallInHand DEF RecInv, CallsInv
<1>3. /\ e.of = n /\ e.decision = decided[n].decision /\ e.id[1] \in {"mw", "uuid"}
      /\ g \in Middlewares => e.id = <<"mw", seq[g]>>
  BY <1>0 DEF Event, DecisionId, MiddlewareId, BridgeId
<1>4. e \notin ToSet(told)
  BY <1>3, AnswersHaveOtherIds
<1>5. \A s : GateOf(s)' = GateOf(s)
  BY <1>1 DEF GateOf
<1>6. pc'[t] = "act" /\ \A s \in Threads : s # t => pc'[s] = pc[s]
  BY <1>1 DEF IInv, GateTypes
<1>7. /\ Held(g)' = Held(g) \union {e}
      /\ \A h \in Gates : h # g => Held(h)' = Held(h)
  BY <1>1, <1>2 DEF Held, IInv, GateTypes
<1>8. CallsInv'
  BY <1>1, <1>5, <1>6 DEF RecInv, CallsInv
<1>9. \A s \in Threads : s # t /\ pc[s] # "idle" => decided[call[s]].thread # t
  BY DEF RecInv, CallsInv
<1>10. \A f : OfMiddleware(f)' <=> OfMiddleware(f)
  BY <1>1 DEF OfMiddleware
<1>11. NumbersInv'
  <2>1. \A h \in Middlewares : \A f \in Held(h)' : f \in Held(h) \/ (h = g /\ f = e)
    BY <1>7 DEF Gates
  <2>2. g \in Middlewares =>
          OfMiddleware(e) /\ e.id[2] = seq[g] /\ seq[g] \in Nat /\ decided[e.of].thread = t
    BY <1>2, <1>3 DEF OfMiddleware, RecInv, NumbersInv
  <2>3. \A h \in Middlewares : \A f \in Held(h)' :
          OfMiddleware(f)' /\ f.id[2] \in Nat /\ f.id[2] <= seq[h]
    BY <1>10, <2>1, <2>2 DEF RecInv, NumbersInv
  <2>4. \A s \in Threads : pc'[s] = "record" /\ GateOf(s) \in Middlewares =>
          \A f \in Held(GateOf(s))' : decided[f.of].thread = s => f.id[2] < seq[GateOf(s)]
    <3> SUFFICES ASSUME NEW s \in Threads, pc'[s] = "record", GateOf(s) \in Middlewares,
                        NEW f \in Held(GateOf(s))', decided[f.of].thread = s
                 PROVE  f.id[2] < seq[GateOf(s)]
      OBVIOUS
    <3>1. s # t /\ pc[s] = "record"
      BY <1>6
    <3>2. f \in Held(GateOf(s))
      <4>1. PICK h \in Middlewares : h = GateOf(s) /\ f \in Held(h)'
        BY <1>5
      <4> QED
        BY <2>1, <2>2, <3>1, <4>1
    <3> QED
      BY <3>1, <3>2 DEF RecInv, NumbersInv
  <2>5. \A h \in Middlewares : \A f, f2 \in Held(h)' :
          f.id = f2.id /\ decided[f.of].thread = decided[f2.of].thread => f = f2
    <3>1. g \in Middlewares => \A f \in Held(g) : decided[f.of].thread = t => f.id # e.id
      <4> SUFFICES ASSUME g \in Middlewares, NEW f \in Held(g), decided[f.of].thread = t
                   PROVE  f.id # e.id
        OBVIOUS
      <4>1. f.id[2] < seq[g] /\ f.id[2] \in Nat
        BY <1>0, <1>1 DEF RecInv, NumbersInv
      <4> QED
        BY <2>2, <4>1
    <3> QED
      BY <2>1, <2>2, <3>1 DEF RecInv, NumbersInv
  <2> QED
    BY <1>1, <1>5, <2>3, <2>4, <2>5 DEF RecInv, NumbersInv
<1>12. HeldInv'
  <2> SUFFICES ASSUME NEW m \in DOMAIN decided,
                      decided[m].gate \in Recording, life[decided[m].gate] = decided[m].life
               PROVE  IF Unrecorded(m)' THEN Recorded(Held(decided[m].gate), m)' = {}
                      ELSE \E f \in Held(decided[m].gate)' :
                             Recorded(Held(decided[m].gate), m)' = {f}
    BY <1>1 DEF HeldInv
  <2>1. CASE m = n
    <3>1. ~ Unrecorded(m)'
      BY <1>0, <1>1, <1>6, <1>9, <1>2, <2>1 DEF Unrecorded
    <3>2. Unrecorded(m)
      BY <1>0, <1>1, <2>1 DEF Unrecorded
    <3>3. Recorded(Held(g), n) = {}
      BY <1>2, <2>1, <3>2 DEF RecInv, HeldInv
    <3>4. Recorded(Held(g), n)' = {e}
      <4>1. \A f : f \in Held(g) /\ f.of = n => f \in ToSet(told)
        BY <3>3 DEF Recorded
      <4>2. {f \in Held(g)' : f.of = n /\ f \notin ToSet(told)} = {e}
        BY <1>3, <1>4, <1>7, <4>1
      <4> QED
        BY <1>1, <4>2 DEF Recorded
    <3> QED
      BY <1>1, <1>2, <1>5, <1>7, <2>1, <3>1, <3>4
  <2>2. CASE m # n
    <3>1. Unrecorded(m)' <=> Unrecorded(m)
      BY <1>0, <1>1, <1>6, <2>2 DEF Unrecorded
    <3>2. Recorded(Held(decided[m].gate), m)' = Recorded(Held(decided[m].gate), m)
      <4>1. decided[m].gate \in Gates
        <5>1. decided[m] \in DecidedCalls
          BY DEF IInv, GateTypes
        <5> QED
          BY <5>1 DEF DecidedCalls
      <4> QED
        BY <1>1, <1>3, <1>7, <2>2, <4>1 DEF Recorded
    <3>3. Recorded(Held(decided[m].gate), m)' \subseteq Held(decided[m].gate)'
      BY DEF Recorded
    <3> QED
      BY <3>1, <3>2, <3>3 DEF RecInv, HeldInv
  <2> QED
    BY <2>1, <2>2
<1> QED
  BY <1>8, <1>11, <1>12 DEF RecInv

LEMMA RecRestart ==
  ASSUME IInv, RecInv, NEW g \in Gates, Restart(g)
  PROVE  RecInv'
<1> DEFINE caught == {t \in Threads : call[t] # NoCall /\ GateOf(t) = g}
<1>1. /\ life' = [life EXCEPT ![g] = @ + 1]
      /\ seq' = [m \in Middlewares |-> IF m = g THEN 0 ELSE seq[m]]
      /\ buffer' = [buffer EXCEPT ![g] = {}] /\ flushed' = [flushed EXCEPT ![g] = {}]
      /\ pc' = [t \in Threads |-> IF t \in caught THEN "idle" ELSE pc[t]]
      /\ call' = [t \in Threads |-> IF t \in caught THEN NoCall ELSE call[t]]
      /\ UNCHANGED <<decided, told>>
  BY DEF Restart
<1>2. /\ Held(g)' = {}
      /\ \A h \in Gates : h # g => Held(h)' = Held(h)
  BY <1>1 DEF Held, IInv, GateTypes
<1>3. /\ life'[g] = life[g] + 1 /\ life[g] \in Nat
      /\ \A h \in Gates : h # g => life'[h] = life[h]
  BY <1>1 DEF IInv, GateTypes
<1>4. \A t \in Threads : pc'[t] # "idle" =>
        /\ pc'[t] = pc[t] /\ call'[t] = call[t]
        /\ GateOf(t)' = GateOf(t) /\ GateOf(t) # g /\ GateOf(t) \in Gates
  <2> SUFFICES ASSUME NEW t \in Threads, pc'[t] # "idle"
               PROVE  /\ pc'[t] = pc[t] /\ call'[t] = call[t]
                      /\ GateOf(t)' = GateOf(t) /\ GateOf(t) # g /\ GateOf(t) \in Gates
    OBVIOUS
  <2>1. t \notin caught /\ pc'[t] = pc[t] /\ call'[t] = call[t]
    BY <1>1
  <2> QED
    BY <1>1, <2>1, CallInHand DEF GateOf
<1> HIDE DEF caught
<1>5. \A n \in DOMAIN decided : /\ decided[n].gate \in Gates /\ decided[n].life \in Nat
                                /\ decided[n].life <= life[decided[n].gate]
  <2>1. \A n \in DOMAIN decided : decided[n] \in DecidedCalls
    BY DEF IInv, GateTypes
  <2> QED
    BY <2>1 DEF DecidedCalls, RecInv, CallsInv
<1>6. CallsInv'
  <2>1. \A t \in Threads : pc'[t] = "idle" <=> call'[t] = NoCall
    BY <1>1 DEF RecInv, CallsInv
  <2>2. \A n \in DOMAIN decided : decided[n].life <= life'[decided[n].gate]
    BY <1>3, <1>5
  <2> QED
    BY <1>1, <1>3, <1>4, <2>1, <2>2 DEF RecInv, CallsInv
<1>7. \A e : OfMiddleware(e)' <=> OfMiddleware(e)
  BY <1>1 DEF OfMiddleware
<1>8. NumbersInv'
  <2>1. seq' \in [Middlewares -> Nat] /\ \A h \in Middlewares : h # g => seq'[h] = seq[h]
    BY <1>1 DEF RecInv, NumbersInv
  <2>2. \A h \in Middlewares : \A e \in Held(h)' :
          e \in Held(h) /\ h # g
    BY <1>2 DEF Gates
  <2>3. \A t \in Threads : pc'[t] = "record" /\ GateOf(t) \in Middlewares =>
          \A e \in Held(GateOf(t)) : decided[e.of].thread = t => e.id[2] < seq'[GateOf(t)]
    BY <1>4, <2>1 DEF RecInv, NumbersInv
  <2>4. \A t \in Threads : pc'[t] = "record" /\ GateOf(t)' \in Middlewares =>
          \A e \in Held(GateOf(t))' : decided[e.of].thread = t => e.id[2] < seq'[GateOf(t)']
    <3> SUFFICES ASSUME NEW t \in Threads, pc'[t] = "record", GateOf(t)' \in Middlewares
                 PROVE  \A e \in Held(GateOf(t))' :
                          decided[e.of].thread = t => e.id[2] < seq'[GateOf(t)']
      OBVIOUS
    <3>1. PICK h \in Middlewares : h = GateOf(t)' /\ h = GateOf(t)
      BY <1>4
    <3> QED
      BY <2>2, <2>3, <3>1
  <2>5. \A h \in Middlewares : \A e \in Held(h)' :
          OfMiddleware(e)' /\ e.id[2] \in Nat /\ e.id[2] <= seq'[h]
    BY <1>7, <2>1, <2>2 DEF RecInv, NumbersInv
  <2>6. \A h \in Middlewares : \A e, f \in Held(h)' :
          e.id = f.id /\ decided[e.of].thread = decided[f.of].thread => e = f
    BY <2>2 DEF RecInv, NumbersInv
  <2> QED
    BY <1>1, <2>1, <2>4, <2>5, <2>6 DEF NumbersInv
<1>9. HeldInv'
  <2> SUFFICES ASSUME NEW n \in DOMAIN decided,
                      decided[n].gate \in Recording, life'[decided[n].gate] = decided[n].life
               PROVE  IF Unrecorded(n)' THEN Recorded(Held(decided[n].gate), n)' = {}
                      ELSE \E e \in Held(decided[n].gate)' :
                             Recorded(Held(decided[n].gate), n)' = {e}
    BY <1>1 DEF HeldInv
  <2>1. decided[n].gate # g /\ decided[n].gate \in Gates
    BY <1>3, <1>5
  <2>2. life[decided[n].gate] = decided[n].life
    BY <1>3, <2>1
  <2>3. Unrecorded(n)' <=> Unrecorded(n)
    <3>1. ASSUME NEW t \in Threads, call[t] = n, pc[t] \in {"number", "record"}
          PROVE  pc'[t] = pc[t] /\ call'[t] = call[t]
      <4>1. GateOf(t) # g
        BY <2>1, <3>1 DEF GateOf
      <4> QED
        BY <1>1, <4>1 DEF caught
    <3>2. ASSUME NEW t \in Threads, pc'[t] \in {"number", "record"}
          PROVE  pc'[t] = pc[t] /\ call'[t] = call[t]
      BY <1>4, <3>2
    <3> QED
      BY <3>1, <3>2 DEF Unrecorded
  <2>4. PICK h \in Gates : h = decided[n].gate /\ h # g
    BY <2>1
  <2>5. Held(h)' = Held(h) /\ Recorded(Held(h), n)' = Recorded(Held(h), n)
    BY <1>1, <1>2, <2>4 DEF Recorded
  <2> QED
    BY <1>1, <2>2, <2>3, <2>4, <2>5 DEF RecInv, HeldInv
<1> QED
  BY <1>6, <1>8, <1>9 DEF RecInv

THEOREM RecInvariant == Spec => [](IInv /\ RecInv)
<1>1. Init => RecInv
  BY RecInit
<1>2. IInv /\ IInv' /\ RecInv /\ [Next]_vars => RecInv'
  <2> SUFFICES ASSUME IInv, RecInv, [Next]_vars PROVE RecInv'
    OBVIOUS
  <2>1. CASE UNCHANGED vars
    BY <2>1 DEF vars, RecInv, CallsInv, NumbersInv, HeldInv, Held, Recorded, Unrecorded,
                GateOf, OfMiddleware
  <2>2. CASE Next
    BY <2>2, RecGate, RecNumber, RecRecord, RecAct, RecOnResolution, RecFlush, RecPost,
       RecRestart DEF Next
  <2> QED
    BY <2>1, <2>2
<1> QED
  BY <1>1, <1>2, GateInvariant, PTL DEF Spec

\* Every call a living gate has dealt with has one event, with the engine's
\* decision, and a middleware gives one number only to calls that run at once.
THEOREM DecisionsHaveOneEvent == Spec => []OneEventPerDecision
<1>1. IInv /\ RecInv => OneEventPerDecision
  <2> SUFFICES ASSUME IInv, RecInv PROVE OneEventPerDecision
    OBVIOUS
  <2>1. \A g \in Middlewares : \A e, f \in buffer[g] \union flushed[g] :
          e.id = f.id /\ decided[e.of].thread = decided[f.of].thread => e = f
    BY DEF RecInv, NumbersInv, Held
  <2>2. ASSUME NEW n \in DOMAIN decided, decided[n].gate \in Recording,
               life[decided[n].gate] = decided[n].life, \A t \in Threads : call[t] # n
        PROVE  Cardinality(Recorded(Held(decided[n].gate), n)) = 1
    <3>1. PICK e : Recorded(Held(decided[n].gate), n) = {e}
      BY <2>2 DEF RecInv, HeldInv, Unrecorded
    <3> QED
      BY <3>1, FS_Singleton
  <2>3. ASSUME NEW n \in DOMAIN decided,
               NEW e \in Recorded(Held(decided[n].gate) \union ledger, n)
        PROVE  e.decision = decided[n].decision
    <3>1. decided[n] \in DecidedCalls
      BY DEF IInv, GateTypes
    <3>2. Known(e) /\ e \notin ToSet(told) /\ e.of = n
      BY <3>1 DEF Recorded, Held, DecidedCalls, IInv, EventsInv
    <3> QED
      BY <3>2 DEF Known, OfBridge, OfMiddleware, Event
  <2> QED
    BY <2>1, <2>2, <2>3 DEF OneEventPerDecision, Held
<1> QED
  BY <1>1, RecInvariant, PTL

------------------------------------------------------------------------------
\* Any set of natural numbers that is not empty has a least one: the induction
\* that needs no operator for the induction hypothesis.
LEMMA LeastNumber ==
  ASSUME NEW T, T \subseteq Nat, T # {}
  PROVE  \E n \in T : \A m \in T : n <= m
<1> DEFINE Less == OpToRel(<, Nat)
<1>1. IsWellFoundedOn(Less, Nat)
  BY NatLessThanWellFounded
<1>2. PICK n \in T : \A m \in T : ~ (<<m, n>> \in Less)
  <2> HIDE DEF Less
  <2> QED
    BY <1>1, WFMin
<1>3. \A m \in T : ~ (m < n)
  BY <1>2 DEF OpToRel
<1> QED
  BY <1>3

\* Both factors grow: so does their product.
LEMMA ProductsGrow ==
  ASSUME NEW a \in Nat, NEW b \in Nat, NEW c \in Nat, NEW d \in Nat, a <= b, c <= d
  PROVE  a * c \in Nat /\ b * d \in Nat /\ a * c <= b * d
OBVIOUS

\* Fractions are ordered by their cross products.
LEMMA FractionsAreOrdered ==
  ASSUME NEW a \in Nat, NEW b \in Nat, NEW c \in Nat,
         NEW x \in Nat \ {0}, NEW y \in Nat \ {0}, NEW z \in Nat \ {0}
  PROVE  /\ a * y <= b * x /\ b * z <= c * y => a * z <= c * x
         /\ a * y < b * x /\ b * z <= c * y => a * z < c * x
         /\ a * y <= b * x /\ b * z < c * y => a * z < c * x
<1>1. /\ (a * y <= b * x => (a * y) * z <= (b * x) * z)
      /\ (a * y < b * x => (a * y) * z < (b * x) * z)
  OBVIOUS
<1>2. /\ (b * z <= c * y => (b * z) * x <= (c * y) * x)
      /\ (b * z < c * y => (b * z) * x < (c * y) * x)
  OBVIOUS
<1>3. (a * y) * z = (a * z) * y /\ (b * x) * z = (b * z) * x /\ (c * y) * x = (c * x) * y
  OBVIOUS
<1>4. /\ ((a * z) * y <= (c * x) * y => a * z <= c * x)
      /\ ((a * z) * y < (c * x) * y => a * z < c * x)
  OBVIOUS
<1> QED
  BY <1>1, <1>2, <1>3, <1>4

\* i is what min() returns: the first of those that lose least.
IsBest(i, available, loss) ==
    /\ i \in available
    /\ \A j \in available :
         LosesLess(loss[i], loss[j]) \/ (~ LosesLess(loss[j], loss[i]) /\ i <= j)

Losses == [num : Nat, den : Nat \ {0}]

\* There is one, by induction on the length of the prefix that is looked at: no
\* k can be the least for which the first k have none.
LEMMA BestExists ==
  ASSUME NEW N \in Nat, NEW available \in SUBSET (1 .. N), available # {},
         NEW loss \in [available -> Losses]
  PROVE  \E i \in available : IsBest(i, available, loss)
<1> DEFINE Upto(k) == available \intersect (1 .. k)
           Bad == {k \in 0 .. N : Upto(k) # {} /\ \A i \in Upto(k) : ~ IsBest(i, Upto(k), loss)}
<1>1. SUFFICES Bad = {}
  <2>1. Upto(N) = available
    OBVIOUS
  <2>2. N \notin Bad
    BY <1>1
  <2> QED
    BY <2>1, <2>2
<1>2. SUFFICES ASSUME Bad # {} PROVE FALSE
  OBVIOUS
<1>3. PICK k \in Bad : \A m \in Bad : k <= m
  <2>1. Bad \subseteq Nat
    OBVIOUS
  <2> HIDE DEF Bad
  <2> QED
    BY <1>2, <2>1, LeastNumber
<1>4. k \in 1 .. N /\ Upto(k) # {}
  BY <1>3
<1>9. k - 1 \in 0 .. N /\ k - 1 \notin Bad
  <2>1. k - 1 \in 0 .. N /\ k \in Nat /\ ~ (k <= k - 1)
    BY <1>4
  <2> HIDE DEF Bad
  <2> QED
    BY <1>3, <2>1
<1>5. k \in available
  <2>1. k \notin available => Upto(k) = Upto(k - 1)
    BY <1>4
  <2> QED
    BY <1>3, <1>9, <2>1
<1>6. Upto(k) = Upto(k - 1) \union {k}
  BY <1>4, <1>5
<1>7. CASE Upto(k - 1) = {}
  <2>1. Upto(k) = {k}
    BY <1>6, <1>7
  <2>2. ~ LosesLess(loss[k], loss[k])
    BY <1>5 DEF LosesLess, Losses
  <2>3. IsBest(k, Upto(k), loss)
    BY <1>4, <2>1, <2>2 DEF IsBest
  <2> QED
    BY <1>3, <2>1, <2>3
<1>8. CASE Upto(k - 1) # {}
  <2>1. PICK i \in Upto(k - 1) : IsBest(i, Upto(k - 1), loss)
    BY <1>8, <1>9
  <2>2. i \in available /\ i \in Nat /\ i < k
    BY <1>4, <2>1
  <2>3. CASE LosesLess(loss[k], loss[i])
    <3>1. ASSUME NEW j \in Upto(k - 1)
          PROVE  LosesLess(loss[k], loss[j])
      <4>1. loss[i] \in Losses /\ loss[j] \in Losses /\ loss[k] \in Losses
        BY <1>5, <2>2
      <4>2. ~ LosesLess(loss[j], loss[i]) \/ LosesLess(loss[i], loss[j])
        BY <2>1 DEF IsBest
      <4>3. loss[i].num * loss[j].den <= loss[j].num * loss[i].den
        BY <4>1, <4>2 DEF LosesLess, Losses
      <4>4. loss[k].num * loss[i].den < loss[i].num * loss[k].den
        BY <2>3 DEF LosesLess
      <4> QED
        BY <4>1, <4>3, <4>4, FractionsAreOrdered DEF LosesLess, Losses
    <3>2. ~ LosesLess(loss[k], loss[k])
      BY <1>5 DEF LosesLess, Losses
    <3>3. IsBest(k, Upto(k), loss)
      BY <1>4, <1>5, <1>6, <3>1, <3>2 DEF IsBest
    <3> QED
      BY <1>3, <1>4, <1>5, <3>3
  <2>4. CASE ~ LosesLess(loss[k], loss[i])
    <3>1. IsBest(i, Upto(k), loss)
      BY <1>4, <1>6, <2>1, <2>2, <2>4 DEF IsBest
    <3> QED
      BY <1>3, <1>6, <2>1, <3>1
  <2> QED
    BY <2>3, <2>4
<1> QED
  BY <1>7, <1>8

\* A higher risk does not make a dearer tier worse in comparison.
LEMMA DearerTiersGain ==
  ASSUME NEW x \in Nat, NEW y \in Nat, x <= y, NEW low \in Nat,
         NEW c \in Nat, NEW d \in Nat, d < c, low <= d
  PROVE  /\ ~ LosesLess(TierLoss(x, low, d), TierLoss(x, low, c))
            => ~ LosesLess(TierLoss(y, low, d), TierLoss(y, low, c))
         /\ LosesLess(TierLoss(x, low, c), TierLoss(x, low, d))
            => LosesLess(TierLoss(y, low, c), TierLoss(y, low, d))
<1>0. Scale \in Nat \ {0}
  BY PolicyAssumption
<1>1. CASE d = 0
  <2> QED
    BY <1>0, <1>1 DEF TierLoss, LosesLess
<1>2. CASE d > 0
  <2> DEFINE P(r) == (r * low + c * c * Scale) * d
             Q(r) == (r * low + d * d * Scale) * c
  <2>1. ASSUME NEW r \in Nat
        PROVE  /\ LosesLess(TierLoss(r, low, d), TierLoss(r, low, c)) <=> Q(r) < P(r)
               /\ LosesLess(TierLoss(r, low, c), TierLoss(r, low, d)) <=> P(r) < Q(r)
    BY <1>0, <1>2 DEF TierLoss, LosesLess
  <2>2. ASSUME NEW r \in Nat
        PROVE  Q(r) - P(r) = (r * low - c * d * Scale) * (c - d)
    BY <1>0
  <2>3. x * low <= y * low
    BY ProductsGrow
  <2>4. /\ 0 <= Q(x) - P(x) <=> c * d * Scale <= x * low
        /\ 0 < Q(x) - P(x) <=> c * d * Scale < x * low
        /\ 0 <= Q(y) - P(y) <=> c * d * Scale <= y * low
        /\ 0 < Q(y) - P(y) <=> c * d * Scale < y * low
    BY <1>0, <2>2
  <2>5. P(x) \in Int /\ Q(x) \in Int /\ P(y) \in Int /\ Q(y) \in Int
    BY <1>0
  <2>6. c * d * Scale \in Int /\ x * low \in Int /\ y * low \in Int
    BY <1>0
  <2> HIDE DEF P, Q
  <2> QED
    BY <2>1, <2>3, <2>4, <2>5, <2>6
<1> QED
  BY <1>1, <1>2

\* The prices of the tiers.
LEMMA TierCosts ==
  ASSUME NEW tiers, IsTierDict(tiers)
  PROVE  /\ Len(tiers) \in Nat /\ DOMAIN tiers = 1 .. Len(tiers)
         /\ \A i \in DOMAIN tiers : tiers[i].cost \in Nat
<1> DEFINE entries == [model : STRING, cost : Nat]
<1>1. tiers \in Seq(entries)
  BY DEF IsTierDict
<1>2. \A i \in DOMAIN tiers : tiers[i] \in entries
  <2> HIDE DEF entries
  <2> QED
    BY <1>1
<1>3. Len(tiers) \in Nat /\ DOMAIN tiers = 1 .. Len(tiers)
  BY <1>1
<1> QED
  BY <1>2, <1>3

\* Among the same tiers the riskier of two requests gets no cheaper one.
LEMMA RoutesGetDearer ==
  ASSUME NEW tiers, IsTierDict(tiers), NEW available \in SUBSET DOMAIN tiers, available # {},
         NEW x \in Nat, NEW y \in Nat, x <= y
  PROVE  \E i, j \in available :
           /\ BayesRoute(x, tiers, available) = tiers[i].model
           /\ BayesRoute(y, tiers, available) = tiers[j].model
           /\ tiers[i].cost <= tiers[j].cost
<1> DEFINE low == LowestCost(tiers, available)
           loss(r) == [i \in available |-> TierLoss(r, low, tiers[i].cost)]
<1>1. \A i \in available : tiers[i].cost \in Nat
  BY TierCosts
<1>2. low \in Nat /\ \A i \in available : low <= tiers[i].cost
  <2>1. PICK c \in {tiers[i].cost : i \in available} :
          \A d \in {tiers[i].cost : i \in available} : c <= d
    <3>1. {tiers[i].cost : i \in available} \subseteq Nat
      BY <1>1
    <3>2. {tiers[i].cost : i \in available} # {}
      OBVIOUS
    <3> QED
      BY <3>1, <3>2, LeastNumber
  <2> QED
    BY <1>1, <2>1 DEF LowestCost
<1> HIDE DEF low
<1>3. ASSUME NEW r \in Nat
      PROVE  \E i \in available :
               IsBest(i, available, loss(r)) /\ BayesRoute(r, tiers, available) = tiers[i].model
  <2>1. loss(r) \in [available -> Losses]
    <3>1. \A i \in available : TierLoss(r, low, tiers[i].cost) \in Losses
      BY <1>1, <1>2, PolicyAssumption DEF TierLoss, Losses
    <3> QED
      BY <3>1
  <2>2. PICK N \in Nat : available \subseteq 1 .. N
    BY TierCosts
  <2>3. \E i \in available : IsBest(i, available, loss(r))
    <3> HIDE DEF loss
    <3> QED
      BY <2>1, <2>2, BestExists
  <2>4. BayesRoute(r, tiers, available)
          = tiers[CHOOSE i \in available : IsBest(i, available, loss(r))].model
    <3>1. \A i \in available : IsBest(i, available, loss(r)) <=>
            \A j \in available : LosesLess(loss(r)[i], loss(r)[j])
                  \/ (~ LosesLess(loss(r)[j], loss(r)[i]) /\ i <= j)
      BY DEF IsBest
    <3> QED
      BY <3>1 DEF BayesRoute, low
  <2> HIDE DEF loss
  <2> QED
    BY <2>3, <2>4
<1>4. PICK i \in available :
        IsBest(i, available, loss(x)) /\ BayesRoute(x, tiers, available) = tiers[i].model
  BY <1>3
<1>5. PICK j \in available :
        IsBest(j, available, loss(y)) /\ BayesRoute(y, tiers, available) = tiers[j].model
  BY <1>3
<1>6. tiers[i].cost <= tiers[j].cost
  <2> SUFFICES ASSUME tiers[j].cost < tiers[i].cost PROVE FALSE
    BY <1>1
  <2>1. i \in Nat /\ j \in Nat /\ i # j
    BY <1>1, TierCosts
  <2>2. \/ LosesLess(loss(x)[i], loss(x)[j])
        \/ ~ LosesLess(loss(x)[j], loss(x)[i]) /\ i <= j
    BY <1>4 DEF IsBest
  <2>3. \/ LosesLess(loss(y)[j], loss(y)[i])
        \/ ~ LosesLess(loss(y)[i], loss(y)[j]) /\ j <= i
    BY <1>5 DEF IsBest
  <2>4. /\ ~ LosesLess(loss(x)[j], loss(x)[i]) => ~ LosesLess(loss(y)[j], loss(y)[i])
        /\ LosesLess(loss(x)[i], loss(x)[j]) => LosesLess(loss(y)[i], loss(y)[j])
    BY <1>1, <1>2, DearerTiersGain
  <2>5. ~ (LosesLess(loss(y)[i], loss(y)[j]) /\ LosesLess(loss(y)[j], loss(y)[i]))
    <3>1. loss(y)[i] \in Losses /\ loss(y)[j] \in Losses
      BY <1>1, <1>2, PolicyAssumption DEF TierLoss, Losses
    <3> QED
      BY <3>1 DEF LosesLess, Losses
  <2>6. ~ (LosesLess(loss(x)[i], loss(x)[j]) /\ LosesLess(loss(x)[j], loss(x)[i]))
    <3>1. loss(x)[i] \in Losses /\ loss(x)[j] \in Losses
      BY <1>1, <1>2, PolicyAssumption DEF TierLoss, Losses
    <3> QED
      BY <3>1 DEF LosesLess, Losses
  <2> HIDE DEF loss
  <2> QED
    BY <2>1, <2>2, <2>3, <2>4, <2>5, <2>6
<1> QED
  BY <1>4, <1>5, <1>6

\* What a hook hands on has a risk, or says that there is none.
LEMMA RequestsHaveRisks ==
  ASSUME NEW request \in Requests
  PROVE  Probability(request.risk) \in Nat
<1>1. PICK hook \in Hooks, ask \in Asks : request = RequestOf(hook, ask)
  BY DEF Requests
<1>2. HasRisk(ask)
  BY GateAssumption
<1> DEFINE bare == [tool |-> ask.tool, risk |-> NoRisk, severity |-> "LOW", models |-> << >>]
<1>3. request \in {bare, [bare EXCEPT !.tool = "model_call"], ask, [ask EXCEPT !.models = << >>]}
  BY <1>1 DEF Hooks, RequestOf, MiddlewareRequest, BridgeModelRequest, BridgeToolRequest
<1>4. request.risk \in {NoRisk, ask.risk}
  BY <1>2, <1>3 DEF HasRisk
<1> QED
  BY <1>2, <1>4 DEF HasRisk, Probability

\* Whatever severity a request names, known or not, it has a cost.
LEMMA SeveritiesHaveCosts ==
  ASSUME NEW raw
  PROVE  CostOf[SeverityOf(raw)] \in Nat
BY PolicyAssumption DEF SeverityOf

\* Every call has the model the engine chose for it.
ModelInv == \A n \in DOMAIN decided :
    decided[n].model = Decide(BundleOf[decided[n].gate], decided[n].request).model

THEOREM ModelInvariant == Spec => [](IInv /\ ModelInv)
<1>1. Init => ModelInv
  BY DEF Init, ModelInv
<1>2. IInv /\ ModelInv /\ [Next]_vars => ModelInv'
  <2> SUFFICES ASSUME IInv, ModelInv, [Next]_vars PROVE ModelInv'
    OBVIOUS
  <2>1. ASSUME NEW t \in Threads, Gate(t)
        PROVE  ModelInv'
    <3>1. PICK d : /\ d.model = Decide(BundleOf[d.gate], d.request).model
                   /\ decided' = Append(decided, d)
      BY <2>1 DEF Gate
    <3> QED
      BY <3>1, Appending DEF IInv, GateTypes, ModelInv
  <2>2. CASE UNCHANGED decided
    BY <2>2 DEF ModelInv
  <2> QED
    BY <2>1, <2>2 DEF Next, vars, Number, Record, Act, OnResolution, Flush, Post, Restart
<1> QED
  BY <1>1, <1>2, GateInvariant, PTL DEF Spec

\* Whatever the policies, the costs and the tiers: of two calls of a tool at one
\* gate the riskier one is reviewed if the other is, and where both are routed
\* among the same tiers it gets no cheaper model.
THEOREM RiskierCallsAreTakenMoreCareOf == Spec => []RiskierCallsGetMoreCare
<1>1. IInv /\ ModelInv => RiskierCallsGetMoreCare
  <2> SUFFICES ASSUME IInv, ModelInv, NEW m \in DOMAIN decided, NEW n \in DOMAIN decided,
                      decided[m].gate = decided[n].gate,
                      decided[m].request.tool = decided[n].request.tool,
                      Probability(decided[m].request.risk) <= Probability(decided[n].request.risk),
                      CostOf[SeverityOf(decided[m].request.severity)]
                        <= CostOf[SeverityOf(decided[n].request.severity)]
               PROVE  /\ decided[m].decision = "ESCALATE" => decided[n].decision = "ESCALATE"
                      /\ /\ decided[m].request.models = decided[n].request.models
                         /\ TiersAvailable(BundleOf[decided[m].gate], decided[m].request.models) # {}
                         /\ decided[m].decision = "ROUTE" /\ decided[n].decision = "ROUTE"
                         => CostOfModel(decided[m].gate, decided[m].model)
                              <= CostOfModel(decided[n].gate, decided[n].model)
    BY DEF RiskierCallsGetMoreCare
  <2> DEFINE g == decided[m].gate
             a == decided[m].request
             b == decided[n].request
             p == Probability(a.risk)
             q == Probability(b.risk)
             s == SeverityOf(a.severity)
             u == SeverityOf(b.severity)
             tiers == BundleOf[g].model_tiers
             available == TiersAvailable(BundleOf[g], a.models)
  <2>1. g \in Gates /\ a \in Requests /\ b \in Requests
    <3>1. decided[m] \in DecidedCalls /\ decided[n] \in DecidedCalls
      BY DEF IInv, GateTypes
    <3> QED
      BY <3>1 DEF DecidedCalls
  <2>2. /\ BundleOf[g].escalation_threshold \in Int /\ IsTierDict(tiers)
        /\ p \in Nat /\ q \in Nat /\ p <= q
    BY <2>1, GateAssumption, RequestsHaveRisks
  <2>3. /\ ExpectedLoss(p, s) \in Nat /\ ExpectedLoss(q, u) \in Nat
        /\ ExpectedLoss(p, s) <= ExpectedLoss(q, u)
    <3>1. CostOf[s] \in Nat /\ CostOf[u] \in Nat /\ CostOf[s] <= CostOf[u]
      BY SeveritiesHaveCosts
    <3> HIDE DEF p, q, s, u
    <3> QED
      BY <2>2, <3>1, ProductsGrow DEF ExpectedLoss
  <2>4. /\ decided[m].decision = Decide(BundleOf[g], a).decision
        /\ decided[n].decision = Decide(BundleOf[g], b).decision
        /\ decided[m].model = Decide(BundleOf[g], a).model
        /\ decided[n].model = Decide(BundleOf[g], b).model
    BY DEF IInv, GateInv, ModelInv
  <2>5. Escalated(BundleOf[g], p, s) => Escalated(BundleOf[g], q, u)
    <3>1. EscalateCost * Scale \in Nat
      BY PolicyAssumption
    <3> HIDE DEF g, p, q, s, u
    <3> QED
      BY <2>2, <2>3, <3>1 DEF Escalated, EscalateIff
  <2>6. decided[m].decision = "ESCALATE" => decided[n].decision = "ESCALATE"
    BY <2>4, <2>5 DEF Decide, Response
  <2>7. ASSUME a.models = b.models, available # {},
               decided[m].decision = "ROUTE", decided[n].decision = "ROUTE"
        PROVE  CostOfModel(g, decided[m].model) <= CostOfModel(g, decided[n].model)
    <3>1. /\ decided[m].model = BayesRoute(ExpectedLoss(p, s), tiers, available)
          /\ decided[n].model = BayesRoute(ExpectedLoss(q, u), tiers, available)
      BY <2>4, <2>7 DEF Decide, Response
    <3>2. available \in SUBSET DOMAIN tiers
      BY DEF TiersAvailable
    <3>3. PICK i \in available, j \in available :
            /\ decided[m].model = tiers[i].model /\ decided[n].model = tiers[j].model
            /\ tiers[i].cost <= tiers[j].cost
      <4> HIDE DEF tiers, available, p, q, s, u
      <4> QED
        BY <2>2, <2>3, <2>7, <3>1, <3>2, RoutesGetDearer
    <3>4. \A k \in DOMAIN tiers : CostOfModel(g, tiers[k].model) = tiers[k].cost
      BY <2>2 DEF CostOfModel, IsTierDict
    <3> QED
      BY <3>2, <3>3, <3>4
  <2> QED
    BY <2>6, <2>7
<1> QED
  BY <1>1, ModelInvariant, PTL
==============================================================================
