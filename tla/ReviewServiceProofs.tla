------------------------- MODULE ReviewServiceProofs -------------------------
(***************************************************************************)
(* Proofs about ReviewService: at most one answer to a review stands, for  *)
(* any number of threads, reviews, tenants and handles on the ledger; and  *)
(* through one handle an answer is only recorded of a review that was      *)
(* opened, an answered review is pending for nobody, and one that is not   *)
(* answered is not lost, whatever the process was doing when it died.      *)
(***************************************************************************)
EXTENDS ReviewService, FiniteSetTheorems, TLAPS

Calls == [handle : Handles, event : Events]

Appends == [event : Events \union {None}, base : Nat]

InLog(e) == \E i \in DOMAIN log : log[i] = e

\* What a thread has learnt before its next step: the existence check still
\* holds for the rows its transaction began with, and what was committed stays.
ThreadInv(t) ==
    /\ pc[t] \in {"idle", "get", "append", "commit", "return"}
    /\ pc[t] # "idle" => call[t] \in Calls
    /\ pc[t] = "commit" =>
         LET append == open[call[t].handle] IN
         /\ append.event = call[t].event
         /\ \A i \in 1 .. append.base : ~ SameId(log[i], call[t].event)
    /\ pc[t] = "return" => InLog(call[t].event)

\* append() holds the lock of its handle up to the COMMIT.
OneAppendPerHandle ==
    \A t, u \in Threads :
        pc[t] = "commit" /\ pc[u] = "commit" /\ call[t].handle = call[u].handle => t = u

Shapes ==
    /\ log \in Seq(Events) /\ now \in 0 .. MaxTime
    /\ DOMAIN pc = Threads /\ DOMAIN call = Threads /\ DOMAIN open = Handles
    /\ \A h \in Handles : open[h] \in Appends /\ open[h].base <= Len(log)

IInv == Shapes /\ (\A t \in Threads : ThreadInv(t)) /\ OneAppendPerHandle /\ OneAnswerStands

------------------------------------------------------------------------------
LogGrows ==
    /\ Len(log) <= Len(log')
    /\ \A i \in DOMAIN log : i \in DOMAIN log' /\ log'[i] = log[i]

LEMMA LogShape ==
  ASSUME Shapes
  PROVE  /\ Len(log) \in Nat /\ DOMAIN log = 1 .. Len(log)
         /\ \A i \in DOMAIN log : log[i] \in Events
  BY DEF Shapes

LEMMA AppendGrows ==
  ASSUME Shapes, NEW e \in Events, log' = Append(log, e)
  PROVE  /\ LogGrows /\ log' \in Seq(Events)
         /\ Len(log) + 1 \in DOMAIN log' /\ log'[Len(log) + 1] = e
         /\ \A i \in DOMAIN log' : i \in DOMAIN log \/ i = Len(log) + 1
<1>1. log \in Seq(Events)
  BY DEF Shapes
<1> HIDE DEF Events
<1> QED
  BY <1>1 DEF LogGrows

LEMMA SameLogGrows == Shapes /\ log' = log => LogGrows
  BY LogShape DEF LogGrows

LEMMA GrowingKeepsEvents ==
  ASSUME LogGrows
  PROVE  \A e : InLog(e) => InLog(e)'
  BY DEF LogGrows, InLog

\* A step of another thread takes from a thread nothing it has learnt.
LEMMA OthersKeep ==
  ASSUME Shapes, LogGrows, NEW u \in Threads, ThreadInv(u),
         pc'[u] = pc[u], call'[u] = call[u],
         pc[u] = "commit" => open'[call[u].handle] = open[call[u].handle]
  PROVE  ThreadInv(u)'
<1>1. CASE pc[u] = "commit"
  <2> DEFINE append == open[call[u].handle]
  <2>1. call[u] \in Calls /\ append \in Appends
    BY <1>1 DEF ThreadInv, Shapes, Calls
  <2>2. append.base \in Nat /\ append.base <= Len(log) /\ append.event = call[u].event
        /\ \A i \in 1 .. append.base : ~ SameId(log[i], call[u].event)
    BY <1>1, <2>1 DEF ThreadInv, Shapes, Calls, Appends
  <2>4. \A i \in 1 .. append.base : log'[i] = log[i]
    BY <2>2, LogShape DEF LogGrows
  <2> QED
    BY <1>1, <2>1, <2>2, <2>4 DEF ThreadInv
<1>2. CASE pc[u] # "commit"
  BY <1>2, GrowingKeepsEvents DEF ThreadInv, InLog, LogGrows
<1> QED
  BY <1>1, <1>2

LEMMA ReviewInit == Init => IInv
<1> SUFFICES ASSUME Init PROVE IInv
  OBVIOUS
<1>1. Shapes
  BY LimitAssumption DEF Init, Shapes, Appends, Closed
<1>2. \A t \in Threads : ThreadInv(t)
  BY DEF Init, ThreadInv
<1> QED
  BY <1>1, <1>2 DEF Init, IInv, OneAppendPerHandle, OneAnswerStands

\* What is left to show of a step of one thread that leaves ledger and
\* transactions alone.
LEMMA ThreadStep ==
  ASSUME IInv, NEW t \in Threads, UNCHANGED <<log, open, now>>,
         NEW label, pc' = [pc EXCEPT ![t] = label], label # "commit",
         NEW c, call' = [call EXCEPT ![t] = c], ThreadInv(t)',
         returned' = returned \/ (InLog(call[t].event) /\ returned' = returned \union {call[t].event})
  PROVE  IInv'
<1>1. Shapes' /\ LogGrows
  BY SameLogGrows DEF IInv, Shapes
<1>2. ASSUME NEW u \in Threads PROVE ThreadInv(u)'
  BY <1>1, OthersKeep DEF IInv, Shapes
<1>3. OneAppendPerHandle'
  BY DEF IInv, Shapes, OneAppendPerHandle
<1>4. OneAnswerStands'
  BY DEF IInv, OneAnswerStands, InLog
<1> QED
  BY <1>1, <1>2, <1>3, <1>4 DEF IInv

\* A call that is started wants to append an event of its kind.
LEMMA CallsAreCalls ==
  ASSUME Shapes, NEW t \in Threads, CallOpen(t) \/ CallResolve(t) \/ CallOther(t)
  PROVE  \E c \in Calls, label \in {"append", "get"} :
            /\ pc[t] = "idle" /\ pc' = [pc EXCEPT ![t] = label]
            /\ call' = [call EXCEPT ![t] = c]
            /\ UNCHANGED <<log, open, returned, now>>
<1>1. CASE CallOpen(t)
  <2>1. PICK h \in Handles, d \in Decisions, tenant \in Tenants :
          Start(t, h, Opened(d, tenant, now), "append")
    BY <1>1 DEF CallOpen
  <2>2. [handle |-> h, event |-> Opened(d, tenant, now)] \in Calls
    BY DEF Calls, Events, Opened, Event, Shapes
  <2> QED
    BY <2>1, <2>2 DEF Start, Goto
<1>2. CASE CallResolve(t)
  <2>1. PICK h \in Handles, d \in Decisions, tenant \in Tenants, r \in Resolutions :
          Start(t, h, Event(d, "resolved", tenant, now, r), "get")
    BY <1>2 DEF CallResolve
  <2>2. [handle |-> h, event |-> Event(d, "resolved", tenant, now, r)] \in Calls
    BY DEF Calls, Events, Event, Shapes
  <2> QED
    BY <2>1, <2>2 DEF Start, Goto
<1>3. CASE CallOther(t)
  <2>1. PICK h \in Handles, o \in Others, tenant \in Tenants :
          Start(t, h, Event(o, "other", tenant, now, None), "append")
    BY <1>3 DEF CallOther
  <2>2. [handle |-> h, event |-> Event(o, "other", tenant, now, None)] \in Calls
    BY DEF Calls, Events, Event, Shapes
  <2> QED
    BY <2>1, <2>2 DEF Start, Goto
<1> QED
  BY <1>1, <1>2, <1>3

LEMMA StartKeeps ==
  ASSUME IInv, NEW t \in Threads, CallOpen(t) \/ CallResolve(t) \/ CallOther(t)
  PROVE  IInv'
<1>1. PICK c \in Calls, label \in {"append", "get"} :
            /\ pc[t] = "idle" /\ pc' = [pc EXCEPT ![t] = label]
            /\ call' = [call EXCEPT ![t] = c]
            /\ UNCHANGED <<log, open, returned, now>>
  BY CallsAreCalls DEF IInv
<1>2. ThreadInv(t)'
  BY <1>1 DEF ThreadInv, IInv, Shapes
<1> QED
  BY <1>1, <1>2, ThreadStep

LEMMA FinishKeeps ==
  ASSUME IInv, NEW t \in Threads, Finish(t), UNCHANGED <<log, open, now>>,
         returned' = returned \/ (InLog(call[t].event) /\ returned' = returned \union {call[t].event})
  PROVE  IInv'
<1>1. pc' = [pc EXCEPT ![t] = "idle"] /\ call' = [call EXCEPT ![t] = Idle]
  BY DEF Finish, Goto
<1>2. ThreadInv(t)'
  BY <1>1 DEF ThreadInv, IInv, Shapes
<1> QED
  BY <1>1, <1>2, ThreadStep

\* The marker that resolve() makes of the opened one it has read.
LEMMA SourcesAreEvents ==
  ASSUME Shapes, NEW h \in Handles, NEW e \in Events
  PROVE  \A source \in Sources(View(h), e) :
            /\ source \in Events /\ source.of = e.of /\ source.kind = "opened"
            /\ InLog(source) \/ source = open[h].event
            /\ Resolved(source, e.tenant, e.at, e.outcome) \in Events
            /\ Resolved(source, e.tenant, e.at, e.outcome).of = e.of
            /\ Resolved(source, e.tenant, e.at, e.outcome).tenant = source.tenant
<1>1. ASSUME NEW source \in Sources(View(h), e)
      PROVE  source \in Events /\ (InLog(source) \/ source = open[h].event)
             /\ source.of = e.of /\ source.kind = "opened"
  <2>1. PICK i \in DOMAIN View(h) : source = View(h)[i]
    BY <1>1 DEF Sources, OpenedIn, ToSet
  <2>2. source.of = e.of /\ source.kind = "opened"
    BY <1>1 DEF Sources, OpenedIn
  <2>3. CASE open[h].event = None
    BY <2>1, <2>2, <2>3, LogShape DEF View, InLog
  <2>4. CASE open[h].event # None
    <3> DEFINE prefix == SubSeq(log, 1, open[h].base)
    <3>1. open[h].event \in Events /\ open[h].base \in Nat /\ open[h].base <= Len(log)
      BY <2>4 DEF Shapes, Appends
    <3>2. /\ prefix \in Seq(Events) /\ Len(prefix) = open[h].base
          /\ \A k \in 1 .. Len(prefix) : prefix[k] = log[k]
      BY <3>1, LogShape DEF Shapes
    <3>3. View(h) = Append(prefix, open[h].event)
      BY <2>4 DEF View
    <3> HIDE DEF prefix
    <3>4. (i \in 1 .. Len(prefix) /\ source = prefix[i]) \/ source = open[h].event
      BY <2>1, <3>1, <3>2, <3>3
    <3> QED
      BY <2>2, <3>1, <3>2, <3>4, LogShape DEF InLog
  <2> QED
    BY <2>3, <2>4
<1>2. \A source : source.tenant \in Tenants =>
        Resolved(source, e.tenant, e.at, e.outcome).tenant \in Tenants
  BY DEF Resolved, Event
<1> QED
  BY <1>1, <1>2 DEF Resolved, Event, Events

LEMMA GetSourceKeeps ==
  ASSUME IInv, NEW t \in Threads, GetSource(t)
  PROVE  IInv'
<1> DEFINE e == call[t].event
           h == call[t].handle
<1>1. pc[t] = "get" /\ UNCHANGED <<log, open, returned, now>>
  BY DEF GetSource
<1>2. h \in Handles /\ e \in Events
  BY <1>1 DEF IInv, ThreadInv, Calls
<1>3. CASE Finish(t)
  BY <1>1, <1>3, FinishKeeps
<1>4. CASE \E source \in Sources(View(h), e) :
             /\ call' = [call EXCEPT ![t].event = Resolved(source, e.tenant, e.at, e.outcome)]
             /\ Goto(t, "append")
  <2>1. PICK source \in Sources(View(h), e) :
             /\ call' = [call EXCEPT ![t].event = Resolved(source, e.tenant, e.at, e.outcome)]
             /\ Goto(t, "append")
    BY <1>4
  <2> DEFINE marker == Resolved(source, e.tenant, e.at, e.outcome)
             c == [handle |-> h, event |-> marker]
  <2>2. marker \in Events
    BY <1>2, <2>1, SourcesAreEvents DEF IInv
  <2> HIDE DEF marker
  <2>3. c \in Calls /\ call' = [call EXCEPT ![t] = c]
    <3>1. call[t] \in Calls /\ DOMAIN call = Threads
      BY <1>1 DEF IInv, ThreadInv, Shapes
    <3>2. call' = [call EXCEPT ![t] = [call[t] EXCEPT !.event = marker]]
      BY <2>1 DEF marker
    <3>3. [call[t] EXCEPT !.event = marker] = c
      BY <3>1 DEF Calls
    <3> QED
      BY <1>2, <2>2, <3>2, <3>3 DEF Calls
  <2> HIDE DEF c
  <2>4. ThreadInv(t)'
    BY <2>1, <2>3 DEF ThreadInv, Goto, IInv, Shapes
  <2> QED
    BY <1>1, <2>1, <2>3, <2>4, ThreadStep DEF Goto
<1> QED
  BY <1>3, <1>4 DEF GetSource

LEMMA InsertKeeps ==
  ASSUME IInv, NEW t \in Threads, Insert(t)
  PROVE  IInv'
<1> DEFINE e == call[t].event
           h == call[t].handle
<1>1. pc[t] = "append" /\ open[h] = Closed /\ UNCHANGED <<log, returned, now>>
  BY DEF Insert
<1>2. h \in Handles /\ e \in Events
  BY <1>1 DEF IInv, ThreadInv, Calls
<1>3. CASE Finish(t) /\ UNCHANGED open
  BY <1>1, <1>3, FinishKeeps
<1>4. CASE /\ ~ HasId(log, e)
           /\ open' = [open EXCEPT ![h] = [event |-> e, base |-> Len(log)]]
           /\ Goto(t, "commit") /\ UNCHANGED call
  <2>1. /\ open'[h] = [event |-> e, base |-> Len(log)] /\ DOMAIN open' = Handles
        /\ \A k \in Handles : k # h => open'[k] = open[k]
        /\ pc' = [pc EXCEPT ![t] = "commit"]
    BY <1>2, <1>4 DEF IInv, Shapes, Goto
  <2>2. Shapes'
    BY <1>1, <1>2, <1>4, <2>1, LogShape DEF IInv, Shapes, Appends
  <2>3. ASSUME NEW u \in Threads, pc[u] = "commit"
        PROVE  call[u].handle # h
    <3>1. open[call[u].handle].event = call[u].event /\ call[u].event \in Events
      BY <2>3 DEF IInv, ThreadInv, Calls
    <3> QED
      BY <1>1, <3>1, NoneAssumption DEF Closed
  <2>4. ThreadInv(t)'
    <3>1. \A i \in 1 .. Len(log) : ~ SameId(log[i], e)
      BY <1>4, LogShape DEF IInv, HasId
    <3> QED
      BY <1>1, <1>2, <1>4, <2>1, <3>1 DEF IInv, ThreadInv, Shapes
  <2>5. ASSUME NEW u \in Threads, u # t
        PROVE  ThreadInv(u)'
    <3>1. pc[u] = "commit" => open'[call[u].handle] = open[call[u].handle]
      BY <2>1, <2>3 DEF IInv, ThreadInv, Calls
    <3> QED
      BY <1>1, <1>4, <2>1, <2>5, <3>1, SameLogGrows, OthersKeep DEF IInv, Shapes
  <2>6. OneAppendPerHandle'
    BY <1>4, <2>1, <2>3 DEF IInv, Shapes, OneAppendPerHandle
  <2>7. OneAnswerStands'
    BY <1>1 DEF IInv, OneAnswerStands
  <2> QED
    BY <2>2, <2>4, <2>5, <2>6, <2>7 DEF IInv
<1> QED
  BY <1>3, <1>4 DEF Insert

LEMMA CommitKeeps ==
  ASSUME IInv, NEW t \in Threads, Commit(t)
  PROVE  IInv'
<1> DEFINE e == call[t].event
           h == call[t].handle
<1>1. /\ pc[t] = "commit" /\ UNCHANGED <<returned, now>>
      /\ open' = [open EXCEPT ![h] = Closed]
  BY DEF Commit
<1>2. h \in Handles /\ e \in Events /\ open[h].event = e /\ open[h].base <= Len(log)
      /\ \A i \in 1 .. open[h].base : ~ SameId(log[i], e)
  BY <1>1 DEF IInv, ThreadInv, Calls, Shapes
<1>3. /\ DOMAIN open' = Handles
      /\ \A k \in Handles : open'[k] = Closed \/ open'[k] = open[k]
      /\ \A k \in Handles : k # h => open'[k] = open[k]
  BY <1>1 DEF IInv, Shapes
<1>4. Closed \in Appends /\ Closed.base = 0
  BY DEF Closed, Appends
<1>5. ASSUME NEW u \in Threads, u # t, pc[u] = "commit"
      PROVE  open'[call[u].handle] = open[call[u].handle]
  BY <1>1, <1>3, <1>5 DEF IInv, OneAppendPerHandle, ThreadInv, Calls
<1>6. CASE Collides(h)
  <2>1. log' = log /\ pc' = [pc EXCEPT ![t] = "idle"] /\ call' = [call EXCEPT ![t] = Idle]
    BY <1>6 DEF Commit, Finish, Goto
  <2>2. Shapes'
    BY <1>1, <1>3, <1>4, <2>1, LogShape DEF IInv, Shapes
  <2>3. ThreadInv(t)'
    BY <2>1 DEF ThreadInv, IInv, Shapes
  <2>4. ASSUME NEW u \in Threads, u # t
        PROVE  ThreadInv(u)'
    BY <1>5, <2>1, <2>4, SameLogGrows, OthersKeep DEF IInv, Shapes
  <2>5. OneAppendPerHandle'
    BY <2>1 DEF IInv, Shapes, OneAppendPerHandle
  <2>6. OneAnswerStands'
    BY <1>1, <2>1 DEF IInv, OneAnswerStands
  <2> QED
    BY <2>2, <2>3, <2>4, <2>5, <2>6 DEF IInv
<1>7. CASE ~ Collides(h)
  <2>1. /\ log' = Append(log, e) /\ pc' = [pc EXCEPT ![t] = "return"] /\ call' = call
        /\ open[h].base = Len(log)
    BY <1>2, <1>7 DEF Commit, Goto, Collides
  <2>2. /\ LogGrows /\ log' \in Seq(Events)
        /\ Len(log) + 1 \in DOMAIN log' /\ log'[Len(log) + 1] = e
        /\ \A i \in DOMAIN log' : i \in DOMAIN log \/ i = Len(log) + 1
    BY <1>2, <2>1, AppendGrows DEF IInv
  <2>3. Shapes'
    <3>1. \A k \in Handles : open'[k] \in Appends /\ open'[k].base <= Len(log')
      BY <1>3, <1>4, <2>2, LogShape DEF IInv, Shapes, LogGrows, Appends
    <3> QED
      BY <1>1, <1>3, <2>1, <2>2, <3>1 DEF IInv, Shapes
  <2>4. ThreadInv(t)'
    BY <1>1, <2>1, <2>2 DEF ThreadInv, IInv, Shapes, InLog
  <2>5. ASSUME NEW u \in Threads, u # t
        PROVE  ThreadInv(u)'
    BY <1>5, <2>1, <2>2, <2>5, OthersKeep DEF IInv, Shapes
  <2>6. OneAppendPerHandle'
    BY <2>1 DEF IInv, Shapes, OneAppendPerHandle
  <2>7. OneAnswerStands'
    <3>1. \A x \in returned' : InLog(x)'
      BY <1>1, <2>2, GrowingKeepsEvents DEF IInv, OneAnswerStands, InLog
    <3>2. \A i \in DOMAIN log : ~ SameId(log[i], e) /\ ~ SameId(e, log[i])
      BY <1>2, <2>1, LogShape DEF IInv, SameId
    <3>3. ASSUME NEW i \in DOMAIN log', NEW j \in DOMAIN log', SameId(log'[i], log'[j])
          PROVE  i = j
      BY <2>2, <3>2, <3>3 DEF IInv, OneAnswerStands, LogGrows
    <3> QED
      BY <3>1, <3>3 DEF OneAnswerStands, InLog
  <2> QED
    BY <2>3, <2>4, <2>5, <2>6, <2>7 DEF IInv
<1> QED
  BY <1>6, <1>7

LEMMA ReturnKeeps ==
  ASSUME IInv, NEW t \in Threads, Return(t)
  PROVE  IInv'
<1>1. InLog(call[t].event)
  BY DEF Return, IInv, ThreadInv
<1> QED
  BY <1>1, FinishKeeps DEF Return

LEMMA CrashKeeps ==
  ASSUME IInv, Crash
  PROVE  IInv'
<1>1. Shapes'
  <2>1. Closed \in Appends /\ Closed.base = 0
    BY DEF Closed, Appends
  <2> QED
    BY <2>1, LogShape DEF IInv, Shapes, Crash
<1>2. \A t \in Threads : ThreadInv(t)'
  BY DEF Crash, ThreadInv
<1> QED
  BY <1>1, <1>2 DEF Crash, IInv, OneAppendPerHandle, OneAnswerStands

LEMMA ReviewNext ==
  ASSUME IInv, [Next]_vars
  PROVE  IInv'
<1>1. ASSUME NEW t \in Threads, CallOpen(t) \/ CallResolve(t) \/ CallOther(t) \/ Step(t)
      PROVE  IInv'
  BY <1>1, StartKeeps, GetSourceKeeps, InsertKeeps, CommitKeeps, ReturnKeeps DEF Step
<1>2. ASSUME UNCHANGED <<log, open, pc, call, returned>>, now' \in 0 .. MaxTime
      PROVE  IInv'
  <2>1. Shapes'
    BY <1>2 DEF IInv, Shapes
  <2>2. \A t \in Threads : ThreadInv(t)'
    BY <1>2 DEF IInv, ThreadInv, InLog
  <2> QED
    BY <1>2, <2>1, <2>2 DEF IInv, OneAppendPerHandle, OneAnswerStands
<1>3. CASE Tick
  BY <1>2, <1>3, LimitAssumption DEF Tick, IInv, Shapes
<1>4. CASE UNCHANGED vars
  BY <1>2, <1>4 DEF vars, IInv, Shapes
<1> QED
  BY <1>1, <1>3, <1>4, CrashKeeps DEF Next

\* Of several reviewers who answer one review, in any order, through any
\* handles and after a crash, at most one is told that the answer stands, and
\* the answer in the ledger is that one: the existence check in append() and
\* UNIQUE(seq) at its COMMIT.
THEOREM AtMostOneAnswerStands == Spec => []OneAnswerStands
<1>1. IInv => OneAnswerStands
  BY DEF IInv
<1> QED
  BY <1>1, ReviewInit, ReviewNext, PTL DEF Spec

------------------------------------------------------------------------------
(***************************************************************************)
(* One handle: its connection reads the marker that an append of the same  *)
(* handle has not committed yet, and no other handle can make that COMMIT  *)
(* fail, so that only a crash, which ends the reader too, undoes it.       *)
(***************************************************************************)
OneHandle == \A h, k \in Handles : h = k

\* The marker `opened` is of the review that e answers, and of its tenant.
Opens(opened, e) == opened.kind = "opened" /\ opened.of = e.of /\ opened.tenant = e.tenant

HasReview(e) == \E i \in DOMAIN log : Opens(log[i], e)

\* The review is in the row that the handle has still to commit.
ReviewIsDue(h, e) == open[h] # Closed /\ Opens(open[h].event, e)

\* The resolved marker of a thread has a review, and a transaction is on top of
\* the whole ledger.
SourceInv(t) ==
    /\ pc[t] = "append" /\ call[t].event.kind = "resolved" =>
         HasReview(call[t].event) \/ ReviewIsDue(call[t].handle, call[t].event)
    /\ pc[t] = "commit" /\ call[t].event.kind = "resolved" => HasReview(call[t].event)

TopInv == \A h \in Handles : open[h] # Closed => open[h].base = Len(log)

\* Every answer in the ledger comes after the marker of its review.
AnswersFollow ==
    \A i \in DOMAIN log : log[i].kind = "resolved" =>
        \E j \in 1 .. i - 1 : Opens(log[j], log[i])

HandleInv == IInv /\ TopInv /\ (\A t \in Threads : SourceInv(t)) /\ AnswersFollow

LEMMA HandleInit == Init => HandleInv
  BY ReviewInit DEF Init, HandleInv, TopInv, SourceInv, AnswersFollow

LEMMA ReviewsStay ==
  ASSUME LogGrows
  PROVE  \A d : HasReview(d) => HasReview(d)'
  BY DEF LogGrows, HasReview

\* A step that leaves ledger and transactions alone.
LEMMA QuietStep ==
  ASSUME HandleInv, IInv', UNCHANGED <<log, open>>, NEW t \in Threads, SourceInv(t)',
         \A u \in Threads : u # t => pc'[u] = pc[u] /\ call'[u] = call[u]
  PROVE  HandleInv'
<1>1. ASSUME NEW u \in Threads, u # t
      PROVE  SourceInv(u)'
  BY <1>1 DEF HandleInv, SourceInv, HasReview, ReviewIsDue
<1>2. TopInv' /\ AnswersFollow'
  BY DEF HandleInv, TopInv, AnswersFollow
<1> QED
  BY <1>1, <1>2 DEF HandleInv

LEMMA HandleNext ==
  ASSUME OneHandle, HandleInv, [Next]_vars
  PROVE  HandleInv'
<1>0. IInv /\ IInv'
  BY ReviewNext DEF HandleInv
<1>1. ASSUME NEW t \in Threads, CallOpen(t) \/ CallResolve(t) \/ CallOther(t)
      PROVE  HandleInv'
  <2>1. /\ UNCHANGED <<log, open>> /\ pc'[t] \in {"append", "get"}
        /\ pc'[t] = "append" => call'[t].event.kind # "resolved"
        /\ \A u \in Threads : u # t => pc'[u] = pc[u] /\ call'[u] = call[u]
    BY <1>0, <1>1 DEF IInv, Shapes, CallOpen, CallResolve, CallOther, Start, Goto, Opened, Event
  <2>2. SourceInv(t)'
    BY <2>1 DEF SourceInv
  <2> QED
    BY <1>0, <2>1, <2>2, QuietStep
<1>2. ASSUME NEW t \in Threads, Finish(t), UNCHANGED <<log, open>>
      PROVE  HandleInv'
  <2>1. /\ pc'[t] = "idle"
        /\ \A u \in Threads : u # t => pc'[u] = pc[u] /\ call'[u] = call[u]
    BY <1>0, <1>2 DEF IInv, Shapes, Finish, Goto
  <2>2. SourceInv(t)'
    BY <2>1 DEF SourceInv
  <2> QED
    BY <1>0, <1>2, <2>1, <2>2, QuietStep
<1>3. ASSUME NEW t \in Threads, GetSource(t)
      PROVE  HandleInv'
  <2> DEFINE e == call[t].event
             h == call[t].handle
  <2>1. pc[t] = "get" /\ UNCHANGED <<log, open>>
    BY <1>3 DEF GetSource
  <2>2. CASE Finish(t)
    BY <1>2, <2>1, <2>2
  <2>3. CASE \E source \in Sources(View(h), e) :
               /\ call' = [call EXCEPT ![t].event = Resolved(source, e.tenant, e.at, e.outcome)]
               /\ Goto(t, "append")
    <3>1. PICK source \in Sources(View(h), e) :
               /\ call' = [call EXCEPT ![t].event = Resolved(source, e.tenant, e.at, e.outcome)]
               /\ Goto(t, "append")
      BY <2>3
    <3>2. h \in Handles /\ e \in Events /\ Shapes
      BY <1>0, <2>1 DEF IInv, ThreadInv, Calls
    <3>3. /\ source \in Events /\ source.of = e.of /\ source.kind = "opened"
          /\ InLog(source) \/ source = open[h].event
          /\ Resolved(source, e.tenant, e.at, e.outcome).of = e.of
          /\ Resolved(source, e.tenant, e.at, e.outcome).tenant = source.tenant
      BY <3>1, <3>2, SourcesAreEvents
    <3>4. open[h].event \in Events => open[h] # Closed
      BY NoneAssumption DEF Closed
    <3> DEFINE r == Resolved(source, e.tenant, e.at, e.outcome)
    <3>5. HasReview(r) \/ ReviewIsDue(h, r)
      BY <3>3, <3>4 DEF InLog, HasReview, ReviewIsDue, Opens
    <3>6. call[t] \in Calls /\ DOMAIN call = Threads /\ DOMAIN pc = Threads
      BY <1>0, <2>1 DEF IInv, ThreadInv, Shapes
    <3>7. /\ pc'[t] = "append" /\ call'[t].event = r /\ call'[t].handle = h
          /\ \A u \in Threads : u # t => pc'[u] = pc[u] /\ call'[u] = call[u]
      BY <3>1, <3>3, <3>6 DEF Goto, Calls
    <3>8. SourceInv(t)'
      <4> HIDE DEF r
      <4> QED
        BY <2>1, <3>5, <3>7 DEF SourceInv, HasReview, ReviewIsDue
    <3> QED
      BY <1>0, <2>1, <3>7, <3>8, QuietStep
  <2> QED
    BY <1>3, <2>2, <2>3 DEF GetSource
<1>4. ASSUME NEW t \in Threads, Insert(t)
      PROVE  HandleInv'
  <2> DEFINE e == call[t].event
             h == call[t].handle
  <2>1. pc[t] = "append" /\ open[h] = Closed /\ log' = log
    BY <1>4 DEF Insert
  <2>2. CASE Finish(t) /\ UNCHANGED open
    BY <1>2, <2>1, <2>2
  <2>3. CASE /\ open' = [open EXCEPT ![h] = [event |-> e, base |-> Len(log)]]
             /\ Goto(t, "commit") /\ UNCHANGED call
    <3>1. h \in Handles /\ DOMAIN open = Handles /\ DOMAIN pc = Threads
      BY <1>0, <2>1 DEF IInv, ThreadInv, Calls, Shapes
    <3>2. \A k \in Handles : k = h
      BY <3>1 DEF OneHandle
    <3>3. TopInv' /\ AnswersFollow'
      BY <2>1, <2>3, <3>1, <3>2 DEF TopInv, HandleInv, AnswersFollow
    <3>4. ASSUME NEW u \in Threads
          PROVE  SourceInv(u)'
      <4>1. pc[u] \in {"append", "commit"} => call[u].handle = h
        BY <1>0, <3>2 DEF IInv, ThreadInv, Calls
      <4>2. pc[u] \in {"append", "commit"} /\ call[u].event.kind = "resolved" =>
              HasReview(call[u].event)
        BY <2>1, <4>1 DEF HandleInv, SourceInv, ReviewIsDue
      <4>3. pc'[u] \in {"append", "commit"} => pc[u] \in {"append", "commit"}
        BY <2>1, <2>3, <3>1 DEF Goto
      <4> QED
        BY <2>1, <2>3, <4>2, <4>3 DEF SourceInv, HasReview
    <3> QED
      BY <1>0, <3>3, <3>4 DEF HandleInv
  <2> QED
    BY <1>4, <2>2, <2>3 DEF Insert
<1>5. ASSUME NEW t \in Threads, Commit(t)
      PROVE  HandleInv'
  <2> DEFINE e == call[t].event
             h == call[t].handle
  <2>1. pc[t] = "commit" /\ open' = [open EXCEPT ![h] = Closed]
    BY <1>5 DEF Commit
  <2>2. h \in Handles /\ e \in Events /\ open[h].event = e /\ DOMAIN open = Handles
        /\ DOMAIN pc = Threads
    BY <1>0, <2>1 DEF IInv, ThreadInv, Calls, Shapes
  <2>3. \A k \in Handles : k = h
    BY <2>2 DEF OneHandle
  <2>4. open[h] # Closed
    BY <2>2, NoneAssumption DEF Closed
  <2>5. ~ Collides(h)
    BY <2>2, <2>4 DEF HandleInv, TopInv, Collides
  <2>6. log' = Append(log, e) /\ Goto(t, "return") /\ call' = call
    BY <1>5, <2>2, <2>5 DEF Commit
  <2>7. /\ LogGrows
        /\ Len(log) + 1 \in DOMAIN log' /\ log'[Len(log) + 1] = e
        /\ \A i \in DOMAIN log' : i \in DOMAIN log \/ i = Len(log) + 1
    BY <1>0, <2>2, <2>6, AppendGrows DEF IInv
  <2>8. TopInv'
    BY <2>1, <2>2, <2>3 DEF TopInv
  <2>9. ASSUME NEW u \in Threads
        PROVE  SourceInv(u)'
    <3>1. pc'[u] \in {"append", "commit"} => pc'[u] = pc[u] /\ call[u].handle = h
      BY <1>0, <2>2, <2>3, <2>6 DEF Goto, IInv, ThreadInv, Calls
    <3>2. \A d : ReviewIsDue(h, d) => HasReview(d)'
      BY <2>2, <2>7 DEF ReviewIsDue, HasReview
    <3>3. pc[u] \in {"append", "commit"} /\ call[u].event.kind = "resolved" =>
            HasReview(call[u].event) \/ ReviewIsDue(call[u].handle, call[u].event)
      BY DEF HandleInv, SourceInv
    <3>4. pc'[u] \in {"append", "commit"} /\ call[u].event.kind = "resolved" =>
            \E i \in DOMAIN log' : Opens(log'[i], call[u].event)
      BY <2>7, <3>1, <3>2, <3>3, ReviewsStay DEF HasReview
    <3> QED
      BY <2>6, <3>4 DEF SourceInv, HasReview
  <2>10. AnswersFollow'
    <3>1. ASSUME NEW i \in DOMAIN log', log'[i].kind = "resolved"
          PROVE  \E j \in 1 .. i - 1 : Opens(log'[j], log'[i])
      <4>1. CASE i \in DOMAIN log
        <5>1. PICK j \in 1 .. i - 1 : Opens(log[j], log[i])
          BY <2>7, <3>1, <4>1 DEF HandleInv, AnswersFollow, LogGrows
        <5> QED
          BY <1>0, <2>7, <4>1, <5>1, LogShape DEF LogGrows, IInv
      <4>2. CASE i = Len(log) + 1
        <5>1. HasReview(e)
          BY <2>1, <2>7, <3>1, <4>2 DEF HandleInv, SourceInv
        <5>2. PICK j \in DOMAIN log : Opens(log[j], e)
          BY <5>1 DEF HasReview
        <5> QED
          BY <1>0, <2>7, <4>2, <5>2, LogShape DEF LogGrows, IInv
      <4> QED
        BY <2>7, <4>1, <4>2
    <3> QED
      BY <3>1 DEF AnswersFollow
  <2> QED
    BY <1>0, <2>8, <2>9, <2>10 DEF HandleInv
<1>6. ASSUME NEW t \in Threads, Return(t)
      PROVE  HandleInv'
  BY <1>2, <1>6 DEF Return
<1>7. CASE Crash
  BY <1>0, <1>7 DEF Crash, HandleInv, TopInv, SourceInv, AnswersFollow
<1>8. CASE Tick \/ UNCHANGED vars
  BY <1>0, <1>8 DEF Tick, vars, HandleInv, TopInv, SourceInv, AnswersFollow, HasReview,
                    ReviewIsDue
<1> QED
  BY <1>1, <1>3, <1>4, <1>5, <1>6, <1>7, <1>8 DEF Next, Step

\* Through one handle, a resolution is recorded only of a review that was
\* opened before it, although resolve() looks without the lock and may have
\* seen the row of an append that is not committed.
THEOREM ResolutionsHaveReviews ==
  ASSUME OneHandle
  PROVE  Spec => []ResolvedHasReview
<1>1. HandleInv => ResolvedHasReview
  BY DEF HandleInv, AnswersFollow, Opens, ResolvedHasReview
<1>2. HandleInv /\ [Next]_vars => HandleInv'
  BY HandleNext
<1> QED
  BY <1>1, <1>2, HandleInit, PTL DEF Spec

------------------------------------------------------------------------------
(***************************************************************************)
(* What pending() and sla_overdue() tell of a ledger in which every answer *)
(* follows the marker of its review.                                       *)
(***************************************************************************)
Sound(s) ==
    /\ s \in Seq(Events)
    /\ \A i, j \in DOMAIN s : SameId(s[i], s[j]) => i = j
    /\ \A i \in DOMAIN s : s[i].kind = "resolved" => \E j \in 1 .. i - 1 : Opens(s[j], s[i])

LEMMA SoundShape ==
  ASSUME NEW s, Sound(s)
  PROVE  /\ Len(s) \in Nat /\ DOMAIN s = 1 .. Len(s)
         /\ \A i \in DOMAIN s : s[i] \in Events
<1>1. s \in Seq(Events)
  BY DEF Sound
<1> HIDE DEF Events
<1> QED
  BY <1>1

LEMMA NewerIsFinite ==
  ASSUME NEW s, Sound(s), NEW tenant, NEW i
  PROVE  IsFiniteSet(Newer(s, tenant, i)) /\ Cardinality(Newer(s, tenant, i)) \in Nat
<1>1. Len(s) \in Nat /\ DOMAIN s = 1 .. Len(s)
  BY SoundShape
<1>2. IsFiniteSet(1 .. Len(s))
  BY <1>1, FS_Interval
<1>3. Newer(s, tenant, i) \in SUBSET (1 .. Len(s))
  BY <1>1 DEF Newer
<1> QED
  BY <1>2, <1>3, FS_Subset, FS_CardinalityType

\* What is newer than a scanned row, of its tenant, is scanned too.
LEMMA ScanIsUpwardClosed ==
  ASSUME NEW s, Sound(s), NEW tenant, NEW i \in DOMAIN s, NEW k \in DOMAIN s, i < k,
         s[k].tenant = tenant, Cardinality(Newer(s, tenant, i)) < ScanLimit
  PROVE  s[k] \in Scan(s, tenant)
<1>1. Newer(s, tenant, k) \in SUBSET Newer(s, tenant, i)
  BY SoundShape DEF Newer
<1>2. Cardinality(Newer(s, tenant, k)) <= Cardinality(Newer(s, tenant, i))
  BY <1>1, NewerIsFinite, FS_Subset
<1>3. ScanLimit \in Nat
  BY LimitAssumption
<1>4. Cardinality(Newer(s, tenant, k)) < ScanLimit
  BY <1>2, <1>3, NewerIsFinite
<1> QED
  BY <1>4 DEF Scan

\* An answered review is pending for no tenant.
LEMMA AnsweredIsNotListed ==
  ASSUME NEW s, Sound(s), NEW tenant, NEW p \in Pending(s, tenant),
         NEW r \in ToSet(s), r.kind = "resolved"
  PROVE  r.of # p.of
<1> SUFFICES ASSUME r.of = p.of PROVE FALSE
  OBVIOUS
<1>1. /\ p \in Scan(s, tenant) /\ p.kind = "opened"
      /\ \A f \in Scan(s, tenant) : f.kind = "resolved" => f.of # p.of
  BY DEF Pending
<1>2. PICK i \in DOMAIN s : /\ p = s[i] /\ s[i].tenant = tenant
                            /\ Cardinality(Newer(s, tenant, i)) < ScanLimit
  BY <1>1 DEF Scan
<1>3. PICK k \in DOMAIN s : r = s[k]
  BY DEF ToSet
<1>4. PICK j \in 1 .. k - 1 : Opens(s[j], s[k])
  BY <1>3 DEF Sound
<1>5. j \in DOMAIN s /\ j < k
  BY <1>3, <1>4, SoundShape
<1>6. i = j
  BY <1>1, <1>2, <1>3, <1>4, <1>5 DEF Sound, SameId, Opens
<1>7. s[k] \in Scan(s, tenant)
  BY <1>2, <1>4, <1>5, <1>6, ScanIsUpwardClosed DEF Opens
<1> QED
  BY <1>1, <1>3, <1>7

EventIds == (Decisions \X {"opened", "resolved"}) \union (Others \X {"other"})

\* The scan holds every event there can be but the answer of a review in it.
FitsTheScan == IsFiniteSet(EventIds) /\ Cardinality(EventIds) <= ScanLimit + 1

\* An opened review is pending until it is answered.
LEMMA UnansweredIsListed ==
  ASSUME FitsTheScan, NEW s, Sound(s), NEW e \in ToSet(s), e.kind = "opened",
         \A f \in ToSet(s) : f.kind = "resolved" => f.of # e.of
  PROVE  e \in Pending(s, e.tenant)
<1> DEFINE newer == Newer(s, e.tenant, CHOOSE i \in DOMAIN s : s[i] = e)
           id == [j \in newer |-> <<s[j].of, s[j].kind>>]
           others == EventIds \ {<<e.of, "opened">>}
           rest == others \ {<<e.of, "resolved">>}
<1>1. PICK i \in DOMAIN s : s[i] = e /\ newer = Newer(s, e.tenant, i)
  BY DEF ToSet
<1>2. \A j \in newer : j \in DOMAIN s /\ i < j
  BY <1>1 DEF Newer
<1>3. \A j \in DOMAIN s : <<s[j].of, s[j].kind>> \in EventIds
  BY SoundShape DEF Events, EventIds
<1>4. \A j \in newer : <<s[j].of, s[j].kind>> \in rest
  <2> SUFFICES ASSUME NEW j \in newer PROVE <<s[j].of, s[j].kind>> \in rest
    OBVIOUS
  <2>1. <<s[j].of, s[j].kind>> # <<e.of, "opened">>
    <3>1. i # j
      BY <1>1, <1>2, SoundShape
    <3> QED
      BY <1>1, <1>2, <3>1 DEF Sound, SameId
  <2>2. <<s[j].of, s[j].kind>> # <<e.of, "resolved">>
    <3>1. s[j] \in ToSet(s)
      BY <1>2 DEF ToSet
    <3> QED
      BY <3>1
  <2> QED
    BY <1>2, <1>3, <2>1, <2>2
<1>5. id \in Injection(newer, rest)
  <2>1. id \in [newer -> rest]
    BY <1>4
  <2>2. \A j, k \in newer : id[j] = id[k] => j = k
    BY <1>2 DEF Sound, SameId
  <2> HIDE DEF newer, rest
  <2> QED
    BY <2>1, <2>2 DEF Injection, IsInjective
<1>6. IsFiniteSet(rest) /\ Cardinality(rest) = Cardinality(EventIds) - 2
  <2>1. e \in Events
    BY <1>1, SoundShape
  <2>2. e.of \in Decisions
    BY <2>1 DEF Events
  <2>3. <<e.of, "opened">> \in EventIds /\ <<e.of, "resolved">> \in EventIds
    BY <2>2 DEF EventIds
  <2>4. <<e.of, "resolved">> \in others
    BY <2>3
  <2>5. IsFiniteSet(others) /\ Cardinality(others) = Cardinality(EventIds) - 1
    BY <2>3, FS_RemoveElement DEF FitsTheScan
  <2>6. IsFiniteSet(rest) /\ Cardinality(rest) = Cardinality(others) - 1
    <3> HIDE DEF others
    <3> QED
      BY <2>4, <2>5, FS_RemoveElement
  <2>7. Cardinality(EventIds) \in Nat
    BY FS_CardinalityType DEF FitsTheScan
  <2> HIDE DEF rest
  <2> QED
    BY <2>5, <2>6, <2>7
<1>7. Cardinality(newer) <= Cardinality(rest)
  <2> HIDE DEF newer, rest, id
  <2> QED
    BY <1>5, <1>6, FS_Injection
<1>8. Cardinality(newer) < ScanLimit
  <2>1. Cardinality(newer) \in Nat
    BY <1>1, NewerIsFinite
  <2>2. Cardinality(EventIds) \in Nat /\ Cardinality(EventIds) <= ScanLimit + 1 /\ ScanLimit \in Nat
    BY FS_CardinalityType, LimitAssumption DEF FitsTheScan
  <2> HIDE DEF newer, rest
  <2> QED
    BY <1>6, <1>7, <2>1, <2>2
<1>9. e \in Scan(s, e.tenant)
  BY <1>1, <1>8 DEF Scan
<1>10. Scan(s, e.tenant) \subseteq ToSet(s)
  BY DEF Scan, ToSet
<1> QED
  BY <1>9, <1>10 DEF Pending

ViewInv == \A h \in Handles : Sound(View(h))

ReviewInv == HandleInv /\ ViewInv

Continues(s, w) == \A i \in DOMAIN s : i \in DOMAIN w /\ w[i] = s[i]

LEMMA SoundAppend ==
  ASSUME NEW s, Sound(s), NEW e \in Events, ~ HasId(s, e),
         e.kind = "resolved" => \E i \in DOMAIN s : Opens(s[i], e)
  PROVE  Sound(Append(s, e)) /\ Continues(s, Append(s, e))
<1> DEFINE w == Append(s, e)
<1>1. /\ w \in Seq(Events) /\ DOMAIN w = 1 .. Len(s) + 1 /\ w[Len(s) + 1] = e
      /\ \A i \in DOMAIN s : w[i] = s[i]
  <2>1. s \in Seq(Events)
    BY DEF Sound
  <2> HIDE DEF Events
  <2> QED
    BY <2>1
<1>2. Len(s) \in Nat /\ DOMAIN s = 1 .. Len(s)
  BY SoundShape
<1> HIDE DEF w
<1>3. \A i \in DOMAIN w : i \in DOMAIN s \/ i = Len(s) + 1
  BY <1>1, <1>2
<1>4. \A i, j \in DOMAIN w : SameId(w[i], w[j]) => i = j
  BY <1>1, <1>2, <1>3 DEF Sound, HasId, SameId
<1>5. ASSUME NEW i \in DOMAIN w, w[i].kind = "resolved"
      PROVE  \E j \in 1 .. i - 1 : Opens(w[j], w[i])
  <2>1. CASE i \in DOMAIN s
    <3>1. PICK j \in 1 .. i - 1 : Opens(s[j], s[i])
      BY <1>1, <1>5, <2>1 DEF Sound
    <3>2. j \in DOMAIN s
      BY <1>2, <2>1
    <3> QED
      BY <1>1, <2>1, <3>1, <3>2
  <2>2. CASE i = Len(s) + 1
    <3>1. PICK j \in DOMAIN s : Opens(s[j], e)
      BY <1>1, <1>5, <2>2
    <3>2. j \in 1 .. i - 1
      BY <1>2, <2>2
    <3> QED
      BY <1>1, <2>2, <3>1, <3>2
  <2> QED
    BY <1>3, <2>1, <2>2
<1>6. Continues(s, w)
  BY <1>1, <1>2 DEF Continues
<1> QED
  BY <1>1, <1>4, <1>5, <1>6 DEF Sound, w

LEMMA LogIsSound == HandleInv => Sound(log)
  BY DEF HandleInv, IInv, Shapes, OneAnswerStands, AnswersFollow, Sound

\* A handle shows the ledger, and its own row on top.
LEMMA ViewOnTop ==
  ASSUME Shapes, TopInv, NEW h \in Handles
  PROVE  View(h) = IF open[h].event = None THEN log ELSE Append(log, open[h].event)
<1>1. log \in Seq(Events)
  BY DEF Shapes
<1>2. SubSeq(log, 1, Len(log)) = log
  <2> HIDE DEF Events
  <2> QED
    BY <1>1
<1>3. open[h].event # None => open[h].base = Len(log)
  BY DEF TopInv, Closed
<1> QED
  BY <1>2, <1>3 DEF View

LEMMA ViewStep ==
  ASSUME OneHandle, ReviewInv, HandleInv', [Next]_vars
  PROVE  ViewInv' /\ (Crash \/ \A h \in Handles : Continues(View(h), View(h)'))
<1>0. HandleInv /\ Shapes /\ Shapes' /\ TopInv /\ TopInv'
  BY DEF ReviewInv, HandleInv, IInv
<1>1. CASE UNCHANGED <<log, open>>
  <2>1. \A h \in Handles : View(h)' = View(h)
    BY <1>1 DEF View
  <2> QED
    BY <2>1 DEF ReviewInv, ViewInv, Continues
<1>2. CASE Crash
  <2>1. \A h \in Handles : View(h)' = log
    BY <1>2 DEF Crash, View, Closed
  <2> QED
    BY <1>0, <1>2, <2>1, LogIsSound DEF ViewInv
<1>3. ASSUME NEW t \in Threads, Insert(t), ~ UNCHANGED <<log, open>>
      PROVE  ViewInv' /\ \A h \in Handles : Continues(View(h), View(h)')
  <2>1. pc[t] = "append" /\ call[t] \in Calls
    BY <1>0, <1>3 DEF Insert, HandleInv, IInv, ThreadInv
  <2>2. PICK h \in Handles, e \in Events : h = call[t].handle /\ e = call[t].event
    BY <2>1 DEF Calls
  <2>3. /\ open[h] = Closed /\ log' = log /\ ~ HasId(log, e)
        /\ open' = [open EXCEPT ![h] = [event |-> e, base |-> Len(log)]]
    BY <1>3, <2>2 DEF Insert
  <2>4. \A k \in Handles : k = h
    BY DEF OneHandle
  <2>5. e.kind = "resolved" => \E i \in DOMAIN log : Opens(log[i], e)
    BY <1>0, <2>1, <2>2, <2>3 DEF HandleInv, SourceInv, HasReview, ReviewIsDue
  <2>6. open[h].event = None /\ open'[h].event = e /\ e # None
    BY <1>0, <2>3, NoneAssumption DEF Closed, Shapes
  <2>7. View(h) = log /\ View(h)' = Append(log, e)
    <3>1. SubSeq(log, 1, Len(log)) = log
      <4>1. log \in Seq(Events)
        BY <1>0 DEF Shapes
      <4> HIDE DEF Events
      <4> QED
        BY <4>1
    <3>2. open'[h].base = Len(log)
      BY <1>0, <2>3 DEF Shapes
    <3> QED
      BY <2>3, <2>6, <3>1, <3>2 DEF View
  <2> QED
    BY <1>0, <2>4, <2>5, <2>7, <2>3, LogIsSound, SoundAppend DEF ViewInv
<1>4. ASSUME NEW t \in Threads, Commit(t)
      PROVE  ViewInv' /\ \A h \in Handles : Continues(View(h), View(h)')
  <2>1. pc[t] = "commit" /\ call[t] \in Calls /\ open[call[t].handle].event = call[t].event
    BY <1>0, <1>4 DEF Commit, HandleInv, IInv, ThreadInv
  <2>2. PICK h \in Handles, e \in Events : h = call[t].handle /\ e = call[t].event
    BY <2>1 DEF Calls
  <2>3. open[h].event = e /\ e # None /\ open' = [open EXCEPT ![h] = Closed]
    BY <1>4, <2>1, <2>2, NoneAssumption DEF Commit
  <2>4. \A k \in Handles : k = h
    BY DEF OneHandle
  <2>5. ~ Collides(h)
    BY <1>0, <2>3 DEF TopInv, Collides, Closed
  <2>6. log' = Append(log, e)
    BY <1>4, <2>2, <2>3, <2>5 DEF Commit
  <2>7. open'[h].event = None
    BY <1>0, <2>3 DEF Closed, Shapes
  <2>8. View(h) = Append(log, e)
    BY <1>0, <2>3, ViewOnTop
  <2>10. View(h)' = log'
    BY <2>7 DEF View
  <2>9. Sound(View(h)) /\ View(h)' = View(h)
    BY <2>6, <2>8, <2>10 DEF ReviewInv, ViewInv
  <2> QED
    BY <2>4, <2>9 DEF ViewInv, Continues
<1>5. CASE \E t \in Threads : CallOpen(t) \/ CallResolve(t) \/ CallOther(t) \/ GetSource(t) \/ Return(t)
  BY <1>1, <1>5 DEF CallOpen, CallResolve, CallOther, Start, GetSource, Return
<1>6. CASE Tick \/ UNCHANGED vars
  BY <1>1, <1>6 DEF Tick, vars
<1> QED
  BY <1>1, <1>2, <1>3, <1>4, <1>5, <1>6 DEF Next, Step

THEOREM ReviewInvariant ==
  ASSUME OneHandle
  PROVE  Spec => []ReviewInv
<1>1. Init => ReviewInv
  <2> SUFFICES ASSUME Init PROVE ReviewInv
    OBVIOUS
  <2>1. HandleInv /\ Sound(log)
    BY HandleInit, LogIsSound
  <2>2. \A h \in Handles : View(h) = log
    BY DEF Init, View, Closed
  <2> QED
    BY <2>1, <2>2 DEF ReviewInv, ViewInv
<1>2. ReviewInv /\ [Next]_vars => ReviewInv'
  BY HandleNext, ViewStep DEF ReviewInv
<1> QED
  BY <1>1, <1>2, PTL DEF Spec

\* Through one handle, an answered review is pending for no tenant, whichever
\* tenant's service recorded the answer and however many events came after it.
THEOREM AnsweredReviewsAreNotPending ==
  ASSUME OneHandle
  PROVE  Spec => []AnsweredIsNotPending
<1>1. ReviewInv => AnsweredIsNotPending
  BY LogIsSound, AnsweredIsNotListed DEF ReviewInv, AnsweredIsNotPending
<1> QED
  BY <1>1, ReviewInvariant, PTL

\* Through one handle, a review that open_review() handed to its caller is
\* pending until it is answered, as long as the ledger's events fit the scan.
THEOREM ReviewsAreNotLost ==
  ASSUME OneHandle, FitsTheScan
  PROVE  Spec => []NoReviewIsLost
<1>1. ReviewInv => NoReviewIsLost
  <2> SUFFICES ASSUME ReviewInv, NEW e \in returned, e.kind = "opened",
                      \A i \in DOMAIN log : ~ (log[i].kind = "resolved" /\ log[i].of = e.of)
               PROVE  e \in Pending(log, e.tenant)
    BY DEF NoReviewIsLost
  <2>1. e \in ToSet(log)
    BY DEF ReviewInv, HandleInv, IInv, OneAnswerStands, ToSet
  <2>2. \A f \in ToSet(log) : f.kind = "resolved" => f.of # e.of
    BY DEF ToSet
  <2>3. Sound(log)
    BY LogIsSound DEF ReviewInv
  <2> QED
    BY <2>1, <2>2, <2>3, UnansweredIsListed
<1> QED
  BY <1>1, ReviewInvariant, PTL

\* Through one handle, what a reader has seen pending or overdue stays so until
\* it sees the answer, and what it has seen answered does not come back.
THEOREM ReviewsMoveForward ==
  ASSUME OneHandle, FitsTheScan
  PROVE  Spec => ReviewsOnlyMoveForward
<1> DEFINE answered(s) == {e.of : e \in {f \in ToSet(s) : f.kind = "resolved"}}
           Forward ==
             Crash \/ \A h \in Handles, tenant \in Tenants :
               /\ \A e \in Pending(View(h), tenant) :
                    e \in Pending(View(h), tenant)' \/ e.of \in answered(View(h)')
               /\ \A e \in Overdue(View(h), tenant) :
                    e \in Overdue(View(h), tenant)' \/ e.of \in answered(View(h)')
               /\ \A e \in Pending(View(h), tenant)' : e.of \notin answered(View(h))
<1>1. ReviewInv /\ ReviewInv' /\ [Next]_vars => Forward
  <2> SUFFICES ASSUME ReviewInv, ReviewInv', [Next]_vars, ~ Crash,
                      NEW h \in Handles, NEW tenant \in Tenants
               PROVE  /\ \A e \in Pending(View(h), tenant) :
                           e \in Pending(View(h), tenant)' \/ e.of \in answered(View(h)')
                      /\ \A e \in Overdue(View(h), tenant) :
                           e \in Overdue(View(h), tenant)' \/ e.of \in answered(View(h)')
                      /\ \A e \in Pending(View(h), tenant)' : e.of \notin answered(View(h))
    OBVIOUS
  <2>1. Continues(View(h), View(h)')
    BY ViewStep DEF ReviewInv
  <2>2. PICK s, w : s = View(h) /\ w = View(h)'
    OBVIOUS
  <2>3. Sound(s) /\ Sound(w) /\ Continues(s, w)
    BY <2>1, <2>2 DEF ReviewInv, ViewInv
  <2>4. ToSet(s) \subseteq ToSet(w)
    BY <2>3 DEF Continues, ToSet
  <2>5. \A e \in Pending(s, tenant) : e \in ToSet(s) /\ e.kind = "opened" /\ e.tenant = tenant
    BY DEF Pending, Scan, ToSet
  <2>6. \A e \in Pending(s, tenant) : e \in Pending(w, tenant) \/ e.of \in answered(w)
    BY <2>3, <2>4, <2>5, UnansweredIsListed
  <2>7. now <= now' /\ now \in Nat /\ now' \in Nat
    <3>1. now \in Nat /\ now' \in Nat
      BY LimitAssumption DEF ReviewInv, HandleInv, IInv, Shapes
    <3>2. now' = now \/ now' = now + 1
      BY DEF Next, Step, CallOpen, CallResolve, CallOther, Start, GetSource, Insert, Commit,
             Return, Tick, vars
    <3> QED
      BY <3>1, <3>2
  <2>8. \A e \in Overdue(s, tenant) : e.at \in Nat
    BY <2>3, <2>5, SoundShape, LimitAssumption DEF Overdue, Events, ToSet
  <2>9. \A e \in Overdue(s, tenant) :
          e \in {p \in Pending(w, tenant) : p.at + SlaSeconds < now'} \/ e.of \in answered(w)
    BY <2>6, <2>7, <2>8, LimitAssumption DEF Overdue
  <2>10. \A e \in Pending(w, tenant) : e.of \notin answered(s)
    BY <2>3, <2>4, AnsweredIsNotListed
  <2>11. /\ Pending(View(h), tenant)' = Pending(w, tenant)
         /\ Overdue(View(h), tenant)' = {p \in Pending(w, tenant) : p.at + SlaSeconds < now'}
    BY <2>2 DEF Pending, Overdue, Scan, Newer
  <2> HIDE DEF answered
  <2> QED
    BY <2>2, <2>6, <2>9, <2>10, <2>11
<1>2. Spec => [][Forward]_vars
  BY <1>1, ReviewInvariant, PTL DEF Spec
<1> QED
  BY <1>2 DEF ReviewsOnlyMoveForward
==============================================================================
