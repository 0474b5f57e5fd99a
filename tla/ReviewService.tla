---------------------------- MODULE ReviewService ----------------------------
(***************************************************************************)
(* ReviewService (src/lossbench/hitl/review.py): human reviews kept as     *)
(* marker events in the audit ledger.  Threads open and resolve reviews    *)
(* through services bound to ledger handles, and append other events.      *)
(*                                                                         *)
(* The ledger is the one AuditLedger shows: a log of events, an append()   *)
(* serialised per handle, its row seen by the readers of that handle while *)
(* it is not committed, and a COMMIT that fails when another handle has    *)
(* committed since its transaction began.  open_review() is one append;    *)
(* resolve() reads the opened marker without the lock and then appends.    *)
(***************************************************************************)
EXTENDS Naturals, FiniteSets, Sequences, SequencesExt

CONSTANTS Decisions,    \* ids of ESCALATE decisions
          Tenants,      \* tenants; each service has one as its default
          Resolutions,  \* the valid values of ReviewResolution.resolution
          Others,       \* ids of events that are no review markers
          Handles,      \* AuditLedger objects on one ledger file
          Threads,      \* threads that use a service
          ScanLimit,    \* _SCAN_LIMIT: pending() scans so many events
          SlaSeconds,   \* _DEFAULT_SLA_SECONDS, in ticks of the clock
          MaxTime,      \* bound: the clock stops here
          None          \* no outcome, no event

ASSUME LimitAssumption == {ScanLimit, SlaSeconds, MaxTime} \subseteq Nat

VARIABLES log,      \* the committed events, in the order of seq
          open,     \* the append in a transaction on each handle
          pc,       \* where each thread is
          call,     \* the thread's handle and the event it wants to append
          returned, \* the events of the calls that returned normally
          now       \* _utcnow()

vars == <<log, open, pc, call, returned, now>>

\* What pending() and resolve() look at in a DecisionEvent: the id is
\* <<of, kind>>, tenant_id, created_at, and the resolution of a resolved one.
Event(of, kind, tenant, at, outcome) ==
    [of |-> of, kind |-> kind, tenant |-> tenant, at |-> at, outcome |-> outcome]

Opened(d, tenant, at) == Event(d, "opened", tenant, at, None)

\* Mutant: the marker carries the service's tenant, not the review's.
ResolvedForService(source, tenant, at, r) == Event(source.of, "resolved", tenant, at, r)

\* The resolved marker of the review `source`, written by tenant's service.
Resolved(source, tenant, at, r) == Event(source.of, "resolved", source.tenant, at, r)

Events ==
    [of : Decisions, kind : {"opened", "resolved"}, tenant : Tenants, at : 0 .. MaxTime,
     outcome : Resolutions \union {None}]
    \union [of : Others, kind : {"other"}, tenant : Tenants, at : 0 .. MaxTime, outcome : {None}]

ASSUME NoneAssumption == None \notin Resolutions /\ None \notin Events

SameId(e, f) == e.of = f.of /\ e.kind = f.kind

Closed == [event |-> None, base |-> 0]

\* What a statement on the handle's connection reads.
View(h) == IF open[h].event = None THEN log
           ELSE Append(SubSeq(log, 1, open[h].base), open[h].event)

\* Mutant: append() checks event_id among the handle's first rows only.
HasIdAtHead(s, e) == s # << >> /\ SameId(s[1], e)

HasId(s, e) == \E i \in DOMAIN s : SameId(s[i], e)

Idle == [handle |-> CHOOSE h \in Handles : TRUE, event |-> None]

Init ==
    /\ log = << >>
    /\ open = [h \in Handles |-> Closed]
    /\ pc = [t \in Threads |-> "idle"]
    /\ call = [t \in Threads |-> Idle]
    /\ returned = {}
    /\ now = 0

------------------------------------------------------------------------------
Goto(t, label) == pc' = [pc EXCEPT ![t] = label]

\* A thread starts a call on a handle; `label` is the call's first step.
Start(t, h, e, label) ==
    /\ pc[t] = "idle"
    /\ Goto(t, label)
    /\ call' = [call EXCEPT ![t] = [handle |-> h, event |-> e]]
    /\ UNCHANGED <<log, open, returned, now>>

\* A call ends: it leaves nothing behind but what its append stored.
Finish(t) ==
    /\ Goto(t, "idle")
    /\ call' = [call EXCEPT ![t] = Idle]

\* open_review(event): the marker is built with the time of the call.  An
\* event that is not ESCALATE raises before anything is read or written.
CallOpen(t) ==
    \E h \in Handles, d \in Decisions, tenant \in Tenants :
        Start(t, h, Opened(d, tenant, now), "append")

\* resolve(resolution) on the service of a tenant; an invalid resolution, and
\* AMEND without an amended action, raise before anything is read.
CallResolve(t) ==
    \E h \in Handles, d \in Decisions, tenant \in Tenants, r \in Resolutions :
        Start(t, h, Event(d, "resolved", tenant, now, r), "get")

\* Another component appends an event of its own.
CallOther(t) ==
    \E h \in Handles, o \in Others, tenant \in Tenants :
        Start(t, h, Event(o, "other", tenant, now, None), "append")

\* The opened markers of d that a read returns.
OpenedIn(s, d) == {e \in ToSet(s) : e.of = d /\ e.kind = "opened"}

\* Mutant: resolve() does not look for the opened marker.
SourcesUnchecked(s, e) == {Opened(e.of, e.tenant, e.at)}

\* What ledger.get(f"{decision_id}@review-opened") finds.
Sources(s, e) == OpenedIn(s, e.of)

\* source = ledger.get(...); without it resolve() raises "no open review".
GetSource(t) ==
    LET e       == call[t].event
        sources == Sources(View(call[t].handle), e)
    IN
    /\ pc[t] = "get"
    /\ IF sources = {} THEN Finish(t)
       ELSE \E source \in sources :
              /\ call' = [call EXCEPT ![t].event =
                            Resolved(source, e.tenant, e.at, e.outcome)]
              /\ Goto(t, "append")
    /\ UNCHANGED <<log, open, returned, now>>

\* append() up to INSERT: the lock, BEGIN, and the existence check, which
\* raises ValueError.
Insert(t) ==
    LET h == call[t].handle IN
    /\ pc[t] = "append"
    /\ open[h] = Closed
    /\ IF HasId(log, call[t].event)
       THEN Finish(t) /\ UNCHANGED open
       ELSE /\ open' = [open EXCEPT ![h] = [event |-> call[t].event, base |-> Len(log)]]
            /\ Goto(t, "commit")
            /\ UNCHANGED call
    /\ UNCHANGED <<log, returned, now>>

\* Another handle has committed since the transaction began: its row has the
\* seq that this one took.
Collides(h) == Len(log) # open[h].base

\* COMMIT, or the exception of a collision with another handle's row.
Commit(t) ==
    LET h == call[t].handle IN
    /\ pc[t] = "commit"
    /\ open' = [open EXCEPT ![h] = Closed]
    /\ IF Collides(h)
       THEN Finish(t) /\ UNCHANGED log
       ELSE /\ log' = Append(log, open[h].event)
            /\ Goto(t, "return")
            /\ UNCHANGED call
    /\ UNCHANGED <<returned, now>>

\* The request or the stored event is handed back.
Return(t) ==
    /\ pc[t] = "return"
    /\ returned' = returned \union {call[t].event}
    /\ Finish(t)
    /\ UNCHANGED <<log, open, now>>

\* The process dies; reviews that are open survive in the ledger file.
Crash ==
    /\ \E t \in Threads : pc[t] # "idle"
    /\ open' = [h \in Handles |-> Closed]
    /\ pc' = [t \in Threads |-> "idle"]
    /\ call' = [t \in Threads |-> Idle]
    /\ UNCHANGED <<log, returned, now>>

Tick ==
    /\ now < MaxTime
    /\ now' = now + 1
    /\ UNCHANGED <<log, open, pc, call, returned>>

Step(t) == GetSource(t) \/ Insert(t) \/ Commit(t) \/ Return(t)

Next ==
    \/ \E t \in Threads : CallOpen(t) \/ CallResolve(t) \/ CallOther(t) \/ Step(t)
    \/ Crash
    \/ Tick

Spec == Init /\ [][Next]_vars

------------------------------------------------------------------------------
Newer(s, tenant, i) == {j \in DOMAIN s : i < j /\ s[j].tenant = tenant}

Older(s, tenant, i) == {j \in DOMAIN s : j < i /\ s[j].tenant = tenant}

\* Mutant: the scan keeps the oldest events.
ScanOldest(s, tenant) ==
    {s[i] : i \in {j \in DOMAIN s : /\ s[j].tenant = tenant
                                    /\ Cardinality(Older(s, tenant, j)) < ScanLimit}}

\* Mutant: the newest row is skipped.
ScanBelowNewest(s, tenant) ==
    {s[i] : i \in {j \in DOMAIN s : /\ s[j].tenant = tenant
                                    /\ Cardinality(Newer(s, tenant, j)) \in 1 .. ScanLimit - 1}}

\* events_by_tenant(tenant, limit=_SCAN_LIMIT): the newest events.
Scan(s, tenant) ==
    {s[i] : i \in {j \in DOMAIN s : /\ s[j].tenant = tenant
                                    /\ Cardinality(Newer(s, tenant, j)) < ScanLimit}}

\* pending(tenant): the opened markers without a resolved child.
Pending(s, tenant) ==
    {e \in Scan(s, tenant) :
        /\ e.kind = "opened"
        /\ \A f \in Scan(s, tenant) : f.kind = "resolved" => f.of # e.of}

\* sla_overdue(): created_at + sla_seconds < now.
Overdue(s, tenant) == {e \in Pending(s, tenant) : e.at + SlaSeconds < now}

------------------------------------------------------------------------------
\* A resolution is recorded only of a review that was opened before it
\* (resolve: raises "when the decision has no open review in the ledger").
ResolvedHasReview ==
    \A i \in DOMAIN log : log[i].kind = "resolved" =>
        \E j \in 1 .. i - 1 : log[j].kind = "opened" /\ log[j].of = log[i].of

\* Of several reviewers who answer one review, in any order, through any
\* handles and after a crash, at most one is told that the answer stands, and
\* the answer in the ledger is that one.
OneAnswerStands ==
    /\ \A e \in returned : \E i \in DOMAIN log : log[i] = e
    /\ \A i, j \in DOMAIN log : SameId(log[i], log[j]) => i = j

\* A review that open_review() handed to its caller is pending for the tenant
\* of its decision until a resolution of it is in the ledger; no crash and no
\* failed call loses it.
NoReviewIsLost ==
    \A e \in returned : e.kind = "opened" =>
        \/ e \in Pending(log, e.tenant)
        \/ \E i \in DOMAIN log : log[i].kind = "resolved" /\ log[i].of = e.of

\* A review with a recorded resolution is pending for no tenant, whichever
\* tenant's service recorded it.
AnsweredIsNotPending ==
    \A e \in ToSet(log), tenant \in Tenants :
        e.kind = "resolved" => \A p \in Pending(log, tenant) : p.of # e.of

\* While the process lives, a review that a reader of a handle has seen
\* pending stays pending, with the SLA it started with, until its resolution
\* is written; an overdue one stays overdue; and a review once seen answered
\* does not come back.
ReviewsOnlyMoveForward ==
    [][Crash \/ \A h \in Handles, tenant \in Tenants :
         LET answered(s) == {e.of : e \in {f \in ToSet(s) : f.kind = "resolved"}}
         IN /\ \A e \in Pending(View(h), tenant) :
                  e \in Pending(View(h), tenant)' \/ e.of \in answered(View(h)')
            /\ \A e \in Overdue(View(h), tenant) :
                  e \in Overdue(View(h), tenant)' \/ e.of \in answered(View(h)')
            /\ \A e \in Pending(View(h), tenant)' : e.of \notin answered(View(h))
      ]_vars
==============================================================================
