----------------------------- MODULE BuzzOutbox -----------------------------
(***************************************************************************)
(* BuzzOutbox (src/lossbench/buzz/outbox.py): the durable outbox of review *)
(* events on their way to the Buzz relay, and the callbacks that come      *)
(* back.  Workers use the outbox each over a connection of its own to one  *)
(* file; every statement is its own transaction and may raise, and between *)
(* the statements of a call any other worker may run.  A worker may be     *)
(* repeating a call whose answer was lost, so every call is made with any  *)
(* arguments any number of times, in any order.                            *)
(*                                                                         *)
(* Rows are never deleted, so mark_published()'s check and its UPDATE are  *)
(* one step.  The relay that publishes is no part of this code: it calls   *)
(* mark_published(), the callback's receiver calls resolve_callback().     *)
(***************************************************************************)
EXTENDS Naturals, FiniteSets

CONSTANTS Decisions,    \* decision ids
          Tenants,      \* tenants of the requests
          Communities,  \* communities a request or a resolution goes to
          Contents,     \* what build_payload() puts into extra
          Workers,      \* threads, each with a BuzzOutbox on the file
          NoTenant      \* no tenant was read

ASSUME NoTenantAssumption == NoTenant \notin Tenants

Kinds == {"REVIEW_REQUEST", "REVIEW_RESOLVED"}

VARIABLES rows,      \* the table outbox
          pc,        \* where each worker is
          call,      \* the row it wants to insert, or names
          returned,  \* the rows handed back by the enqueues
          accepted   \* the decisions whose callback was accepted

vars == <<rows, pc, call, returned, accepted>>

\* A row is named by (decision_id, kind), of which outbox_id is the hash.
Row(d, kind, tenant, community, content) ==
    [of |-> d, kind |-> kind, tenant |-> tenant, community |-> community,
     content |-> content, status |-> "pending"]

Rows == [of : Decisions, kind : Kinds, tenant : Tenants, community : Communities,
         content : Contents, status : {"pending", "published"}]

\* event_for(decision_id, kind), as a set of at most one row.
EventFor(d, kind) == {r \in rows : r.of = d /\ r.kind = kind}

\* A BuzzEvent is the row without its status.
BuzzEvent(r) == [of |-> r.of, kind |-> r.kind, tenant |-> r.tenant,
                 community |-> r.community, content |-> r.content]

NoCall == Row(CHOOSE d \in Decisions : TRUE, "REVIEW_REQUEST", NoTenant,
              CHOOSE c \in Communities : TRUE, CHOOSE x \in Contents : TRUE)

Init ==
    /\ rows = {}
    /\ pc = [w \in Workers |-> "idle"]
    /\ call = [w \in Workers |-> NoCall]
    /\ returned = {}
    /\ accepted = {}

------------------------------------------------------------------------------
Goto(w, label) == pc' = [pc EXCEPT ![w] = label]

\* The call returns or raises.
Leave(w) ==
    /\ Goto(w, "idle")
    /\ call' = [call EXCEPT ![w] = NoCall]

Start(w, label) ==
    /\ pc[w] = "idle"
    /\ Goto(w, label)
    /\ UNCHANGED <<rows, returned, accepted>>

CallEnqueueRequest(w) ==
    /\ Start(w, "lookup")
    /\ \E d \in Decisions, tenant \in Tenants, c \in Communities, x \in Contents :
         call' = [call EXCEPT ![w] = Row(d, "REVIEW_REQUEST", tenant, c, x)]

CallEnqueueResolution(w) ==
    /\ Start(w, "lookup")
    /\ \E d \in Decisions, c \in Communities, x \in Contents :
         call' = [call EXCEPT ![w] = Row(d, "REVIEW_RESOLVED", NoTenant, c, x)]

\* A callback's payload; one that lacks a field raises before any statement.
CallResolveCallback(w) ==
    /\ Start(w, "request")
    /\ \E d \in Decisions :
         call' = [call EXCEPT ![w] = [NoCall EXCEPT !.of = d, !.kind = "REVIEW_RESOLVED"]]

\* existing = self.event_for(...): the row that is there is returned.
Lookup(w) ==
    LET existing == EventFor(call[w].of, call[w].kind) IN
    /\ pc[w] = "lookup"
    /\ IF existing # {}
       THEN /\ returned' = returned \union {BuzzEvent(r) : r \in existing}
            /\ Leave(w)
       ELSE /\ Goto(w, IF call[w].kind = "REVIEW_REQUEST" THEN "insert" ELSE "tenant")
            /\ UNCHANGED <<call, returned>>
    /\ UNCHANGED <<rows, accepted>>

\* Mutant: without a request the tenant is None, and nothing is raised.
RequestTenantsOrNone(d) ==
    LET found == {r \in rows : r.of = d /\ r.kind = "REVIEW_REQUEST"}
    IN  IF found = {} THEN {NoTenant} ELSE {r.tenant : r \in found}

\* SELECT tenant_id of the decision's request row.
RequestTenants(d) == {r.tenant : r \in EventFor(d, "REVIEW_REQUEST")}

\* enqueue_resolution(): the tenant is the request's; without one it raises.
ReadTenant(w) ==
    /\ pc[w] = "tenant"
    /\ IF RequestTenants(call[w].of) = {} THEN Leave(w)
       ELSE \E tenant \in RequestTenants(call[w].of) :
              /\ call' = [call EXCEPT ![w].tenant = tenant]
              /\ Goto(w, "insert")
    /\ UNCHANGED <<rows, returned, accepted>>

\* Mutant: the table without its PRIMARY KEY.
KeyNeverTaken(r) == FALSE

\* PRIMARY KEY refuses the row.
KeyTaken(r) == \E q \in rows : q.of = r.of /\ q.kind = r.kind

\* INSERT; when another worker inserted the row since the lookup, PRIMARY KEY
\* makes it raise.
Insert(w) ==
    /\ pc[w] = "insert"
    /\ IF KeyTaken(call[w])
       THEN Goto(w, "conflict") /\ UNCHANGED rows
       ELSE /\ rows' = rows \union {call[w]}
            /\ Goto(w, "event")
    /\ UNCHANGED <<call, returned, accepted>>

\* return self.event_for(...).
ReturnEvent(w) ==
    /\ pc[w] = "event"
    /\ returned' = returned \union {BuzzEvent(r) : r \in EventFor(call[w].of, call[w].kind)}
    /\ Leave(w)
    /\ UNCHANGED <<rows, accepted>>

\* The constraint error reaches the caller.
RaiseConflict(w) ==
    /\ pc[w] = "conflict"
    /\ Leave(w)
    /\ UNCHANGED <<rows, returned, accepted>>

\* The rows after UPDATE outbox SET status = 'published'.
Published(d, kind) ==
    {IF r.of = d /\ r.kind = kind THEN [r EXCEPT !.status = "published"] ELSE r : r \in rows}

\* mark_published(outbox_id) by the relay; an unknown id raises.
MarkPublished(w) ==
    /\ pc[w] = "idle"
    /\ \E r \in rows : rows' = Published(r.of, r.kind)
    /\ UNCHANGED <<pc, call, returned, accepted>>

\* Mutant: the callback is not held back until its request is published.
RequestExists(d) == EventFor(d, "REVIEW_REQUEST") # {}

\* The request row exists and is published.
RequestPublished(d) == \E r \in EventFor(d, "REVIEW_REQUEST") : r.status = "published"

\* resolve_callback(): the request and its status, or an exception.
CheckRequest(w) ==
    /\ pc[w] = "request"
    /\ IF RequestPublished(call[w].of) THEN Goto(w, "resolution") /\ UNCHANGED call
       ELSE Leave(w)
    /\ UNCHANGED <<rows, returned, accepted>>

\* The resolution row, or an exception.
CheckResolution(w) ==
    /\ pc[w] = "resolution"
    /\ IF EventFor(call[w].of, "REVIEW_RESOLVED") # {}
       THEN Goto(w, "mark") /\ UNCHANGED call
       ELSE Leave(w)
    /\ UNCHANGED <<rows, returned, accepted>>

\* mark_published() of the resolution row.
MarkResolution(w) ==
    /\ pc[w] = "mark"
    /\ rows' = Published(call[w].of, "REVIEW_RESOLVED")
    /\ Goto(w, "accept")
    /\ UNCHANGED <<call, returned, accepted>>

Accept(w) ==
    /\ pc[w] = "accept"
    /\ accepted' = accepted \union {call[w].of}
    /\ Leave(w)
    /\ UNCHANGED <<rows, returned>>

\* A statement raises (the disk, a concurrent write to the row), or the
\* worker dies: what its earlier statements wrote stays.
Abandon(w) ==
    /\ pc[w] # "idle"
    /\ Leave(w)
    /\ UNCHANGED <<rows, returned, accepted>>

Step(w) ==
    \/ Lookup(w)
    \/ ReadTenant(w)
    \/ Insert(w)
    \/ ReturnEvent(w)
    \/ RaiseConflict(w)
    \/ CheckRequest(w)
    \/ CheckResolution(w)
    \/ MarkResolution(w)
    \/ Accept(w)
    \/ Abandon(w)

Next == \E w \in Workers :
    \/ CallEnqueueRequest(w)
    \/ CallEnqueueResolution(w)
    \/ CallResolveCallback(w)
    \/ MarkPublished(w)
    \/ Step(w)

Spec == Init /\ [][Next]_vars

------------------------------------------------------------------------------
Labels == {"idle", "lookup", "tenant", "insert", "event", "conflict",
           "request", "resolution", "mark", "accept"}

\* However the enqueues of one decision race, repeat and fail, all callers
\* that got an event for it got the same one, and it is the stored one.
OneEventForAll ==
    \A e \in returned : EventFor(e.of, e.kind) # {}
        /\ \A r \in EventFor(e.of, e.kind) : BuzzEvent(r) = e

\* A resolution is only in the outbox of a tenant that has the review.
ResolutionHasRequest ==
    \A r \in rows : r.kind = "REVIEW_RESOLVED" =>
        \E q \in rows : q.of = r.of /\ q.kind = "REVIEW_REQUEST" /\ q.tenant = r.tenant

\* A callback is accepted only of a review the relay was given, and the answer
\* is then not relayed again: both rows are published, and stay so.
AcceptedIsRelayed ==
    \A d \in accepted, kind \in Kinds :
        \E r \in EventFor(d, kind) : r.status = "published"

\* What the relay has published is never pending again, by a repeated enqueue,
\* a late callback or otherwise, and no row is lost or rewritten before.
NothingIsRelayedTwice ==
    [][\A r \in rows :
         /\ \E q \in rows' : BuzzEvent(q) = BuzzEvent(r)
         /\ r.status = "published" =>
              \A q \in rows' : q.of = r.of /\ q.kind = r.kind => q.status = "published"]_vars
==============================================================================
