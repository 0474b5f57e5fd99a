--------------------------- MODULE BuzzOutboxProofs ---------------------------
(***************************************************************************)
(* Proofs about BuzzOutbox: one event per review and kind for all callers, *)
(* nothing relayed twice and no callback accepted too early, for any       *)
(* workers, reviews, tenants and contents, whatever races, repeats or      *)
(* fails between two statements.                                           *)
(***************************************************************************)
EXTENDS BuzzOutbox, TLAPS

\* What an enqueue works on; a resolution has no tenant before it is read.
Requested == [of : Decisions, kind : Kinds, tenant : Tenants \union {NoTenant},
              community : Communities, content : Contents, status : {"pending"}]

OutboxTypes ==
    /\ rows \subseteq Rows
    /\ DOMAIN pc = Workers /\ DOMAIN call = Workers

\* PRIMARY KEY: a review and a kind have one row.
KeysAreUnique == \A r, q \in rows : r.of = q.of /\ r.kind = q.kind => r = q

IsPublished(d, kind) == \E r \in rows : r.of = d /\ r.kind = kind /\ r.status = "published"

HasRequest(d, tenant) ==
    \E r \in rows : r.of = d /\ r.kind = "REVIEW_REQUEST" /\ r.tenant = tenant

\* What a worker has learnt from its earlier statements still holds.
Learnt(w) ==
    /\ pc[w] = "lookup" => call[w] \in Requested
                           /\ (call[w].kind = "REVIEW_REQUEST" => call[w].tenant \in Tenants)
    /\ pc[w] = "tenant" => call[w] \in Requested /\ call[w].kind = "REVIEW_RESOLVED"
    /\ pc[w] = "insert" => call[w] \in Rows
    /\ pc[w] = "insert" /\ call[w].kind = "REVIEW_RESOLVED" =>
         HasRequest(call[w].of, call[w].tenant)
    /\ pc[w] \in {"resolution", "mark", "accept"} => IsPublished(call[w].of, "REVIEW_REQUEST")
    /\ pc[w] = "mark" => EventFor(call[w].of, "REVIEW_RESOLVED") # {}
    /\ pc[w] = "accept" => IsPublished(call[w].of, "REVIEW_RESOLVED")

WorkerInv == \A w \in Workers : Learnt(w)

\* What callers were told, and what was accepted, is in the table.
TableInv ==
    /\ ResolutionHasRequest
    /\ \A e \in returned : \E r \in rows : BuzzEvent(r) = e
    /\ \A d \in accepted, kind \in Kinds : IsPublished(d, kind)

IInv == OutboxTypes /\ KeysAreUnique /\ WorkerInv /\ TableInv

------------------------------------------------------------------------------
\* Rows are only added or published.
RowsGrow ==
    \A r \in rows : \E q \in rows' :
        /\ BuzzEvent(q) = BuzzEvent(r)
        /\ r.status = "published" => q.status = "published"

LEMMA OutboxInit == Init => IInv
  BY DEF Init, IInv, OutboxTypes, KeysAreUnique, WorkerInv, Learnt, TableInv, ResolutionHasRequest

\* What the table shows it goes on to show when rows are only added or published.
LEMMA GrowingKeeps ==
  ASSUME RowsGrow
  PROVE  /\ \A d, kind : IsPublished(d, kind) => IsPublished(d, kind)'
         /\ \A d, tenant : HasRequest(d, tenant) => HasRequest(d, tenant)'
         /\ \A d, kind : EventFor(d, kind) # {} => EventFor(d, kind)' # {}
         /\ \A e : (\E r \in rows : BuzzEvent(r) = e) => (\E r \in rows' : BuzzEvent(r) = e)
<1>1. \A r, q : BuzzEvent(q) = BuzzEvent(r) => q.of = r.of /\ q.kind = r.kind /\ q.tenant = r.tenant
  BY DEF BuzzEvent
<1> QED
  BY <1>1 DEF RowsGrow, IsPublished, HasRequest, EventFor

LEMMA UnchangedGrows == UNCHANGED rows => RowsGrow
  BY DEF RowsGrow

\* A step of another worker takes from a worker nothing it has learnt.
LEMMA LearntStays ==
  ASSUME RowsGrow, NEW v \in Workers, Learnt(v), pc'[v] = pc[v], call'[v] = call[v]
  PROVE  Learnt(v)'
  BY GrowingKeeps DEF Learnt

\* What is left to show of a step of one worker.
LEMMA OneWorkerSteps ==
  ASSUME IInv, RowsGrow, NEW w \in Workers, NEW label, NEW r,
         pc' = [pc EXCEPT ![w] = label], call' = [call EXCEPT ![w] = r] \/ call' = call,
         Learnt(w)'
  PROVE  DOMAIN pc' = Workers /\ DOMAIN call' = Workers /\ WorkerInv'
<1>1. /\ DOMAIN pc' = Workers /\ DOMAIN call' = Workers
      /\ \A v \in Workers \ {w} : pc'[v] = pc[v] /\ call'[v] = call[v]
  BY DEF IInv, OutboxTypes
<1>2. \A v \in Workers \ {w} : Learnt(v)'
  BY <1>1, LearntStays DEF IInv, WorkerInv
<1> QED
  BY <1>1, <1>2 DEF WorkerInv

\* The table, the callers and the acceptances stay as they are.
LEMMA TableStays ==
  ASSUME IInv, UNCHANGED <<rows, returned, accepted>>
  PROVE  rows' \subseteq Rows /\ KeysAreUnique' /\ TableInv' /\ RowsGrow
  BY UnchangedGrows
     DEF IInv, OutboxTypes, KeysAreUnique, TableInv, ResolutionHasRequest, IsPublished

\* A worker that leaves knows nothing.
LEMMA LeavingWorker ==
  ASSUME IInv, RowsGrow, NEW w \in Workers, Leave(w)
  PROVE  DOMAIN pc' = Workers /\ DOMAIN call' = Workers /\ WorkerInv'
<1>1. Learnt(w)'
  BY DEF Leave, Goto, Learnt, IInv, OutboxTypes
<1> QED
  BY <1>1, OneWorkerSteps DEF Leave, Goto

------------------------------------------------------------------------------
LEMMA CallStep ==
  ASSUME IInv, NEW w \in Workers,
         CallEnqueueRequest(w) \/ CallEnqueueResolution(w) \/ CallResolveCallback(w)
  PROVE  IInv' /\ RowsGrow
<1>1. /\ rows' \subseteq Rows /\ KeysAreUnique' /\ TableInv' /\ RowsGrow
  BY TableStays DEF CallEnqueueRequest, CallEnqueueResolution, CallResolveCallback, Start
<1>2. CASE CallEnqueueRequest(w)
  <2>1. PICK d \in Decisions, tenant \in Tenants, c \in Communities, x \in Contents :
          call' = [call EXCEPT ![w] = Row(d, "REVIEW_REQUEST", tenant, c, x)]
    BY <1>2 DEF CallEnqueueRequest
  <2>2. pc' = [pc EXCEPT ![w] = "lookup"]
    BY <1>2 DEF CallEnqueueRequest, Start, Goto
  <2>3. Row(d, "REVIEW_REQUEST", tenant, c, x) \in Requested
    BY DEF Row, Requested, Kinds
  <2>4. Row(d, "REVIEW_REQUEST", tenant, c, x).tenant \in Tenants
    BY DEF Row
  <2>5. Learnt(w)'
    BY <2>1, <2>2, <2>3, <2>4 DEF Learnt, IInv, OutboxTypes
  <2> QED
    BY <1>1, <2>1, <2>2, <2>5, OneWorkerSteps DEF IInv, OutboxTypes
<1>3. CASE CallEnqueueResolution(w)
  <2>1. PICK d \in Decisions, c \in Communities, x \in Contents :
          call' = [call EXCEPT ![w] = Row(d, "REVIEW_RESOLVED", NoTenant, c, x)]
    BY <1>3 DEF CallEnqueueResolution
  <2>2. pc' = [pc EXCEPT ![w] = "lookup"]
    BY <1>3 DEF CallEnqueueResolution, Start, Goto
  <2>3. Row(d, "REVIEW_RESOLVED", NoTenant, c, x) \in Requested
    BY DEF Row, Requested, Kinds
  <2>4. Row(d, "REVIEW_RESOLVED", NoTenant, c, x).kind # "REVIEW_REQUEST"
    BY DEF Row
  <2>5. Learnt(w)'
    BY <2>1, <2>2, <2>3, <2>4 DEF Learnt, IInv, OutboxTypes
  <2> QED
    BY <1>1, <2>1, <2>2, <2>5, OneWorkerSteps DEF IInv, OutboxTypes
<1>4. CASE CallResolveCallback(w)
  <2>1. PICK d \in Decisions :
          call' = [call EXCEPT ![w] = [NoCall EXCEPT !.of = d, !.kind = "REVIEW_RESOLVED"]]
    BY <1>4 DEF CallResolveCallback
  <2>2. pc' = [pc EXCEPT ![w] = "request"]
    BY <1>4 DEF CallResolveCallback, Start, Goto
  <2>3. Learnt(w)'
    BY <2>2 DEF Learnt, IInv, OutboxTypes
  <2> QED
    BY <1>1, <2>1, <2>2, <2>3, OneWorkerSteps DEF IInv, OutboxTypes
<1> QED
  BY <1>2, <1>3, <1>4

LEMMA LookupStep ==
  ASSUME IInv, NEW w \in Workers, Lookup(w)
  PROVE  IInv' /\ RowsGrow
<1> DEFINE existing == EventFor(call[w].of, call[w].kind)
<1>1. rows' \subseteq Rows /\ KeysAreUnique' /\ RowsGrow
  BY UnchangedGrows DEF Lookup, IInv, OutboxTypes, KeysAreUnique
<1>2. CASE existing # {}
  <2>1. returned' = returned \union {BuzzEvent(r) : r \in existing} /\ Leave(w)
    BY <1>2 DEF Lookup
  <2>2. existing \subseteq rows
    BY DEF EventFor
  <2>3. TableInv'
    BY <2>1, <2>2 DEF Lookup, IInv, TableInv, ResolutionHasRequest, IsPublished
  <2> QED
    BY <1>1, <2>1, <2>3, LeavingWorker DEF IInv, OutboxTypes
<1>3. CASE existing = {}
  <2> DEFINE label == IF call[w].kind = "REVIEW_REQUEST" THEN "insert" ELSE "tenant"
  <2>1. pc' = [pc EXCEPT ![w] = label] /\ UNCHANGED <<call, returned, rows, accepted>>
    BY <1>3 DEF Lookup, Goto
  <2>2. TableInv'
    BY <2>1, TableStays
  <2>3. /\ call[w] \in Requested
        /\ call[w].kind = "REVIEW_REQUEST" => call[w].tenant \in Tenants
    BY DEF Lookup, IInv, WorkerInv, Learnt
  <2>4. pc'[w] = label /\ call'[w] = call[w]
    BY <2>1 DEF IInv, OutboxTypes
  <2>5. Learnt(w)'
    <3>1. CASE call[w].kind = "REVIEW_REQUEST"
      <4>1. call[w] \in Rows
        BY <2>3, <3>1 DEF Requested, Rows
      <4> QED
        BY <2>4, <3>1, <4>1 DEF Learnt
    <3>2. CASE call[w].kind # "REVIEW_REQUEST"
      <4>1. call[w].kind = "REVIEW_RESOLVED"
        BY <2>3, <3>2 DEF Requested, Kinds
      <4> QED
        BY <2>3, <2>4, <3>2, <4>1 DEF Learnt
    <3> QED
      BY <3>1, <3>2
  <2> QED
    BY <1>1, <2>1, <2>2, <2>5, OneWorkerSteps DEF IInv, OutboxTypes
<1> QED
  BY <1>2, <1>3

LEMMA ReadTenantStep ==
  ASSUME IInv, NEW w \in Workers, ReadTenant(w)
  PROVE  IInv' /\ RowsGrow
<1>1. rows' \subseteq Rows /\ KeysAreUnique' /\ TableInv' /\ RowsGrow
  BY TableStays DEF ReadTenant
<1>2. CASE RequestTenants(call[w].of) = {}
  BY <1>1, <1>2, LeavingWorker DEF ReadTenant, IInv, OutboxTypes
<1>3. CASE RequestTenants(call[w].of) # {}
  <2>1. PICK tenant \in RequestTenants(call[w].of) :
          call' = [call EXCEPT ![w].tenant = tenant] /\ pc' = [pc EXCEPT ![w] = "insert"]
    BY <1>3 DEF ReadTenant, Goto
  <2> DEFINE r == [call[w] EXCEPT !.tenant = tenant]
  <2>2. PICK q \in rows : q.of = call[w].of /\ q.kind = "REVIEW_REQUEST" /\ q.tenant = tenant
    BY <2>1 DEF RequestTenants, EventFor
  <2>3. call[w] \in Requested
    BY DEF ReadTenant, IInv, WorkerInv, Learnt
  <2>4. tenant \in Tenants
    BY <2>2 DEF IInv, OutboxTypes, Rows
  <2>5. r \in Rows /\ r.of = call[w].of /\ r.tenant = tenant
    BY <2>3, <2>4 DEF Requested, Rows
  <2>6. \E p \in rows' : p.of = r.of /\ p.kind = "REVIEW_REQUEST" /\ p.tenant = r.tenant
    BY <2>2, <2>5 DEF ReadTenant
  <2>7. Learnt(w)'
    BY <2>1, <2>5, <2>6 DEF Learnt, HasRequest, IInv, OutboxTypes
  <2>8. call' = [call EXCEPT ![w] = r]
    BY <2>1
  <2> QED
    BY <1>1, <2>1, <2>7, <2>8, OneWorkerSteps DEF IInv, OutboxTypes
<1> QED
  BY <1>2, <1>3

\* The step that needs PRIMARY KEY: a row is new under its key, and the
\* request that a resolution needs was read before and cannot go away.
LEMMA InsertStep ==
  ASSUME IInv, NEW w \in Workers, Insert(w)
  PROVE  IInv' /\ RowsGrow
<1>1. CASE KeyTaken(call[w])
  <2>1. pc' = [pc EXCEPT ![w] = "conflict"] /\ UNCHANGED <<call, returned, rows, accepted>>
    BY <1>1 DEF Insert, Goto
  <2>2. Learnt(w)'
    BY <2>1 DEF Learnt, IInv, OutboxTypes
  <2> QED
    BY <2>1, <2>2, TableStays, OneWorkerSteps DEF IInv, OutboxTypes
<1>2. CASE ~ KeyTaken(call[w])
  <2>1. /\ rows' = rows \union {call[w]} /\ pc' = [pc EXCEPT ![w] = "event"]
        /\ UNCHANGED <<call, returned, accepted>>
    BY <1>2 DEF Insert, Goto
  <2>2. call[w] \in Rows
    BY DEF Insert, IInv, WorkerInv, Learnt
  <2>3. RowsGrow
    BY <2>1 DEF RowsGrow
  <2>4. KeysAreUnique'
    BY <2>1, <1>2 DEF KeysAreUnique, KeyTaken, IInv
  <2>5. TableInv'
    <3>1. call[w].kind = "REVIEW_RESOLVED" => HasRequest(call[w].of, call[w].tenant)
      BY DEF Insert, IInv, WorkerInv, Learnt
    <3>2. ResolutionHasRequest'
      BY <2>1, <3>1 DEF ResolutionHasRequest, HasRequest, IInv, TableInv
    <3> QED
      BY <2>1, <2>3, <3>2, GrowingKeeps DEF IInv, TableInv
  <2>6. Learnt(w)'
    BY <2>1 DEF Learnt, IInv, OutboxTypes
  <2>7. rows' \subseteq Rows
    BY <2>1, <2>2 DEF IInv, OutboxTypes
  <2> QED
    BY <2>1, <2>3, <2>4, <2>5, <2>6, <2>7, OneWorkerSteps DEF IInv, OutboxTypes
<1> QED
  BY <1>1, <1>2

LEMMA ReturnEventStep ==
  ASSUME IInv, NEW w \in Workers, ReturnEvent(w)
  PROVE  IInv' /\ RowsGrow
<1>1. rows' \subseteq Rows /\ KeysAreUnique' /\ RowsGrow
  BY UnchangedGrows DEF ReturnEvent, IInv, OutboxTypes, KeysAreUnique
<1>2. TableInv'
  <2>1. EventFor(call[w].of, call[w].kind) \subseteq rows
    BY DEF EventFor
  <2> QED
    BY <2>1 DEF ReturnEvent, IInv, TableInv, ResolutionHasRequest, IsPublished
<1> QED
  BY <1>1, <1>2, LeavingWorker DEF ReturnEvent, IInv, OutboxTypes

\* A call ends without an answer.
LEMMA GivingUpStep ==
  ASSUME IInv, NEW w \in Workers, RaiseConflict(w) \/ Abandon(w)
  PROVE  IInv' /\ RowsGrow
  BY TableStays, LeavingWorker DEF RaiseConflict, Abandon, IInv, OutboxTypes

\* UPDATE makes a row published and leaves all else of the table.
LEMMA PublishingRows ==
  ASSUME IInv, NEW d, NEW kind, rows' = Published(d, kind), UNCHANGED <<returned, accepted>>
  PROVE  /\ rows' \subseteq Rows /\ KeysAreUnique' /\ TableInv' /\ RowsGrow
         /\ EventFor(d, kind) # {} => IsPublished(d, kind)'
<1> DEFINE Marked(r) == IF r.of = d /\ r.kind = kind THEN [r EXCEPT !.status = "published"] ELSE r
<1>1. rows' = {Marked(r) : r \in rows}
  BY DEF Published
<1>2. \A r \in rows : /\ Marked(r) \in Rows
                      /\ Marked(r).of = r.of /\ Marked(r).kind = r.kind /\ Marked(r).tenant = r.tenant
                      /\ Marked(r).community = r.community /\ Marked(r).content = r.content
                      /\ r.status = "published" => Marked(r).status = "published"
                      /\ r.of = d /\ r.kind = kind => Marked(r).status = "published"
  BY DEF IInv, OutboxTypes, Rows
<1> HIDE DEF Marked
<1>3. \A r \in rows : BuzzEvent(Marked(r)) = BuzzEvent(r)
  BY <1>2 DEF BuzzEvent
<1>4. RowsGrow
  BY <1>1, <1>2, <1>3 DEF RowsGrow
<1>5. rows' \subseteq Rows
  BY <1>1, <1>2
<1>6. KeysAreUnique'
  BY <1>1, <1>2 DEF IInv, KeysAreUnique
<1>7. TableInv'
  <2>1. ResolutionHasRequest'
    BY <1>1, <1>2 DEF IInv, TableInv, ResolutionHasRequest
  <2> QED
    BY <2>1, <1>4, GrowingKeeps DEF IInv, TableInv
<1>8. EventFor(d, kind) # {} => IsPublished(d, kind)'
  BY <1>1, <1>2 DEF EventFor, IsPublished
<1> QED
  BY <1>4, <1>5, <1>6, <1>7, <1>8

LEMMA MarkPublishedStep ==
  ASSUME IInv, NEW w \in Workers, MarkPublished(w)
  PROVE  IInv' /\ RowsGrow
<1>1. PICK r \in rows : rows' = Published(r.of, r.kind)
  BY DEF MarkPublished
<1> DEFINE d == r.of
           kind == r.kind
<1>2. rows' = Published(d, kind)
  BY <1>1
<1> HIDE DEF d, kind
<1>3. rows' \subseteq Rows /\ KeysAreUnique' /\ TableInv' /\ RowsGrow
  BY <1>2, PublishingRows DEF MarkPublished
<1>4. WorkerInv'
  BY <1>3, LearntStays DEF MarkPublished, IInv, WorkerInv
<1> QED
  BY <1>3, <1>4 DEF MarkPublished, IInv, OutboxTypes

LEMMA CallbackChecks ==
  ASSUME IInv, NEW w \in Workers, CheckRequest(w) \/ CheckResolution(w)
  PROVE  IInv' /\ RowsGrow
<1>1. rows' \subseteq Rows /\ KeysAreUnique' /\ TableInv' /\ RowsGrow
  BY TableStays DEF CheckRequest, CheckResolution
<1>2. CASE Leave(w)
  BY <1>1, <1>2, LeavingWorker DEF IInv, OutboxTypes
<1>3. CASE /\ CheckRequest(w) /\ RequestPublished(call[w].of)
           /\ pc' = [pc EXCEPT ![w] = "resolution"] /\ UNCHANGED call
  <2>1. IsPublished(call[w].of, "REVIEW_REQUEST")
    BY <1>3 DEF RequestPublished, EventFor, IsPublished
  <2>2. Learnt(w)'
    BY <1>3, <2>1 DEF CheckRequest, Learnt, IsPublished, IInv, OutboxTypes
  <2> QED
    BY <1>1, <1>3, <2>2, OneWorkerSteps DEF IInv, OutboxTypes
<1>4. CASE /\ CheckResolution(w) /\ EventFor(call[w].of, "REVIEW_RESOLVED") # {}
           /\ pc' = [pc EXCEPT ![w] = "mark"] /\ UNCHANGED call
  <2>1. IsPublished(call[w].of, "REVIEW_REQUEST")
    BY <1>4 DEF CheckResolution, IInv, WorkerInv, Learnt
  <2>2. Learnt(w)'
    BY <1>4, <2>1 DEF CheckResolution, Learnt, IsPublished, EventFor, IInv, OutboxTypes
  <2> QED
    BY <1>1, <1>4, <2>2, OneWorkerSteps DEF IInv, OutboxTypes
<1> QED
  BY <1>2, <1>3, <1>4 DEF CheckRequest, CheckResolution, Goto

LEMMA MarkResolutionStep ==
  ASSUME IInv, NEW w \in Workers, MarkResolution(w)
  PROVE  IInv' /\ RowsGrow
<1> DEFINE d == call[w].of
<1>1. /\ rows' = Published(d, "REVIEW_RESOLVED") /\ pc' = [pc EXCEPT ![w] = "accept"]
      /\ UNCHANGED <<call, returned, accepted>>
  BY DEF MarkResolution, Goto
<1>2. IsPublished(d, "REVIEW_REQUEST") /\ EventFor(d, "REVIEW_RESOLVED") # {}
  BY DEF MarkResolution, IInv, WorkerInv, Learnt
<1>3. call'[w].of = d
  BY <1>1
<1> HIDE DEF d
<1>4. /\ rows' \subseteq Rows /\ KeysAreUnique' /\ TableInv' /\ RowsGrow
      /\ EventFor(d, "REVIEW_RESOLVED") # {} => \E r \in rows' : r.of = d
            /\ r.kind = "REVIEW_RESOLVED" /\ r.status = "published"
  <2>1. \A e : rows' = Published(e, "REVIEW_RESOLVED") =>
            /\ rows' \subseteq Rows /\ KeysAreUnique' /\ TableInv' /\ RowsGrow
            /\ EventFor(e, "REVIEW_RESOLVED") # {} => \E r \in rows' : r.of = e
                  /\ r.kind = "REVIEW_RESOLVED" /\ r.status = "published"
    BY <1>1, PublishingRows DEF IsPublished
  <2> QED
    BY <1>1, <2>1
<1>5. \E r \in rows' : r.of = d /\ r.kind = "REVIEW_REQUEST" /\ r.status = "published"
  <2>1. \A e : IsPublished(e, "REVIEW_REQUEST") => IsPublished(e, "REVIEW_REQUEST")'
    BY <1>4, GrowingKeeps
  <2> QED
    BY <2>1, <1>2 DEF IsPublished
<1>6. Learnt(w)'
  BY <1>1, <1>2, <1>3, <1>4, <1>5 DEF Learnt, IsPublished, IInv, OutboxTypes
<1> QED
  BY <1>1, <1>4, <1>6, OneWorkerSteps DEF IInv, OutboxTypes

LEMMA AcceptStep ==
  ASSUME IInv, NEW w \in Workers, Accept(w)
  PROVE  IInv' /\ RowsGrow
<1>1. rows' \subseteq Rows /\ KeysAreUnique' /\ RowsGrow
  BY UnchangedGrows DEF Accept, IInv, OutboxTypes, KeysAreUnique
<1>2. \A kind \in Kinds : IsPublished(call[w].of, kind)
  BY DEF Accept, IInv, WorkerInv, Learnt, Kinds
<1>3. TableInv'
  BY <1>2 DEF Accept, IInv, TableInv, ResolutionHasRequest, IsPublished
<1> QED
  BY <1>1, <1>3, LeavingWorker DEF Accept, IInv, OutboxTypes

------------------------------------------------------------------------------
LEMMA NextStep ==
  ASSUME IInv, [Next]_vars
  PROVE  IInv' /\ RowsGrow
<1>1. CASE UNCHANGED vars
  <2>1. rows' \subseteq Rows /\ KeysAreUnique' /\ TableInv' /\ RowsGrow
    BY <1>1, TableStays DEF vars
  <2>2. WorkerInv'
    BY <1>1, <2>1, LearntStays DEF vars, IInv, WorkerInv
  <2> QED
    BY <1>1, <2>1, <2>2 DEF vars, IInv, OutboxTypes
<1>2. CASE Next
  BY <1>2, CallStep, LookupStep, ReadTenantStep, InsertStep, ReturnEventStep, GivingUpStep,
     MarkPublishedStep, CallbackChecks, MarkResolutionStep, AcceptStep DEF Next, Step
<1> QED
  BY <1>1, <1>2

\* The invariant holds always.
LEMMA OutboxInvariant == Spec => []IInv
<1>1. IInv /\ [Next]_vars => IInv'
  BY NextStep
<1> QED
  BY OutboxInit, <1>1, PTL DEF Spec

\* All callers of the enqueues of one review and kind were handed the event
\* that is stored, however their look-ups and inserts interleave and fail.
THEOREM AllGetOneEvent == Spec => []OneEventForAll
<1>1. IInv => OneEventForAll
  <2> SUFFICES ASSUME IInv, NEW e \in returned
               PROVE  /\ EventFor(e.of, e.kind) # {}
                      /\ \A r \in EventFor(e.of, e.kind) : BuzzEvent(r) = e
    BY DEF OneEventForAll
  <2>1. PICK q \in rows : BuzzEvent(q) = e
    BY DEF IInv, TableInv
  <2>2. q.of = e.of /\ q.kind = e.kind
    BY <2>1 DEF BuzzEvent
  <2> QED
    BY <2>1, <2>2 DEF EventFor, IInv, KeysAreUnique
<1> QED
  BY <1>1, OutboxInvariant, PTL

\* A resolution is only in the outbox of a tenant that has the review.
THEOREM ResolutionsHaveRequests == Spec => []ResolutionHasRequest
<1>1. IInv => ResolutionHasRequest
  BY DEF IInv, TableInv
<1> QED
  BY <1>1, OutboxInvariant, PTL

\* A callback is accepted only of a review that the relay was given, and both
\* its rows are published.
THEOREM AcceptedWasRelayed == Spec => []AcceptedIsRelayed
<1>1. IInv => AcceptedIsRelayed
  BY DEF IInv, TableInv, AcceptedIsRelayed, IsPublished, EventFor
<1> QED
  BY <1>1, OutboxInvariant, PTL

\* No step makes a published row pending again, loses a row or rewrites one.
THEOREM RelayedOnce == Spec => NothingIsRelayedTwice
<1> DEFINE Kept ==
      \A r \in rows :
         /\ \E q \in rows' : BuzzEvent(q) = BuzzEvent(r)
         /\ r.status = "published" =>
              \A q \in rows' : q.of = r.of /\ q.kind = r.kind => q.status = "published"
<1>1. IInv /\ [Next]_vars => [Kept]_vars
  <2> SUFFICES ASSUME IInv, [Next]_vars PROVE Kept
    OBVIOUS
  <2>1. RowsGrow /\ KeysAreUnique'
    BY NextStep DEF IInv
  <2>2. \A r, q : BuzzEvent(q) = BuzzEvent(r) => q.of = r.of /\ q.kind = r.kind
    BY DEF BuzzEvent
  <2> QED
    BY <2>1, <2>2 DEF RowsGrow, KeysAreUnique
<1> QED
  BY <1>1, OutboxInvariant, PTL DEF Spec, NothingIsRelayedTwice
==============================================================================
