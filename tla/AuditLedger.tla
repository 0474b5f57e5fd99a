----------------------------- MODULE AuditLedger -----------------------------
(***************************************************************************)
(* AuditLedger (src/lossbench/ledger/store.py): threads that append to one *)
(* ledger file through one or more handles (AuditLedger objects) of a      *)
(* process.                                                                *)
(*                                                                         *)
(* A handle is a DuckDB connection and a lock; the lock is per handle, so  *)
(* two handles on one file are kept apart by the database alone.  append() *)
(* is followed statement by statement.  DuckDB is external and modelled    *)
(* by what append() uses of it: a transaction reads the snapshot it began  *)
(* on and its own writes; PRIMARY KEY and UNIQUE are checked against       *)
(* committed rows when a row is inserted and again at COMMIT; a COMMIT     *)
(* that fails has rolled back; a statement that fails in a transaction     *)
(* leaves it aborted until ROLLBACK; BEGIN inside a transaction raises.    *)
(* The readers (get, read_all, verify, ...) take no lock and run on the    *)
(* handle's connection: they see View(h), inside any open transaction.     *)
(***************************************************************************)
EXTENDS LedgerChain

CONSTANTS Handles,        \* AuditLedger objects on one ledger file
          Threads,        \* threads that call append()
          Interruptible,  \* threads a KeyboardInterrupt may be raised in
          NoThread        \* the owner of a free lock

ASSUME ThreadAssumption == Interruptible \subseteq Threads /\ NoThread \notin Threads
ASSUME HandlesNonEmpty == Handles # {} /\ Threads # {}

VARIABLES events,    \* the committed rows: what the ledger file holds
          lock,      \* owner of each handle's _lock
          txn,       \* the transaction on each handle's connection
          pc,        \* where each thread is in append()
          call,      \* the thread's handle, event and local variables
          result,    \* how the thread's last append() ended
          acked      \* <<event, head>> of the appends that returned

vars == <<events, lock, txn, pc, call, result, acked>>

NoTxn == [status |-> "none", snap |-> {}, own |-> {}]

\* Mutant: READ UNCOMMITTED, every handle's open rows are visible.
ViewUncommitted(h) == events \union UNION {txn[g].own : g \in Handles}

\* The rows a statement on h's connection sees.
View(h) == IF txn[h].status = "none" THEN events
           ELSE txn[h].snap \union txn[h].own

\* Locals of a thread before its first call.
NoCall == [handle |-> CHOOSE h \in Handles : TRUE,
           event |-> CHOOSE e \in Events : TRUE, seq |-> 0, prev |-> GENESIS]

Init ==
    /\ events = {}
    /\ lock = [h \in Handles |-> NoThread]
    /\ txn = [h \in Handles |-> NoTxn]
    /\ pc = [t \in Threads |-> "idle"]
    /\ call = [t \in Threads |-> NoCall]
    /\ result = [t \in Threads |-> "none"]
    /\ acked = {}

------------------------------------------------------------------------------
Goto(t, label) == pc' = [pc EXCEPT ![t] = label]

\* Mutant: append() without `with self._lock`.
LockIgnored(h) == TRUE

LockFree(h) == lock[h] = NoThread

\* Leaving the with block, by return or by exception, releases the lock.
Leave(t, how) ==
    /\ Goto(t, "idle")
    /\ result' = [result EXCEPT ![t] = how]
    /\ lock' = [lock EXCEPT ![call[t].handle] = NoThread]

\* A statement inside the try raises: the except clause is next.
Raise(t, how) ==
    /\ Goto(t, "rollback")
    /\ result' = [result EXCEPT ![t] = how]
    /\ UNCHANGED lock

\* append(event) is called on a handle.
CallAppend(t) ==
    /\ pc[t] = "idle"
    /\ \E h \in Handles, e \in Events :
         call' = [call EXCEPT ![t] = [handle |-> h, event |-> e, seq |-> 0, prev |-> GENESIS]]
    /\ Goto(t, "lock")
    /\ result' = [result EXCEPT ![t] = "none"]
    /\ UNCHANGED <<events, lock, txn, acked>>

Acquire(t) ==
    /\ pc[t] = "lock"
    /\ LockFree(call[t].handle)
    /\ lock' = [lock EXCEPT ![call[t].handle] = t]
    /\ Goto(t, "begin")
    /\ UNCHANGED <<events, txn, call, result, acked>>

\* BEGIN TRANSACTION.
BeginTransaction(t) ==
    LET h == call[t].handle IN
    /\ pc[t] = "begin"
    /\ txn[h].status = "none"
    /\ txn' = [txn EXCEPT ![h] = [status |-> "open", snap |-> events, own |-> {}]]
    /\ Goto(t, "exists")
    /\ UNCHANGED <<events, lock, call, result, acked>>

\* BEGIN raises outside the try when an interrupted append left its
\* transaction behind; the failed statement may abort that transaction.
BeginRefused(t) ==
    LET h == call[t].handle IN
    /\ pc[t] = "begin"
    /\ txn[h].status # "none"
    /\ \E status \in {txn[h].status, "aborted"} :
         txn' = [txn EXCEPT ![h].status = status]
    /\ Leave(t, "refused")
    /\ UNCHANGED <<events, call, acked>>

\* SELECT 1 FROM events WHERE event_id = ?, and the ValueError.
CheckExists(t) ==
    /\ pc[t] = "exists"
    /\ IF \E r \in View(call[t].handle) : r.event.id = call[t].event.id
       THEN Raise(t, "duplicate")
       ELSE Goto(t, "head") /\ UNCHANGED <<lock, result>>
    /\ UNCHANGED <<events, txn, call, acked>>

\* MAX(seq), then the chain_hash of that row: one snapshot serves both.
ReadHead(t) ==
    LET view == View(call[t].handle)
        next == MaxSeq(view) + 1
    IN
    /\ pc[t] = "head"
    /\ call' = [call EXCEPT ![t].seq = next, ![t].prev = PrevHash(view, next)]
    /\ Goto(t, "insert")
    /\ UNCHANGED <<events, lock, txn, result, acked>>

\* INSERT INTO events.
Insert(t) ==
    LET h   == call[t].handle
        row == NewRow(call[t].event, call[t].seq, call[t].prev)
    IN
    /\ pc[t] = "insert"
    /\ IF Violates(row, events)
       THEN /\ txn' = [txn EXCEPT ![h].status = "aborted"]
            /\ Raise(t, "conflict")
       ELSE /\ txn' = [txn EXCEPT ![h].own = {row}]
            /\ Goto(t, "commit")
            /\ UNCHANGED <<lock, result>>
    /\ UNCHANGED <<events, call, acked>>

\* COMMIT: the rows become durable, or a row another handle committed since
\* the snapshot collides and the transaction is rolled back by the database.
Commit(t) ==
    LET h == call[t].handle IN
    /\ pc[t] = "commit"
    /\ txn' = [txn EXCEPT ![h] = NoTxn]
    /\ IF \E row \in txn[h].own : Violates(row, events)
       THEN /\ Raise(t, "conflict")
            /\ UNCHANGED events
       ELSE /\ events' = events \union txn[h].own
            /\ Goto(t, "return")
            /\ UNCHANGED <<lock, result>>
    /\ UNCHANGED <<call, acked>>

\* except: ROLLBACK (which raises too when COMMIT has already rolled back).
Rollback(t) ==
    /\ pc[t] = "rollback"
    /\ txn' = [txn EXCEPT ![call[t].handle] = NoTxn]
    /\ Leave(t, result[t])
    /\ UNCHANGED <<events, call, acked>>

\* Mutant: append() returns the head its event was linked to.
HeadBeforeAppend(t) == call[t].prev

\* The head that append() returns.
HeadReturned(t) == ChainHash(call[t].event, call[t].prev)

\* return chain_hash.
ReturnHead(t) ==
    /\ pc[t] = "return"
    /\ acked' = acked \union {<<call[t].event, HeadReturned(t)>>}
    /\ Leave(t, "ok")
    /\ UNCHANGED <<events, txn, call>>

\* KeyboardInterrupt is no Exception: the with block releases the lock and
\* the except clause does not run, so an open transaction stays open.
Interrupt(t) ==
    /\ t \in Interruptible
    /\ pc[t] \notin {"idle", "lock"}
    /\ Leave(t, "interrupted")
    /\ UNCHANGED <<events, txn, call, acked>>

\* The process dies and is started again: only committed rows are left.
Crash ==
    /\ \E t \in Threads : pc[t] # "idle"
    /\ lock' = [h \in Handles |-> NoThread]
    /\ txn' = [h \in Handles |-> NoTxn]
    /\ pc' = [t \in Threads |-> "idle"]
    /\ call' = [t \in Threads |-> NoCall]
    /\ result' = [t \in Threads |-> "none"]
    /\ UNCHANGED <<events, acked>>

\* The steps of append() once it is called.
Step(t) ==
    \/ Acquire(t)
    \/ BeginTransaction(t)
    \/ BeginRefused(t)
    \/ CheckExists(t)
    \/ ReadHead(t)
    \/ Insert(t)
    \/ Commit(t)
    \/ Rollback(t)
    \/ ReturnHead(t)

Next ==
    \/ \E t \in Threads : CallAppend(t) \/ Step(t) \/ Interrupt(t)
    \/ Crash

Spec == Init /\ [][Next]_vars

------------------------------------------------------------------------------
Labels == {"idle", "lock", "begin", "exists", "head", "insert", "commit",
           "rollback", "return"}
Results == {"none", "ok", "duplicate", "conflict", "refused", "interrupted"}

\* The variables have the types of the code's values.
TypeOK ==
    /\ events \in SUBSET Rows
    /\ lock \in [Handles -> Threads \union {NoThread}]
    /\ txn \in [Handles -> [status : {"none", "open", "aborted"},
                            snap : SUBSET Rows, own : SUBSET Rows]]
    /\ pc \in [Threads -> Labels]
    /\ call \in [Threads -> [handle : Handles, event : Events,
                             seq : Nat, prev : Hashes]]
    /\ result \in [Threads -> Results]
    /\ acked \in SUBSET (Events \X Hashes)

\* A set of rows is one unbroken chain: seq counts 1, 2, ... without a gap,
\* no seq or event_id occurs twice, every row is linked to the row before it
\* and carries the hash of its own content.
Chained(rows) ==
    /\ MaxSeq(rows) \in Nat
    /\ {r.seq : r \in rows} = 1 .. MaxSeq(rows)
    /\ \A r, q \in rows : r.seq = q.seq \/ r.event.id = q.event.id => r = q
    /\ \A r \in rows : /\ r.prev = PrevHash(rows, r.seq)
                       /\ r.hash = ChainHash(r.event, r.prev)

\* Whatever the handles, threads, interrupts and crashes, the ledger file
\* holds one unbroken chain (the module docstring: interleaved writers fail
\* "instead of corrupting the chain").
ChainIntact == Chained(events)

\* An append that returned has its event in the file under the head it
\* returned, also after a crash or a later failed append.
AckedIsStored ==
    \A a \in acked : \E r \in events : r.event = a[1] /\ r.hash = a[2]

\* An append refused with "event_id already exists" names an event that is
\* committed: a caller that treats the refusal as a completed retry (the 409
\* of server/app.py) loses nothing.
DuplicateIsStored ==
    \A t \in Threads : result[t] = "duplicate" =>
        \E r \in events : r.event.id = call[t].event.id

\* Under the lock no append fails because of another one on its handle: a
\* constraint only fails when the file has grown behind the transaction, which
\* takes a commit through another handle, and BEGIN is only refused when no
\* other thread is at work on the handle, by a transaction an interrupt left.
FailuresComeFromOutside ==
    [][\A t \in Threads :
         LET h == call[t].handle
             FailsBy(how) == result[t] # how /\ result'[t] = how
         IN  /\ FailsBy("conflict") => txn[h].snap # events
             /\ FailsBy("refused") =>
                  \A s \in Threads \ {t} : pc[s] \in {"idle", "lock"} \/ call[s].handle # h]_vars

\* Through one handle the lock alone suffices: an append on a handle that has
\* the file to itself, in a process nobody interrupts, never meets another's
\* transaction or a constraint; it ends with the head or with "already exists".
OneHandleNeverFails ==
    (\A g, h \in Handles : g = h) /\ Interruptible = {} =>
        \A t \in Threads : result[t] \notin {"conflict", "refused"}

\* A handle is at work on one append at a time: the statements of two appends
\* never mix in one transaction.
OneAppendPerHandle ==
    \A s, t \in Threads :
        /\ pc[s] \notin {"idle", "lock"} /\ pc[t] \notin {"idle", "lock"}
        /\ call[s].handle = call[t].handle
        => s = t

------------------------------------------------------------------------------
(***************************************************************************)
(* The inductive invariant behind ChainIntact and AckedIsStored.           *)
(***************************************************************************)
\* Committed rows only gather after those of a snapshot.
IsPrefix(snap, rows) ==
    /\ snap \subseteq rows
    /\ \A r \in rows : r.seq <= MaxSeq(snap) => r \in snap

\* The thread's row is the next row of its transaction's snapshot.
Continues(t, snap) ==
    /\ call[t].seq = MaxSeq(snap) + 1
    /\ call[t].prev = PrevHash(snap, call[t].seq)

RowOf(t) == NewRow(call[t].event, call[t].seq, call[t].prev)

\* A thread past "lock" owns its handle's lock, and what its program counter
\* says of the transaction on the handle holds.
ThreadInv(t) ==
    LET h == call[t].handle IN
    /\ pc[t] \notin {"idle", "lock"} => lock[h] = t
    /\ pc[t] \in {"exists", "head", "insert", "commit"} => txn[h].status = "open"
    /\ pc[t] \in {"exists", "head", "insert"} => txn[h].own = {}
    /\ pc[t] \in {"insert", "commit"} => Continues(t, txn[h].snap)
    /\ pc[t] = "commit" => txn[h].own = {RowOf(t)}
    /\ pc[t] = "return" => RowOf(t) \in events

IInv ==
    /\ TypeOK
    /\ Chained(events)
    /\ \A h \in Handles : Chained(txn[h].snap) /\ IsPrefix(txn[h].snap, events)
    /\ \A t \in Threads : ThreadInv(t)
    /\ AckedIsStored
    /\ DuplicateIsStored

------------------------------------------------------------------------------
\* The ledger file implements the abstract log: the log is the events in the
\* order of their seq, the heads are those handed back.
Log == INSTANCE AppendOnlyLog WITH
         LogEvents <- Events,
         log <- [n \in 1 .. MaxSeq(events) |-> RowWith(events, n).event],
         returned <- {a[2] : a \in acked}

ImplementsLog == Log!LogSpec
==============================================================================
