-------------------------- MODULE AuditLedgerProofs --------------------------
(***************************************************************************)
(* Proofs about AuditLedger: the ledger file holds one unbroken chain, and *)
(* an append that returned is stored in it, for any number of threads,     *)
(* handles and events, interrupts and crashes included; an append fails    *)
(* only by a commit through another handle or by an interrupt, and through *)
(* one handle without interrupts it meets no conflict; and the ledger      *)
(* implements AppendOnlyLog: a COMMIT that succeeds is the abstract Store, *)
(* the return of append() is the abstract Return, and every other step, a  *)
(* crash included, is invisible.                                           *)
(***************************************************************************)
EXTENDS AuditLedger, SequenceTheorems, TLAPS

LEMMA EmptyChain == Chained({}) /\ MaxSeq({}) = 0
<1>1. MaxSeq({}) = 0
  BY DEF MaxSeq
<1>2. {r.seq : r \in {}} = 1 .. 0
  OBVIOUS
<1> QED
  BY <1>1, <1>2 DEF Chained

\* The greatest seq is m when the seqs of the rows are 1, 2, ..., m.
LEMMA MaxSeqIs ==
  ASSUME NEW rows \in SUBSET Rows, NEW m \in Nat, {r.seq : r \in rows} = 1 .. m
  PROVE  MaxSeq(rows) = m
<1>1. CASE m = 0
  <2>1. \A r \in rows : r.seq \in 1 .. m
    OBVIOUS
  <2>2. rows = {}
    BY <1>1, <2>1
  <2> QED
    BY <2>2, <1>1 DEF MaxSeq
<1>2. CASE m # 0
  <2>1. m \in 1 .. m
    BY <1>2
  <2>2. PICK top \in rows : top.seq = m
    BY <2>1
  <2>3. \A q \in rows : q.seq \in 1 .. m
    OBVIOUS
  <2>4. \A q \in rows : q.seq <= top.seq
    BY <2>2, <2>3
  <2> DEFINE max == CHOOSE r \in rows : \A q \in rows : q.seq <= r.seq
  <2>5. max \in rows /\ \A q \in rows : q.seq <= max.seq
    BY <2>2, <2>4
  <2>6. max.seq = m
    BY <2>2, <2>3, <2>5
  <2> QED
    BY <2>2, <2>6 DEF MaxSeq
<1> QED
  BY <1>1, <1>2

\* A new event's row put after the last row of a chain leaves a chain.
LEMMA ChainExtends ==
  ASSUME NEW rows \in SUBSET Rows, Chained(rows),
         NEW e \in Events,
         NEW row \in Rows,
         row = NewRow(e, MaxSeq(rows) + 1, PrevHash(rows, MaxSeq(rows) + 1)),
         \A r \in rows : r.event.id # e.id
  PROVE  /\ Chained(rows \union {row})
         /\ MaxSeq(rows \union {row}) = MaxSeq(rows) + 1
<1> DEFINE all == rows \union {row}
           m == MaxSeq(rows)
<1>1. m \in Nat /\ {r.seq : r \in rows} = 1 .. m
  BY DEF Chained
<1>2. row.seq = m + 1 /\ row.event = e
  BY DEF NewRow
<1>3. {r.seq : r \in all} = 1 .. (m + 1)
  <2>1. {r.seq : r \in all} = {r.seq : r \in rows} \union {row.seq}
    OBVIOUS
  <2> QED
    BY <1>1, <1>2, <2>1
<1>4. MaxSeq(all) = m + 1
  BY <1>1, <1>3, MaxSeqIs
<1>5. \A r \in rows : r.seq \in 1 .. m
  BY <1>1
<1>6. \A r, q \in all : r.seq = q.seq \/ r.event.id = q.event.id => r = q
  BY <1>1, <1>2, <1>5 DEF Chained
<1>7. ASSUME NEW n \in 1 .. m
      PROVE  RowWith(all, n) = RowWith(rows, n)
  <2>1. PICK r \in rows : r.seq = n
    BY <1>1
  <2>2. RowWith(rows, n) = r
    BY <2>1 DEF RowWith, Chained
  <2>3. RowWith(all, n) = r
    BY <2>1, <1>6 DEF RowWith
  <2> QED
    BY <2>2, <2>3
<1>8. ASSUME NEW n \in 1 .. (m + 1)
      PROVE  PrevHash(all, n) = PrevHash(rows, n)
  <2>1. CASE n = 1
    BY <2>1 DEF PrevHash
  <2>2. CASE n # 1
    <3>1. n - 1 \in 1 .. m
      BY <1>1, <2>2
    <3>2. RowWith(all, n - 1) = RowWith(rows, n - 1)
      BY <3>1, <1>7
    <3> QED
      BY <3>2, <2>2 DEF PrevHash
  <2> QED
    BY <2>1, <2>2
<1>9. \A r \in all : r.prev = PrevHash(all, r.seq) /\ r.hash = ChainHash(r.event, r.prev)
  <2>1. row.prev = PrevHash(rows, m + 1) /\ row.hash = ChainHash(row.event, row.prev)
    BY DEF NewRow
  <2>2. \A r \in rows : /\ r.prev = PrevHash(rows, r.seq)
                         /\ r.hash = ChainHash(r.event, r.prev)
    BY DEF Chained
  <2>3. \A r \in all : r.seq \in 1 .. (m + 1)
    BY <1>1, <1>2, <1>5
  <2>4. \A r \in all : PrevHash(all, r.seq) = PrevHash(rows, r.seq)
    BY <2>3, <1>8
  <2>5. PrevHash(all, row.seq) = row.prev
    BY <1>2, <2>1, <2>4
  <2> QED
    BY <2>1, <2>2, <2>4, <2>5
<1>10. Chained(all)
  <2>1. MaxSeq(all) \in Nat
    BY <1>1, <1>4
  <2>2. {r.seq : r \in all} = 1 .. MaxSeq(all)
    BY <1>3, <1>4
  <2> QED
    BY <2>1, <2>2, <1>6, <1>9 DEF Chained
<1> QED
  BY <1>4, <1>10

\* A snapshot to whose end no row was added since is the whole table.
LEMMA SnapshotIsCurrent ==
  ASSUME NEW rows \in SUBSET Rows, NEW snap \in SUBSET Rows,
         Chained(rows), Chained(snap), IsPrefix(snap, rows),
         \A r \in rows : r.seq # MaxSeq(snap) + 1
  PROVE  snap = rows
<1>1. /\ MaxSeq(rows) \in Nat /\ {r.seq : r \in rows} = 1 .. MaxSeq(rows)
      /\ MaxSeq(snap) \in Nat /\ {r.seq : r \in snap} = 1 .. MaxSeq(snap)
  BY DEF Chained
<1>2. MaxSeq(snap) + 1 \notin 1 .. MaxSeq(rows)
  BY <1>1
<1>3. \A r \in rows : r.seq \in 1 .. MaxSeq(rows)
  BY <1>1
<1>4. \A r \in rows : r.seq <= MaxSeq(snap)
  BY <1>1, <1>2, <1>3
<1> QED
  BY <1>4 DEF IsPrefix

\* Rows added at the end of the table leave a prefix a prefix.
LEMMA PrefixStays ==
  ASSUME NEW rows \in SUBSET Rows, NEW snap \in SUBSET Rows,
         Chained(rows), Chained(snap), IsPrefix(snap, rows),
         NEW row \in Rows, row.seq = MaxSeq(rows) + 1
  PROVE  IsPrefix(snap, rows \union {row})
<1>1. /\ MaxSeq(rows) \in Nat /\ {r.seq : r \in rows} = 1 .. MaxSeq(rows)
      /\ MaxSeq(snap) \in Nat /\ {r.seq : r \in snap} = 1 .. MaxSeq(snap)
  BY DEF Chained
<1>2. MaxSeq(snap) <= MaxSeq(rows)
  <2>1. {r.seq : r \in snap} \subseteq {r.seq : r \in rows}
    BY DEF IsPrefix
  <2>2. CASE MaxSeq(snap) = 0
    BY <1>1, <2>2
  <2>3. CASE MaxSeq(snap) # 0
    <3>1. MaxSeq(snap) \in 1 .. MaxSeq(snap)
      BY <1>1, <2>3
    <3>2. MaxSeq(snap) \in 1 .. MaxSeq(rows)
      BY <1>1, <2>1, <3>1
    <3> QED
      BY <1>1, <3>2
  <2> QED
    BY <2>2, <2>3
<1> QED
  BY <1>1, <1>2 DEF IsPrefix

LEMMA PrefixOfItself ==
  ASSUME NEW rows PROVE IsPrefix(rows, rows)
BY DEF IsPrefix

LEMMA EmptyIsPrefix ==
  ASSUME NEW rows \in SUBSET Rows PROVE IsPrefix({}, rows)
<1>1. \A r \in rows : r.seq \in Nat \ {0}
  BY DEF Rows
<1> QED
  BY <1>1, EmptyChain DEF IsPrefix

\* PrevHash of a chain is a hash.
LEMMA PrevHashType ==
  ASSUME NEW rows \in SUBSET Rows, Chained(rows)
  PROVE  PrevHash(rows, MaxSeq(rows) + 1) \in Hashes
<1>1. MaxSeq(rows) \in Nat /\ {r.seq : r \in rows} = 1 .. MaxSeq(rows)
  BY DEF Chained
<1>2. CASE MaxSeq(rows) = 0
  BY <1>2 DEF PrevHash, GENESIS, Hashes
<1>3. CASE MaxSeq(rows) # 0
  <2>1. MaxSeq(rows) \in 1 .. MaxSeq(rows)
    BY <1>1, <1>3
  <2>2. PICK r \in rows : r.seq = MaxSeq(rows)
    BY <1>1, <2>1
  <2>3. RowWith(rows, MaxSeq(rows)) \in rows
    BY <2>2 DEF RowWith
  <2>4. \A q \in rows : q.hash \in Hashes
    BY DEF Rows
  <2>5. PrevHash(rows, MaxSeq(rows) + 1) = RowWith(rows, MaxSeq(rows)).hash
    BY <1>1, <1>3 DEF PrevHash
  <2> QED
    BY <2>3, <2>4, <2>5
<1> QED
  BY <1>1, <1>2, <1>3

LEMMA RowType ==
  ASSUME NEW e \in Events, NEW n \in Nat \ {0}, NEW prev \in Hashes
  PROVE  NewRow(e, n, prev) \in Rows
<1>1. ChainHash(e, prev) \in Hashes
  BY DEF ChainHash, Hashes
<1> QED
  BY <1>1 DEF NewRow, Rows

------------------------------------------------------------------------------
USE ConstantsNonEmpty, ThreadAssumption, HandlesNonEmpty

LEMMA NoCallType == NoCall \in [handle : Handles, event : Events, seq : Nat, prev : Hashes]
<1>1. PICK i \in EventIds, b \in Bodies : TRUE
  OBVIOUS
<1>2. [id |-> i, body |-> b] \in Events
  BY DEF Events
<1> QED
  BY <1>2 DEF NoCall, GENESIS, Hashes

LEMMA InitIInv == Init => IInv
<1> SUFFICES ASSUME Init PROVE IInv
  OBVIOUS
<1>1. TypeOK
  BY NoCallType DEF Init, TypeOK, NoTxn, Labels, Results
<1>2. Chained(events)
  BY EmptyChain DEF Init
<1>3. \A h \in Handles : Chained(txn[h].snap) /\ IsPrefix(txn[h].snap, events)
  BY EmptyChain, PrefixOfItself DEF Init, NoTxn
<1>4. \A t \in Threads : ThreadInv(t)
  BY DEF Init, ThreadInv
<1>5. AckedIsStored /\ DuplicateIsStored
  BY DEF Init, AckedIsStored, DuplicateIsStored
<1> QED
  BY <1>1, <1>2, <1>3, <1>4, <1>5 DEF IInv

\* Two threads past "lock" are on different handles.
LEMMA HandlesDiffer ==
  ASSUME IInv, NEW s \in Threads, NEW t \in Threads, s # t,
         pc[s] \notin {"idle", "lock"}, pc[t] \notin {"idle", "lock"}
  PROVE  call[s].handle # call[t].handle
BY DEF IInv, ThreadInv

\* A thread that does not move keeps its invariant when its handle is left
\* alone and no committed row is taken away.
LEMMA Undisturbed ==
  ASSUME NEW s \in Threads, ThreadInv(s),
         pc'[s] = pc[s], call'[s] = call[s], events \subseteq events',
         pc[s] \notin {"idle", "lock"} =>
            /\ lock'[call[s].handle] = lock[call[s].handle]
            /\ txn'[call[s].handle] = txn[call[s].handle]
  PROVE  ThreadInv(s)'
<1> DEFINE h == call[s].handle
<1>1. CASE pc[s] \in {"idle", "lock"}
  BY <1>1 DEF ThreadInv
<1>2. CASE pc[s] \notin {"idle", "lock"}
  <2>1. lock'[h] = lock[h] /\ txn'[h] = txn[h]
    BY <1>2
  <2>2. RowOf(s)' = RowOf(s)
    BY DEF RowOf, NewRow
  <2>3. Continues(s, txn[h].snap)' <=> Continues(s, txn[h].snap)
    BY <2>1 DEF Continues
  <2> QED
    BY <1>2, <2>1, <2>2, <2>3 DEF ThreadInv
<1> QED
  BY <1>1, <1>2

\* What was stored stays stored.
LEMMA StoredStays ==
  ASSUME IInv, events \subseteq events', acked' = acked
  PROVE  AckedIsStored'
BY DEF IInv, AckedIsStored

\* Steps that leave events, the snapshots and acked alone keep the parts of
\* the invariant about them.
LEMMA SameRows ==
  ASSUME IInv, events' = events, txn' = txn \/ (\A h \in Handles : txn'[h].snap = txn[h].snap)
  PROVE  /\ Chained(events)'
         /\ \A h \in Handles : Chained(txn'[h].snap) /\ IsPrefix(txn'[h].snap, events')
<1>1. \A h \in Handles : txn'[h].snap = txn[h].snap
  OBVIOUS
<1> QED
  BY <1>1 DEF IInv

\* The steps of one thread t that leave every other thread's handle alone.
LEMMA OthersUndisturbed ==
  ASSUME IInv, NEW t \in Threads, pc[t] \notin {"idle", "lock"},
         \A s \in Threads \ {t} : pc'[s] = pc[s] /\ call'[s] = call[s],
         \A h \in Handles \ {call[t].handle} : lock'[h] = lock[h] /\ txn'[h] = txn[h],
         events \subseteq events'
  PROVE  \A s \in Threads \ {t} : ThreadInv(s)'
<1> TAKE s \in Threads \ {t}
<1>1. ThreadInv(s) /\ call[s].handle \in Handles
  BY DEF IInv, TypeOK
<1>2. pc[s] \notin {"idle", "lock"} => call[s].handle # call[t].handle
  BY HandlesDiffer
<1> QED
  BY <1>1, <1>2, Undisturbed

LEMMA CallAppendInv ==
  ASSUME IInv, NEW t \in Threads, CallAppend(t)
  PROVE  IInv'
<1> USE DEF CallAppend, Goto
<1>1. TypeOK'
  BY DEF IInv, TypeOK, Labels, Results, GENESIS, Hashes
<1>2. Chained(events)' /\ \A h \in Handles : Chained(txn'[h].snap) /\ IsPrefix(txn'[h].snap, events')
  BY SameRows
<1>3. \A s \in Threads : ThreadInv(s)'
  <2> TAKE s \in Threads
  <2>1. CASE s = t
    BY <2>1 DEF ThreadInv, IInv, TypeOK
  <2>2. CASE s # t
    BY <2>2, Undisturbed DEF IInv, TypeOK
  <2> QED
    BY <2>1, <2>2
<1>4. AckedIsStored'
  BY StoredStays
<1>5. DuplicateIsStored'
  BY DEF IInv, TypeOK, DuplicateIsStored
<1> QED
  BY <1>1, <1>2, <1>3, <1>4, <1>5 DEF IInv

LEMMA AcquireInv ==
  ASSUME IInv, NEW t \in Threads, Acquire(t)
  PROVE  IInv'
<1> USE DEF Acquire, Goto, LockFree
<1>1. TypeOK'
  BY DEF IInv, TypeOK, Labels
<1>2. Chained(events)' /\ \A h \in Handles : Chained(txn'[h].snap) /\ IsPrefix(txn'[h].snap, events')
  BY SameRows
<1>3. \A s \in Threads : ThreadInv(s)'
  <2> TAKE s \in Threads
  <2>1. CASE s = t
    BY <2>1 DEF ThreadInv, IInv, TypeOK
  <2>2. CASE s # t
    <3>1. pc[s] \notin {"idle", "lock"} => call[s].handle # call[t].handle
      BY DEF IInv, ThreadInv
    <3>2. call[s].handle \in Handles
      BY DEF IInv, TypeOK
    <3> QED
      BY <2>2, <3>1, <3>2, Undisturbed DEF IInv, TypeOK
  <2> QED
    BY <2>1, <2>2
<1>4. AckedIsStored'
  BY StoredStays
<1>5. DuplicateIsStored'
  BY DEF IInv, TypeOK, DuplicateIsStored
<1> QED
  BY <1>1, <1>2, <1>3, <1>4, <1>5 DEF IInv

LEMMA BeginTransactionInv ==
  ASSUME IInv, NEW t \in Threads, BeginTransaction(t)
  PROVE  IInv'
<1> USE DEF BeginTransaction, Goto
<1>0. call[t].handle \in Handles
  BY DEF IInv, TypeOK
<1>1. TypeOK'
  BY <1>0 DEF IInv, TypeOK, Labels
<1>2. Chained(events)'
  BY DEF IInv
<1>3. \A h \in Handles : Chained(txn'[h].snap) /\ IsPrefix(txn'[h].snap, events')
  <2> TAKE h \in Handles
  <2>1. CASE h = call[t].handle
    <3>1. txn'[h].snap = events
      BY <2>1 DEF IInv, TypeOK
    <3> QED
      BY <3>1, PrefixOfItself DEF IInv
  <2>2. CASE h # call[t].handle
    <3>1. txn'[h] = txn[h]
      BY <2>2 DEF IInv, TypeOK
    <3> QED
      BY <3>1 DEF IInv
  <2> QED
    BY <2>1, <2>2
<1>4. \A s \in Threads : ThreadInv(s)'
  <2>1. ThreadInv(t)'
    BY <1>0 DEF ThreadInv, IInv, TypeOK
  <2>2. \A s \in Threads \ {t} : ThreadInv(s)'
    BY OthersUndisturbed DEF IInv, TypeOK
  <2> QED
    BY <2>1, <2>2
<1>5. AckedIsStored'
  BY StoredStays
<1>6. DuplicateIsStored'
  BY DEF IInv, TypeOK, DuplicateIsStored
<1> QED
  BY <1>1, <1>2, <1>3, <1>4, <1>5, <1>6 DEF IInv

\* Leaving append(): the thread is idle, only its handle's lock changes.
LEMMA LeaveInv ==
  ASSUME IInv, NEW t \in Threads, NEW how \in Results, Leave(t, how),
         how = "duplicate" => result[t] = "duplicate",
         pc[t] \notin {"idle", "lock"},
         txn' \in [Handles -> [status : {"none", "open", "aborted"},
                              snap : SUBSET Rows, own : SUBSET Rows]],
         \A h \in Handles \ {call[t].handle} : txn'[h] = txn[h],
         txn'[call[t].handle].snap \in {{}, txn[call[t].handle].snap},
         UNCHANGED <<events, call>>, AckedIsStored', acked' \in SUBSET (Events \X Hashes)
  PROVE  IInv'
<1> USE DEF Leave, Goto
<1>1. TypeOK'
  BY DEF IInv, TypeOK, Labels, Results
<1>2. Chained(events)'
  BY DEF IInv
<1>3. \A h \in Handles : Chained(txn'[h].snap) /\ IsPrefix(txn'[h].snap, events')
  <2>1. events \in SUBSET Rows
    BY DEF IInv, TypeOK
  <2> QED
    BY <2>1, EmptyChain, EmptyIsPrefix DEF IInv
<1>4. \A s \in Threads : ThreadInv(s)'
  <2>1. ThreadInv(t)'
    BY DEF ThreadInv, IInv, TypeOK
  <2>2. \A s \in Threads \ {t} : ThreadInv(s)'
    BY OthersUndisturbed DEF IInv, TypeOK
  <2> QED
    BY <2>1, <2>2
<1>5. DuplicateIsStored'
  BY DEF IInv, TypeOK, DuplicateIsStored
<1> QED
  BY <1>1, <1>2, <1>3, <1>4, <1>5 DEF IInv

LEMMA BeginRefusedInv ==
  ASSUME IInv, NEW t \in Threads, BeginRefused(t)
  PROVE  IInv'
<1> DEFINE h == call[t].handle
<1>1. h \in Handles /\ txn[h] \in [status : {"none", "open", "aborted"},
                                   snap : SUBSET Rows, own : SUBSET Rows]
  BY DEF IInv, TypeOK
<1>2. PICK status \in {txn[h].status, "aborted"} : txn' = [txn EXCEPT ![h].status = status]
  BY DEF BeginRefused
<1>3. txn' \in [Handles -> [status : {"none", "open", "aborted"},
                           snap : SUBSET Rows, own : SUBSET Rows]]
  BY <1>1, <1>2 DEF IInv, TypeOK
<1>4. txn'[h].snap = txn[h].snap /\ \A g \in Handles \ {h} : txn'[g] = txn[g]
  BY <1>1, <1>2 DEF IInv, TypeOK
<1>5. AckedIsStored'
  BY StoredStays DEF BeginRefused
<1> QED
  BY <1>3, <1>4, <1>5, LeaveInv DEF BeginRefused, Results, IInv, TypeOK

LEMMA CheckExistsInv ==
  ASSUME IInv, NEW t \in Threads, CheckExists(t)
  PROVE  IInv'
<1> USE DEF CheckExists, Goto, Raise
<1>1. TypeOK'
  BY DEF IInv, TypeOK, Labels, Results
<1>2. Chained(events)' /\ \A h \in Handles : Chained(txn'[h].snap) /\ IsPrefix(txn'[h].snap, events')
  BY SameRows
<1>3. \A s \in Threads : ThreadInv(s)'
  <2>1. ThreadInv(t)'
    BY DEF ThreadInv, IInv, TypeOK
  <2>2. \A s \in Threads \ {t} : ThreadInv(s)'
    BY OthersUndisturbed DEF IInv, TypeOK
  <2> QED
    BY <2>1, <2>2
<1>4. AckedIsStored'
  BY StoredStays
<1>5. DuplicateIsStored'
  <2> DEFINE h == call[t].handle
  <2>1. View(h) \subseteq events
    BY DEF View, IInv, ThreadInv, IsPrefix, TypeOK
  <2> QED
    BY <2>1 DEF IInv, TypeOK, DuplicateIsStored
<1> QED
  BY <1>1, <1>2, <1>3, <1>4, <1>5 DEF IInv

LEMMA ReadHeadInv ==
  ASSUME IInv, NEW t \in Threads, ReadHead(t)
  PROVE  IInv'
<1> USE DEF ReadHead, Goto
<1> DEFINE h == call[t].handle
           snap == txn[h].snap
<1>1. View(h) = snap /\ h \in Handles /\ snap \in SUBSET Rows /\ Chained(snap)
  BY DEF View, IInv, ThreadInv, TypeOK
<1>2. MaxSeq(snap) + 1 \in Nat /\ PrevHash(snap, MaxSeq(snap) + 1) \in Hashes
  BY <1>1, PrevHashType DEF Chained
<1>3. TypeOK'
  BY <1>1, <1>2 DEF IInv, TypeOK, Labels
<1>4. Chained(events)' /\ \A g \in Handles : Chained(txn'[g].snap) /\ IsPrefix(txn'[g].snap, events')
  BY SameRows
<1>5. \A s \in Threads : ThreadInv(s)'
  <2>1. ThreadInv(t)'
    <3>1. pc[t] = "head" /\ pc'[t] = "insert" /\ lock' = lock /\ txn' = txn
      BY DEF IInv, TypeOK
    <3>2. call'[t].handle = h /\ call'[t].seq = MaxSeq(snap) + 1
          /\ call'[t].prev = PrevHash(snap, MaxSeq(snap) + 1)
      BY <1>1 DEF IInv, TypeOK
    <3>3. lock[h] = t /\ txn[h].status = "open" /\ txn[h].own = {}
      BY <3>1 DEF IInv, ThreadInv
    <3> HIDE DEF h, snap, ReadHead
    <3>4. Continues(t, snap)'
      <4>1. snap' = snap
        BY <3>1, <3>2 DEF snap, h
      <4> QED
        BY <3>2, <4>1 DEF Continues
    <3> QED
      BY <3>1, <3>2, <3>3, <3>4 DEF ThreadInv, snap, h
  <2>2. \A s \in Threads \ {t} : ThreadInv(s)'
    BY OthersUndisturbed DEF IInv, TypeOK
  <2> QED
    BY <2>1, <2>2
<1>6. AckedIsStored'
  BY StoredStays
<1>7. DuplicateIsStored'
  BY DEF IInv, TypeOK, DuplicateIsStored
<1> QED
  BY <1>3, <1>4, <1>5, <1>6, <1>7 DEF IInv

\* The row a thread is about to insert is a row.
LEMMA RowOfType ==
  ASSUME IInv, NEW t \in Threads, pc[t] \in {"insert", "commit"}
  PROVE  RowOf(t) \in Rows
<1> DEFINE snap == txn[call[t].handle].snap
<1>1. Continues(t, snap) /\ Chained(snap) /\ call[t].event \in Events /\ call[t].prev \in Hashes
  BY DEF IInv, ThreadInv, TypeOK
<1>2. call[t].seq \in Nat \ {0}
  BY <1>1 DEF Continues, Chained
<1> QED
  BY <1>1, <1>2, RowType DEF RowOf

LEMMA InsertInv ==
  ASSUME IInv, NEW t \in Threads, Insert(t)
  PROVE  IInv'
<1> USE DEF Insert, Goto, Raise
<1> DEFINE h == call[t].handle
<1>1. h \in Handles /\ RowOf(t) \in Rows
  BY RowOfType DEF IInv, TypeOK
<1>2. TypeOK'
  <2>1. txn' = [txn EXCEPT ![h].status = "aborted"] \/ txn' = [txn EXCEPT ![h].own = {RowOf(t)}]
    BY DEF RowOf
  <2>2. txn' \in [Handles -> [status : {"none", "open", "aborted"},
                             snap : SUBSET Rows, own : SUBSET Rows]]
    BY <1>1, <2>1 DEF IInv, TypeOK
  <2>3. pc' \in [Threads -> Labels] /\ result' \in [Threads -> Results]
    BY DEF IInv, TypeOK, Labels, Results
  <2>4. UNCHANGED <<events, lock, call, acked>>
    OBVIOUS
  <2> QED
    BY <2>2, <2>3, <2>4 DEF IInv, TypeOK
<1>3. \A g \in Handles : txn'[g].snap = txn[g].snap
  BY <1>1 DEF IInv, TypeOK
<1>4. Chained(events)' /\ \A g \in Handles : Chained(txn'[g].snap) /\ IsPrefix(txn'[g].snap, events')
  BY <1>3, SameRows
<1>5. \A s \in Threads : ThreadInv(s)'
  <2>1. ThreadInv(t)'
    BY <1>1 DEF ThreadInv, Continues, RowOf, IInv, TypeOK
  <2>2. \A s \in Threads \ {t} : ThreadInv(s)'
    BY <1>1, OthersUndisturbed DEF IInv, TypeOK
  <2> QED
    BY <2>1, <2>2
<1>6. AckedIsStored'
  BY StoredStays
<1>7. DuplicateIsStored'
  BY DEF IInv, TypeOK, DuplicateIsStored
<1> QED
  BY <1>2, <1>4, <1>5, <1>6, <1>7 DEF IInv

\* COMMIT succeeds only when the snapshot is still the whole table, and then
\* the row is the table's next row.
LEMMA CommitExtends ==
  ASSUME IInv, NEW t \in Threads, pc[t] = "commit", ~ Violates(RowOf(t), events)
  PROVE  /\ txn[call[t].handle].own = {RowOf(t)}
         /\ RowOf(t) \in Rows
         /\ RowOf(t).seq = MaxSeq(events) + 1
         /\ RowOf(t).event = call[t].event
         /\ RowOf(t).prev = PrevHash(events, MaxSeq(events) + 1)
         /\ Chained(events \union {RowOf(t)})
         /\ MaxSeq(events \union {RowOf(t)}) = MaxSeq(events) + 1
<1> DEFINE snap == txn[call[t].handle].snap
           row == RowOf(t)
<1>1. /\ Continues(t, snap) /\ Chained(snap) /\ IsPrefix(snap, events)
      /\ Chained(events) /\ events \in SUBSET Rows /\ snap \in SUBSET Rows
      /\ call[t].event \in Events /\ txn[call[t].handle].own = {row}
  BY DEF IInv, ThreadInv, TypeOK
<1>2. row.event = call[t].event /\ row.seq = call[t].seq /\ row.prev = call[t].prev
  BY DEF RowOf, NewRow
<1>3. snap = events
  <2>1. \A r \in events : r.seq # MaxSeq(snap) + 1
    BY <1>1, <1>2 DEF Violates, Continues
  <2> QED
    BY <1>1, <2>1, SnapshotIsCurrent
<1>4. row = NewRow(call[t].event, MaxSeq(events) + 1, PrevHash(events, MaxSeq(events) + 1))
  BY <1>1, <1>3 DEF RowOf, Continues
<1>5. row \in Rows
  BY RowOfType
<1>6. \A r \in events : r.event.id # call[t].event.id
  BY <1>2 DEF Violates
<1>7. Chained(events \union {row}) /\ MaxSeq(events \union {row}) = MaxSeq(events) + 1
  BY <1>1, <1>4, <1>5, <1>6, ChainExtends
<1>8. row.seq = MaxSeq(events) + 1 /\ row.prev = PrevHash(events, MaxSeq(events) + 1)
  BY <1>1, <1>2, <1>3 DEF Continues
<1> QED
  BY <1>1, <1>2, <1>5, <1>7, <1>8

LEMMA CommitInv ==
  ASSUME IInv, NEW t \in Threads, Commit(t)
  PROVE  IInv'
<1> DEFINE h == call[t].handle
           row == RowOf(t)
<1>1. h \in Handles /\ pc[t] = "commit" /\ txn[h].own = {row}
  BY DEF Commit, IInv, ThreadInv, TypeOK
<1>2. /\ txn' = [txn EXCEPT ![h] = NoTxn] /\ txn'[h] = NoTxn
      /\ \A g \in Handles \ {h} : txn'[g] = txn[g]
      /\ UNCHANGED <<call, acked, lock>>
  BY <1>1 DEF Commit, Raise, IInv, TypeOK
<1>3. \/ /\ Violates(row, events) /\ Raise(t, "conflict") /\ events' = events
      \/ /\ ~ Violates(row, events) /\ events' = events \union {row}
         /\ Goto(t, "return") /\ result' = result
  BY <1>1 DEF Commit
<1>4. events' \in SUBSET Rows /\ events \subseteq events' /\ Chained(events')
  BY <1>1, <1>3, CommitExtends DEF IInv, TypeOK
<1>5. TypeOK'
  <2>1. NoTxn \in [status : {"none", "open", "aborted"}, snap : SUBSET Rows, own : SUBSET Rows]
    BY DEF NoTxn
  <2>2. txn' \in [Handles -> [status : {"none", "open", "aborted"},
                             snap : SUBSET Rows, own : SUBSET Rows]]
    BY <1>2, <2>1 DEF IInv, TypeOK
  <2>3. pc' \in [Threads -> Labels] /\ result' \in [Threads -> Results]
    BY <1>3 DEF IInv, TypeOK, Raise, Goto, Labels, Results
  <2> QED
    BY <1>2, <1>4, <2>2, <2>3 DEF IInv, TypeOK
<1>6. \A g \in Handles : Chained(txn'[g].snap) /\ IsPrefix(txn'[g].snap, events')
  <2> TAKE g \in Handles
  <2>1. CASE g = h
    BY <2>1, <1>2, <1>4, EmptyChain, EmptyIsPrefix DEF NoTxn
  <2>2. CASE g # h
    <3>1. /\ txn'[g].snap = txn[g].snap /\ Chained(txn[g].snap) /\ IsPrefix(txn[g].snap, events)
          /\ txn[g].snap \in SUBSET Rows /\ events \in SUBSET Rows /\ Chained(events)
      BY <2>2, <1>2 DEF IInv, TypeOK
    <3> QED
      BY <3>1, <1>1, <1>3, CommitExtends, PrefixStays
  <2> QED
    BY <2>1, <2>2
<1>7. \A s \in Threads : ThreadInv(s)'
  <2>1. ThreadInv(t)'
    <3>1. lock[h] = t
      BY <1>1 DEF IInv, ThreadInv
    <3>2. pc'[t] = "return" => row \in events' /\ RowOf(t)' = row
      BY <1>2, <1>3 DEF Raise, Goto, IInv, TypeOK, RowOf, NewRow
    <3>3. pc'[t] \in {"return", "rollback"}
      BY <1>3 DEF Raise, Goto, IInv, TypeOK
    <3> QED
      BY <1>2, <3>1, <3>2, <3>3 DEF ThreadInv
  <2>2. \A s \in Threads \ {t} : pc'[s] = pc[s]
    BY <1>3 DEF Raise, Goto, IInv, TypeOK
  <2>3. \A s \in Threads \ {t} : ThreadInv(s)'
    BY <1>1, <1>2, <1>4, <2>2, OthersUndisturbed
  <2> QED
    BY <2>1, <2>3
<1>8. AckedIsStored'
  BY <1>2, <1>4, StoredStays
<1>9. DuplicateIsStored'
  BY <1>2, <1>3, <1>4 DEF Raise, Goto, IInv, TypeOK, DuplicateIsStored
<1> QED
  BY <1>4, <1>5, <1>6, <1>7, <1>8, <1>9 DEF IInv

LEMMA RollbackInv ==
  ASSUME IInv, NEW t \in Threads, Rollback(t)
  PROVE  IInv'
<1> DEFINE h == call[t].handle
<1>1. h \in Handles /\ result[t] \in Results /\ NoTxn.snap = {}
  BY DEF IInv, TypeOK, NoTxn
<1>2. NoTxn \in [status : {"none", "open", "aborted"}, snap : SUBSET Rows, own : SUBSET Rows]
  BY DEF NoTxn
<1>3. txn' \in [Handles -> [status : {"none", "open", "aborted"},
                           snap : SUBSET Rows, own : SUBSET Rows]]
  BY <1>1, <1>2 DEF Rollback, IInv, TypeOK
<1>4. txn'[h].snap = {} /\ \A g \in Handles \ {h} : txn'[g] = txn[g]
  BY <1>1 DEF Rollback, IInv, TypeOK
<1>5. AckedIsStored' /\ acked' \in SUBSET (Events \X Hashes)
  BY StoredStays DEF Rollback, IInv, TypeOK
<1> QED
  BY <1>1, <1>3, <1>4, <1>5, LeaveInv DEF Rollback

LEMMA ReturnHeadInv ==
  ASSUME IInv, NEW t \in Threads, ReturnHead(t)
  PROVE  IInv'
<1>1. RowOf(t) \in events
  BY DEF ReturnHead, IInv, ThreadInv
<1>2. RowOf(t).event = call[t].event /\ RowOf(t).hash = HeadReturned(t)
  BY DEF RowOf, NewRow, HeadReturned
<1>3. AckedIsStored'
  BY <1>1, <1>2 DEF ReturnHead, IInv, AckedIsStored
<1>4. call[t].event \in Events /\ HeadReturned(t) \in Hashes
  BY <1>1, <1>2 DEF IInv, TypeOK, Rows
<1>5. acked' \in SUBSET (Events \X Hashes)
  BY <1>4 DEF ReturnHead, IInv, TypeOK
<1> QED
  BY <1>3, <1>5, LeaveInv DEF ReturnHead, Results, IInv, TypeOK

LEMMA InterruptInv ==
  ASSUME IInv, NEW t \in Threads, Interrupt(t)
  PROVE  IInv'
<1>1. AckedIsStored' /\ acked' \in SUBSET (Events \X Hashes)
  BY StoredStays DEF Interrupt, IInv, TypeOK
<1> QED
  BY <1>1, LeaveInv DEF Interrupt, Results, IInv, TypeOK

LEMMA CrashInv == IInv /\ Crash => IInv'
<1> SUFFICES ASSUME IInv, Crash PROVE IInv'
  OBVIOUS
<1>1. TypeOK'
  BY NoCallType DEF Crash, IInv, TypeOK, NoTxn, Labels, Results
<1>2. Chained(events)'
  BY DEF Crash, IInv
<1>3. \A h \in Handles : Chained(txn'[h].snap) /\ IsPrefix(txn'[h].snap, events')
  BY EmptyChain, EmptyIsPrefix DEF Crash, IInv, TypeOK, NoTxn
<1>4. \A t \in Threads : ThreadInv(t)'
  BY DEF Crash, ThreadInv
<1>5. AckedIsStored' /\ DuplicateIsStored'
  BY StoredStays DEF Crash, DuplicateIsStored
<1> QED
  BY <1>1, <1>2, <1>3, <1>4, <1>5 DEF IInv

------------------------------------------------------------------------------
\* Every step keeps the inductive invariant.
LEMMA NextIInv == IInv /\ [Next]_vars => IInv'
<1> SUFFICES ASSUME IInv, [Next]_vars PROVE IInv'
  OBVIOUS
<1>1. ASSUME NEW t \in Threads, CallAppend(t) PROVE IInv'
  BY <1>1, CallAppendInv
<1>2. ASSUME NEW t \in Threads, Step(t) PROVE IInv'
  BY <1>2, AcquireInv, BeginTransactionInv, BeginRefusedInv, CheckExistsInv, ReadHeadInv,
     InsertInv, CommitInv, RollbackInv, ReturnHeadInv DEF Step
<1>3. ASSUME NEW t \in Threads, Interrupt(t) PROVE IInv'
  BY <1>3, InterruptInv
<1>4. CASE Crash
  BY <1>4, CrashInv
<1>5. CASE UNCHANGED vars
  <2>1. \A t \in Threads : ThreadInv(t)'
    BY <1>5, Undisturbed DEF IInv, vars
  <2>2. TypeOK' /\ AckedIsStored' /\ DuplicateIsStored' /\ Chained(events')
    BY <1>5 DEF IInv, vars, TypeOK, AckedIsStored, DuplicateIsStored
  <2>3. \A h \in Handles : Chained(txn'[h].snap) /\ IsPrefix(txn'[h].snap, events')
    BY <1>5 DEF IInv, vars
  <2> QED
    BY <2>1, <2>2, <2>3 DEF IInv
<1> QED
  BY <1>1, <1>2, <1>3, <1>4, <1>5 DEF Next

\* The variables of append() keep their types in every behavior.
THEOREM TypeCorrect == Spec => []TypeOK
<1>1. IInv => TypeOK
  BY DEF IInv
<1> QED
  BY InitIInv, NextIInv, <1>1, PTL DEF Spec

\* Interleaved writers, interrupted and crashed ones included, never corrupt
\* the chain in the ledger file.
THEOREM ChainIsIntact == Spec => []ChainIntact
<1>1. IInv => ChainIntact
  BY DEF IInv, ChainIntact
<1> QED
  BY InitIInv, NextIInv, <1>1, PTL DEF Spec

\* An append that returned a head is in the file under that head for ever.
THEOREM AckedAppendIsDurable == Spec => []AckedIsStored
<1>1. IInv => AckedIsStored
  BY DEF IInv
<1> QED
  BY InitIInv, NextIInv, <1>1, PTL DEF Spec

\* "event_id already exists" is only ever said of a committed event.
THEOREM DuplicateIsCommitted == Spec => []DuplicateIsStored
<1>1. IInv => DuplicateIsStored
  BY DEF IInv
<1> QED
  BY InitIInv, NextIInv, <1>1, PTL DEF Spec

------------------------------------------------------------------------------
(***************************************************************************)
(* What an append fails by, whatever the handles and interrupts.           *)
(***************************************************************************)
\* Past CheckExists the event's id is not in the snapshot.
UncheckedInv ==
    \A t \in Threads : pc[t] \in {"head", "insert", "commit"} =>
        \A r \in txn[call[t].handle].snap : r.event.id # call[t].event.id

\* A thread's part of UncheckedInv, when others move on other handles.
LEMMA OthersStayUnchecked ==
  ASSUME IInv, UncheckedInv, NEW t \in Threads, pc[t] \notin {"idle", "lock"},
         \A s \in Threads \ {t} : pc'[s] = pc[s] /\ call'[s] = call[s],
         \A h \in Handles \ {call[t].handle} : txn'[h] = txn[h]
  PROVE  \A s \in Threads \ {t} : pc'[s] \in {"head", "insert", "commit"} =>
           \A r \in txn'[call'[s].handle].snap : r.event.id # call'[s].event.id
<1> SUFFICES ASSUME NEW s \in Threads \ {t}, pc'[s] \in {"head", "insert", "commit"}
             PROVE  \A r \in txn'[call'[s].handle].snap : r.event.id # call'[s].event.id
  OBVIOUS
<1>1. pc[s] \in {"head", "insert", "commit"} /\ call'[s] = call[s] /\ call[s].handle \in Handles
  BY DEF IInv, TypeOK
<1>2. call[s].handle # call[t].handle
  BY <1>1, HandlesDiffer
<1> QED
  BY <1>1, <1>2 DEF UncheckedInv

LEMMA NextUnchecked ==
  ASSUME IInv, UncheckedInv, [Next]_vars
  PROVE  UncheckedInv'
<1>0. TypeOK
  BY DEF IInv
<1>1. ASSUME NEW t \in Threads, CallAppend(t)
      PROVE  UncheckedInv'
  BY <1>0, <1>1 DEF CallAppend, Goto, UncheckedInv, TypeOK
<1>2. ASSUME NEW t \in Threads, Acquire(t)
      PROVE  UncheckedInv'
  BY <1>0, <1>2 DEF Acquire, Goto, UncheckedInv, TypeOK
<1>3. ASSUME NEW t \in Threads, pc[t] \notin {"idle", "lock"},
             pc' = [pc EXCEPT ![t] = pc'[t]], pc'[t] \notin {"head", "insert", "commit"},
             call' = call,
             \A h \in Handles \ {call[t].handle} : txn'[h] = txn[h]
      PROVE  UncheckedInv'
  <2>1. \A s \in Threads \ {t} : pc'[s] = pc[s] /\ call'[s] = call[s]
    BY <1>0, <1>3 DEF TypeOK
  <2> QED
    BY <1>3, <2>1, OthersStayUnchecked DEF UncheckedInv
<1>4. ASSUME NEW t \in Threads, BeginTransaction(t) \/ BeginRefused(t) \/ Rollback(t)
                                  \/ Commit(t) \/ ReturnHead(t) \/ Interrupt(t)
      PROVE  UncheckedInv'
  <2>1. /\ pc[t] \notin {"idle", "lock"}
        /\ call' = call
        /\ \E label \in {"exists", "idle", "return", "rollback"} : pc' = [pc EXCEPT ![t] = label]
    BY <1>4 DEF BeginTransaction, BeginRefused, Rollback, Commit, ReturnHead, Interrupt,
                Goto, Leave, Raise
  <2>2. pc' = [pc EXCEPT ![t] = pc'[t]] /\ pc'[t] \notin {"head", "insert", "commit"}
    BY <1>0, <2>1 DEF TypeOK
  <2>3. \A h \in Handles \ {call[t].handle} : txn'[h] = txn[h]
    BY <1>0, <1>4 DEF BeginTransaction, BeginRefused, Rollback, Commit, ReturnHead, Interrupt, TypeOK
  <2> QED
    BY <1>3, <2>1, <2>2, <2>3
<1>5. ASSUME NEW t \in Threads, CheckExists(t)
      PROVE  UncheckedInv'
  <2>1. pc[t] = "exists" /\ View(call[t].handle) = txn[call[t].handle].snap
    BY <1>0, <1>5 DEF CheckExists, View, IInv, ThreadInv, TypeOK
  <2>2. UNCHANGED <<txn, call>>
    BY <1>5 DEF CheckExists
  <2>3. /\ \A s \in Threads \ {t} : pc'[s] = pc[s]
        /\ pc'[t] = "head" => \A r \in txn[call[t].handle].snap : r.event.id # call[t].event.id
        /\ pc'[t] \in {"head", "rollback"}
    BY <1>0, <1>5, <2>1 DEF CheckExists, Raise, Goto, TypeOK
  <2> QED
    BY <2>2, <2>3 DEF UncheckedInv
<1>6. ASSUME NEW t \in Threads, ReadHead(t)
      PROVE  UncheckedInv'
  BY <1>0, <1>6 DEF ReadHead, Goto, UncheckedInv, TypeOK
<1>7. ASSUME NEW t \in Threads, Insert(t)
      PROVE  UncheckedInv'
  <2>1. \A h \in Handles : txn'[h].snap = txn[h].snap
    <3>1. PICK row : \/ txn' = [txn EXCEPT ![call[t].handle].status = "aborted"]
                     \/ txn' = [txn EXCEPT ![call[t].handle].own = {row}]
      BY <1>7 DEF Insert
    <3>2. call[t].handle \in Handles
      BY <1>0 DEF TypeOK
    <3>3. CASE txn' = [txn EXCEPT ![call[t].handle].status = "aborted"]
      BY <1>0, <3>2, <3>3 DEF TypeOK
    <3>4. CASE txn' = [txn EXCEPT ![call[t].handle].own = {row}]
      BY <1>0, <3>2, <3>4 DEF TypeOK
    <3> QED
      BY <3>1, <3>3, <3>4
  <2>2. /\ \A s \in Threads \ {t} : pc'[s] = pc[s]
        /\ call' = call /\ pc[t] = "insert"
    BY <1>0, <1>7 DEF Insert, Goto, Raise, TypeOK
  <2>3. \A s \in Threads : call[s].handle \in Handles
    BY <1>0 DEF TypeOK
  <2> QED
    BY <2>1, <2>2, <2>3 DEF UncheckedInv
<1>8. CASE Crash
  BY <1>8 DEF Crash, UncheckedInv
<1>9. CASE UNCHANGED vars
  BY <1>9 DEF vars, UncheckedInv
<1> QED
  BY <1>1, <1>2, <1>4, <1>5, <1>6, <1>7, <1>8, <1>9 DEF Next, Step

\* A row that does not fit was read before the file grew.
LEMMA MisfitIsBehind ==
  ASSUME IInv, UncheckedInv, NEW t \in Threads, pc[t] \in {"insert", "commit"},
         Violates(RowOf(t), events)
  PROVE  txn[call[t].handle].snap # events
<1> SUFFICES ASSUME txn[call[t].handle].snap = events
             PROVE  FALSE
  OBVIOUS
<1>1. RowOf(t).seq = MaxSeq(events) + 1 /\ RowOf(t).event = call[t].event
  BY DEF IInv, ThreadInv, Continues, RowOf, NewRow
<1>2. MaxSeq(events) \in Nat /\ \A r \in events : r.seq \in 1 .. MaxSeq(events)
  BY DEF IInv, Chained
<1>3. \A r \in events : r.seq # MaxSeq(events) + 1
  BY <1>2
<1>4. \A r \in events : r.event.id # call[t].event.id
  BY DEF UncheckedInv
<1> QED
  BY <1>1, <1>3, <1>4 DEF Violates

\* Whose constraint fails, the file has grown behind it; whose BEGIN is
\* refused, no other thread is at work on its handle.
LEMMA FailureStep ==
  ASSUME IInv, UncheckedInv, [Next]_vars, NEW t \in Threads
  PROVE  /\ result[t] # "conflict" /\ result'[t] = "conflict" =>
              txn[call[t].handle].snap # events
         /\ result[t] # "refused" /\ result'[t] = "refused" =>
              \A s \in Threads \ {t} : pc[s] \in {"idle", "lock"} \/ call[s].handle # call[t].handle
<1>0. TypeOK
  BY DEF IInv
<1>1. ASSUME NEW s \in Threads, CallAppend(s)
      PROVE  result'[t] \in {result[t], "none"}
  BY <1>0, <1>1 DEF CallAppend, TypeOK
<1>2. ASSUME NEW s \in Threads, Acquire(s) \/ BeginTransaction(s) \/ ReadHead(s)
      PROVE  result'[t] = result[t]
  BY <1>2 DEF Acquire, BeginTransaction, ReadHead
<1>3. ASSUME NEW s \in Threads, CheckExists(s)
      PROVE  result'[t] \in {result[t], "duplicate"}
  BY <1>0, <1>3 DEF CheckExists, Raise, TypeOK
<1>4. ASSUME NEW s \in Threads, ReturnHead(s) \/ Interrupt(s)
      PROVE  result'[t] \in {result[t], "ok", "interrupted"}
  BY <1>0, <1>4 DEF ReturnHead, Interrupt, Leave, TypeOK
<1>5. ASSUME NEW s \in Threads, Rollback(s)
      PROVE  result'[t] = result[t]
  BY <1>0, <1>5 DEF Rollback, Leave, TypeOK
<1>6. ASSUME NEW s \in Threads, Insert(s) \/ Commit(s), result'[t] # result[t]
      PROVE  /\ result'[t] = "conflict"
             /\ txn[call[t].handle].snap # events
  <2>1. s = t /\ result'[t] = "conflict"
    BY <1>0, <1>6 DEF Insert, Commit, Raise, TypeOK
  <2>2. pc[t] \in {"insert", "commit"}
    BY <1>6, <2>1 DEF Insert, Commit
  <2>3. Violates(RowOf(t), events)
    <3>1. CASE Insert(t)
      BY <1>6, <2>1, <3>1 DEF Insert, RowOf
    <3>2. CASE Commit(t)
      <4>1. txn[call[t].handle].own = {RowOf(t)}
        BY <3>2 DEF Commit, IInv, ThreadInv
      <4> QED
        BY <1>6, <2>1, <3>2, <4>1 DEF Commit
    <3> QED
      BY <1>6, <2>1, <3>1, <3>2
  <2> QED
    BY <2>1, <2>2, <2>3, MisfitIsBehind
<1>7. ASSUME NEW s \in Threads, BeginRefused(s), result'[t] # result[t]
      PROVE  /\ result'[t] = "refused"
             /\ \A u \in Threads \ {t} : pc[u] \in {"idle", "lock"} \/ call[u].handle # call[t].handle
  <2>1. s = t /\ result'[t] = "refused" /\ pc[t] = "begin"
    BY <1>0, <1>7 DEF BeginRefused, Leave, TypeOK
  <2> QED
    BY <2>1, HandlesDiffer
<1>8. ASSUME Crash
      PROVE  result'[t] = "none"
  BY <1>8 DEF Crash
<1>9. ASSUME UNCHANGED vars
      PROVE  result'[t] = result[t]
  BY <1>9 DEF vars
<1> QED
  BY <1>1, <1>2, <1>3, <1>4, <1>5, <1>6, <1>7, <1>8, <1>9 DEF Next, Step

\* Under the per-handle lock an append fails only by what comes from outside
\* its handle: a commit of another one, or an interrupt (append(), store.py).
THEOREM FailuresAreExplained == Spec => FailuresComeFromOutside
<1>1. Init => UncheckedInv
  BY DEF Init, UncheckedInv
<1>2. IInv /\ UncheckedInv /\ [Next]_vars => UncheckedInv'
  BY NextUnchecked
<1>3. IInv /\ UncheckedInv /\ [Next]_vars =>
        [\A t \in Threads :
           LET h == call[t].handle
               FailsBy(how) == result[t] # how /\ result'[t] = how
           IN  /\ FailsBy("conflict") => txn[h].snap # events
               /\ FailsBy("refused") =>
                    \A s \in Threads \ {t} : pc[s] \in {"idle", "lock"} \/ call[s].handle # h]_vars
  BY FailureStep
<1> QED
  BY <1>1, <1>2, <1>3, InitIInv, NextIInv, PTL DEF Spec, FailuresComeFromOutside

------------------------------------------------------------------------------
(***************************************************************************)
(* One handle and no interrupts: the lock alone keeps appends from meeting *)
(* a conflict, since a transaction sees the file as it is.                 *)
(***************************************************************************)
Alone == (\A g, h \in Handles : g = h) /\ Interruptible = {}

Working == {"exists", "head", "insert", "commit", "rollback"}

\* An open transaction is that of a thread at work, its snapshot is the file,
\* and past CheckExists the event is new.
AloneInv ==
    /\ \A h \in Handles : txn[h].status # "none" => \E t \in Threads : pc[t] \in Working
    /\ \A t \in Threads : pc[t] \in {"exists", "head", "insert", "commit"} =>
         txn[call[t].handle].snap = events
    /\ \A t \in Threads : pc[t] \in {"head", "insert", "commit"} =>
         \A r \in events : r.event.id # call[t].event.id
    /\ \A t \in Threads : result[t] \notin {"conflict", "refused"}

LEMMA OneAtWork ==
  ASSUME Alone, IInv, NEW s \in Threads, NEW t \in Threads,
         pc[s] \notin {"idle", "lock"}, pc[t] \notin {"idle", "lock"}
  PROVE  s = t
<1>1. call[s].handle = call[t].handle
  BY DEF Alone, IInv, TypeOK
<1> QED
  BY <1>1, HandlesDiffer

\* The row of a thread that has read the head fits the file.
LEMMA RowFits ==
  ASSUME IInv, AloneInv, NEW t \in Threads, pc[t] \in {"insert", "commit"}
  PROVE  ~ Violates(RowOf(t), events)
<1>1. RowOf(t).seq = MaxSeq(events) + 1 /\ RowOf(t).event = call[t].event
  BY DEF IInv, ThreadInv, Continues, AloneInv, RowOf, NewRow
<1>2. MaxSeq(events) \in Nat /\ \A r \in events : r.seq \in 1 .. MaxSeq(events)
  BY DEF IInv, Chained
<1>3. \A r \in events : r.seq # MaxSeq(events) + 1
  BY <1>2
<1>4. \A r \in events : r.event.id # call[t].event.id
  BY DEF AloneInv
<1> QED
  BY <1>1, <1>3, <1>4 DEF Violates

LEMMA AloneNext ==
  ASSUME Alone, IInv, AloneInv, [Next]_vars
  PROVE  AloneInv'
<1>0. TypeOK
  BY DEF IInv
<1>1. ASSUME NEW t \in Threads, CallAppend(t)
      PROVE  AloneInv'
  BY <1>0, <1>1 DEF CallAppend, Goto, AloneInv, Working, TypeOK
<1>2. ASSUME NEW t \in Threads, Acquire(t)
      PROVE  AloneInv'
  BY <1>0, <1>2 DEF Acquire, Goto, AloneInv, Working, TypeOK
<1>3. ASSUME NEW t \in Threads, BeginTransaction(t)
      PROVE  AloneInv'
  BY <1>0, <1>3, OneAtWork DEF BeginTransaction, Goto, AloneInv, Working, TypeOK
<1>4. ASSUME NEW t \in Threads, BeginRefused(t)
      PROVE  FALSE
  <2>1. pc[t] = "begin" /\ txn[call[t].handle].status # "none" /\ call[t].handle \in Handles
    BY <1>0, <1>4 DEF BeginRefused, TypeOK
  <2>2. PICK s \in Threads : pc[s] \in Working
    BY <2>1 DEF AloneInv
  <2> QED
    BY <2>1, <2>2, OneAtWork DEF Working
<1>5. ASSUME NEW t \in Threads, CheckExists(t)
      PROVE  AloneInv'
  <2>1. pc[t] = "exists" /\ View(call[t].handle) = events
    BY <1>0, <1>5 DEF CheckExists, View, IInv, ThreadInv, AloneInv, TypeOK
  <2>2. UNCHANGED <<events, txn, call>>
    BY <1>5 DEF CheckExists
  <2>3. /\ \A s \in Threads \ {t} : pc'[s] = pc[s] /\ result'[s] = result[s]
        /\ pc'[t] \in {"head", "rollback"}
        /\ result'[t] \in {result[t], "duplicate"}
        /\ pc'[t] = "head" => \A r \in events : r.event.id # call[t].event.id
    BY <1>0, <1>5, <2>1 DEF CheckExists, Raise, Goto, TypeOK
  <2>4. \A h \in Handles : txn[h].status # "none" => \E s \in Threads : pc'[s] \in Working
    BY <2>3 DEF AloneInv, Working
  <2> QED
    BY <2>1, <2>2, <2>3, <2>4 DEF AloneInv
<1>6. ASSUME NEW t \in Threads, ReadHead(t)
      PROVE  AloneInv'
  BY <1>0, <1>6 DEF ReadHead, Goto, AloneInv, Working, TypeOK
<1>7. ASSUME NEW t \in Threads, Insert(t)
      PROVE  AloneInv'
  <2>1. ~ Violates(RowOf(t), events)
    BY <1>7, RowFits DEF Insert
  <2>2. UNCHANGED <<events, call, result>> /\ Goto(t, "commit") /\ pc[t] = "insert"
    BY <1>7, <2>1 DEF Insert, RowOf
  <2>3. \A h \in Handles : txn'[h].snap = txn[h].snap /\ txn'[h].status = txn[h].status
    BY <1>0, <1>7, <2>1 DEF Insert, RowOf, TypeOK
  <2>4. \A s \in Threads : pc'[s] = IF s = t THEN "commit" ELSE pc[s]
    BY <1>0, <2>2 DEF Goto, TypeOK
  <2>5. \A h \in Handles : txn'[h].status # "none" => \E s \in Threads : pc'[s] \in Working
    BY <2>3, <2>4 DEF AloneInv, Working
  <2>6. \A s \in Threads : call[s].handle \in Handles
    BY <1>0 DEF TypeOK
  <2> QED
    BY <2>2, <2>3, <2>4, <2>5, <2>6 DEF AloneInv
<1>8. ASSUME NEW t \in Threads, Commit(t)
      PROVE  AloneInv'
  <2>1. ~ Violates(RowOf(t), events) /\ txn[call[t].handle].own = {RowOf(t)}
    BY <1>8, RowFits DEF Commit, IInv, ThreadInv
  <2>2. \A s \in Threads : pc[s] \notin {"idle", "lock"} => s = t
    BY <1>8, OneAtWork DEF Commit
  <2>3. Goto(t, "return") /\ UNCHANGED <<result, call>> /\ txn' = [txn EXCEPT ![call[t].handle] = NoTxn]
    BY <1>8, <2>1 DEF Commit
  <2>4. \A h \in Handles : txn'[h].status = "none"
    BY <1>0, <2>3 DEF Alone, TypeOK, NoTxn
  <2>5. \A s \in Threads : pc'[s] \in {"idle", "lock", "return"}
    BY <1>0, <2>2, <2>3 DEF Goto, TypeOK
  <2> QED
    BY <2>3, <2>4, <2>5 DEF AloneInv
<1>9. ASSUME NEW t \in Threads, Rollback(t)
      PROVE  AloneInv'
  <2>1. \A s \in Threads : pc[s] \notin {"idle", "lock"} => s = t
    BY <1>9, OneAtWork DEF Rollback
  <2>2. \A h \in Handles : txn'[h].status = "none"
    BY <1>0, <1>9 DEF Alone, Rollback, TypeOK, NoTxn
  <2>3. /\ \A s \in Threads : pc'[s] \in {"idle", "lock"}
        /\ \A s \in Threads : result'[s] = result[s]
    BY <1>0, <1>9, <2>1 DEF Rollback, Leave, Goto, TypeOK
  <2> QED
    BY <2>2, <2>3 DEF AloneInv
<1>10. ASSUME NEW t \in Threads, ReturnHead(t)
       PROVE  AloneInv'
  BY <1>0, <1>10 DEF ReturnHead, Leave, Goto, AloneInv, Working, TypeOK
<1>11. CASE Crash
  BY <1>11 DEF Crash, AloneInv, NoTxn
<1>12. ASSUME NEW t \in Threads, Interrupt(t)
       PROVE  FALSE
  BY <1>12 DEF Interrupt, Alone
<1>13. CASE UNCHANGED vars
  BY <1>13 DEF vars, AloneInv
<1> QED
  BY <1>1, <1>2, <1>3, <1>4, <1>5, <1>6, <1>7, <1>8, <1>9, <1>10, <1>11, <1>12, <1>13
     DEF Next, Step

\* Through one handle and without interrupts, an append ends with the head or
\* with "already exists".
THEOREM TheLockSuffices == Spec => []OneHandleNeverFails
<1>1. CASE Alone
  <2>1. Init => AloneInv
    BY DEF Init, AloneInv, NoTxn
  <2>2. IInv /\ AloneInv /\ [Next]_vars => AloneInv'
    BY <1>1, AloneNext
  <2>3. AloneInv => OneHandleNeverFails
    BY DEF AloneInv, OneHandleNeverFails
  <2> QED
    BY <2>1, <2>2, <2>3, InitIInv, NextIInv, PTL DEF Spec
<1>2. CASE ~ Alone
  <2>1. OneHandleNeverFails
    BY <1>2 DEF Alone, OneHandleNeverFails
  <2> QED
    BY <2>1, PTL
<1> QED
  BY <1>1, <1>2

------------------------------------------------------------------------------
\* The abstract log, as the refinement mapping of AuditLedger reads it.
LogOf(rows) == [n \in 1 .. MaxSeq(rows) |-> RowWith(rows, n).event]

\* A row's hash covers exactly the events of the log up to the row.
HashCovers(rows) ==
    \A r \in rows : /\ Len(r.hash) = r.seq
                    /\ \A i \in 1 .. r.seq : r.hash[i] = RowWith(rows, i).event

RInv == IInv /\ HashCovers(events)

LEMMA RowWithIs ==
  ASSUME NEW rows, Chained(rows), NEW r \in rows
  PROVE  RowWith(rows, r.seq) = r
BY DEF Chained, RowWith

LEMMA LogType ==
  ASSUME NEW rows \in SUBSET Rows, Chained(rows)
  PROVE  /\ LogOf(rows) \in Seq(Events) /\ Len(LogOf(rows)) = MaxSeq(rows)
         /\ \A n \in 1 .. MaxSeq(rows) : LogOf(rows)[n] = RowWith(rows, n).event
<1>1. MaxSeq(rows) \in Nat /\ {r.seq : r \in rows} = 1 .. MaxSeq(rows)
  BY DEF Chained
<1>2. ASSUME NEW n \in 1 .. MaxSeq(rows) PROVE RowWith(rows, n).event \in Events
  <2>1. PICK r \in rows : r.seq = n
    BY <1>1
  <2>2. RowWith(rows, n) = r
    BY <2>1, RowWithIs
  <2> QED
    BY <2>2 DEF Rows
<1> QED
  BY <1>1, <1>2 DEF LogOf

\* The row of a successful COMMIT extends the log by its event, and its hash
\* covers the extended log.
LEMMA StoreExtends ==
  ASSUME NEW rows \in SUBSET Rows, Chained(rows), HashCovers(rows),
         NEW row \in Rows,
         row.seq = MaxSeq(rows) + 1,
         row.prev = PrevHash(rows, MaxSeq(rows) + 1),
         row.hash = ChainHash(row.event, row.prev),
         Chained(rows \union {row}), MaxSeq(rows \union {row}) = MaxSeq(rows) + 1
  PROVE  /\ LogOf(rows \union {row}) = Append(LogOf(rows), row.event)
         /\ HashCovers(rows \union {row})
<1> DEFINE all == rows \union {row}
           m == MaxSeq(rows)
<1>1. m \in Nat /\ {r.seq : r \in rows} = 1 .. m
  BY DEF Chained
<1>0. \A n \in 1 .. (m + 1) : n \in 1 .. m \/ n = m + 1
  <2> HIDE DEF m
  <2> QED
    BY <1>1
<1>2. \A n \in 1 .. m : RowWith(all, n) = RowWith(rows, n)
  <2> TAKE n \in 1 .. m
  <2>1. PICK r \in rows : r.seq = n
    BY <1>1
  <2>2. RowWith(rows, n) = r /\ RowWith(all, n) = r
    BY <2>1, RowWithIs
  <2> QED
    BY <2>2
<1>3. RowWith(all, m + 1) = row
  BY RowWithIs
<1>4. row.event \in Events /\ row.prev \in Hashes
  BY DEF Rows
<1>5. LogOf(all) = Append(LogOf(rows), row.event)
  <2>1. /\ LogOf(rows) \in Seq(Events) /\ Len(LogOf(rows)) = m
        /\ \A n \in 1 .. m : LogOf(rows)[n] = RowWith(rows, n).event
    BY LogType
  <2>2. /\ LogOf(all) \in Seq(Events) /\ Len(LogOf(all)) = m + 1
        /\ \A n \in 1 .. (m + 1) : LogOf(all)[n] = RowWith(all, n).event
    BY LogType
  <2>3. /\ Append(LogOf(rows), row.event) \in Seq(Events)
        /\ Len(Append(LogOf(rows), row.event)) = m + 1
        /\ \A n \in 1 .. m : Append(LogOf(rows), row.event)[n] = LogOf(rows)[n]
        /\ Append(LogOf(rows), row.event)[m + 1] = row.event
    BY <1>4, <2>1, AppendProperties
  <2>4. \A n \in 1 .. (m + 1) : LogOf(all)[n] = Append(LogOf(rows), row.event)[n]
    <3>1. \A n \in 1 .. m : LogOf(all)[n] = Append(LogOf(rows), row.event)[n]
      <4> TAKE n \in 1 .. m
      <4>1. n \in 1 .. (m + 1)
        BY <1>1
      <4> QED
        BY <4>1, <1>2, <2>1, <2>2, <2>3
    <3>2. LogOf(all)[m + 1] = Append(LogOf(rows), row.event)[m + 1]
      <4>1. m + 1 \in 1 .. (m + 1)
        BY <1>1
      <4> QED
        BY <4>1, <1>3, <2>2, <2>3
    <3> QED
      BY <1>0, <3>1, <3>2
  <2> QED
    BY <2>2, <2>3, <2>4, SeqEqual
<1>6. Len(row.prev) = m /\ \A i \in 1 .. m : row.prev[i] = RowWith(rows, i).event
  <2>1. CASE m = 0
    BY <2>1 DEF PrevHash, GENESIS
  <2>2. CASE m # 0
    <3>1. PICK r \in rows : r.seq = m
      BY <1>1, <2>2
    <3>2. RowWith(rows, m) = r
      BY <3>1, RowWithIs
    <3>3. row.prev = r.hash
      BY <1>1, <2>2, <3>2 DEF PrevHash
    <3> QED
      BY <3>1, <3>3 DEF HashCovers
  <2> QED
    BY <2>1, <2>2
<1>7. /\ Len(row.hash) = m + 1
      /\ \A i \in 1 .. m : row.hash[i] = row.prev[i]
      /\ row.hash[m + 1] = row.event
  <2>1. row.prev \in Seq(Events) /\ row.hash = Append(row.prev, row.event)
    BY <1>4 DEF Hashes, ChainHash
  <2> QED
    BY <1>4, <1>6, <2>1, AppendProperties
<1>8. HashCovers(all)
  <2> SUFFICES ASSUME NEW r \in all
               PROVE  Len(r.hash) = r.seq /\ \A i \in 1 .. r.seq : r.hash[i] = RowWith(all, i).event
    BY DEF HashCovers
  <2>1. CASE r \in rows
    <3>1. r.seq \in 1 .. m
      BY <1>1, <2>1
    <3>2. Len(r.hash) = r.seq /\ \A i \in 1 .. r.seq : r.hash[i] = RowWith(rows, i).event
      BY <2>1 DEF HashCovers
    <3>3. \A i \in 1 .. r.seq : i \in 1 .. m
      BY <1>1, <3>1
    <3>4. \A i \in 1 .. r.seq : RowWith(all, i) = RowWith(rows, i)
      BY <1>2, <3>3
    <3> QED
      BY <3>2, <3>4
  <2>2. CASE r = row
    <3>1. \A i \in 1 .. m : row.hash[i] = RowWith(all, i).event
      BY <1>2, <1>6, <1>7
    <3>2. row.hash[m + 1] = RowWith(all, m + 1).event
      BY <1>3, <1>7
    <3>3. row.seq = m + 1
      OBVIOUS
    <3>4. \A i \in 1 .. (m + 1) : row.hash[i] = RowWith(all, i).event
      BY <1>0, <3>1, <3>2
    <3> QED
      BY <2>2, <3>3, <3>4, <1>7
  <2> QED
    BY <2>1, <2>2
<1> QED
  BY <1>5, <1>8

\* Steps that store nothing leave the log alone.
LEMMA CommitCases ==
  ASSUME IInv, NEW t \in Threads, Commit(t)
  PROVE  \/ events' = events
         \/ /\ ~ Violates(RowOf(t), events) /\ events' = events \union {RowOf(t)}
            /\ pc[t] = "commit"
BY DEF Commit, Raise, IInv, ThreadInv, TypeOK

LEMMA RowOfHash ==
  ASSUME NEW t \in Threads
  PROVE  RowOf(t).hash = ChainHash(RowOf(t).event, RowOf(t).prev)
BY DEF RowOf, NewRow

\* Only COMMIT changes the table.
LEMMA OnlyCommitStores ==
  ASSUME [Next]_vars, \A t \in Threads : ~ Commit(t)
  PROVE  events' = events
BY DEF Next, Step, vars, CallAppend, Acquire, BeginTransaction, BeginRefused, CheckExists,
   ReadHead, Insert, Rollback, ReturnHead, Interrupt, Crash

\* Only the return of append() hands out a head.
LEMMA OnlyReturnAcks ==
  ASSUME [Next]_vars, \A t \in Threads : ~ ReturnHead(t)
  PROVE  acked' = acked
BY DEF Next, Step, vars, CallAppend, Acquire, BeginTransaction, BeginRefused, CheckExists,
   ReadHead, Insert, Commit, Rollback, Interrupt, Crash

LEMMA NextRInv == RInv /\ [Next]_vars => RInv'
<1> SUFFICES ASSUME RInv, [Next]_vars PROVE RInv'
  OBVIOUS
<1>1. IInv /\ IInv' /\ HashCovers(events) /\ Chained(events) /\ events \in SUBSET Rows
  BY NextIInv DEF RInv, IInv, TypeOK
<1>2. CASE events' = events
  BY <1>1, <1>2 DEF RInv, HashCovers
<1>3. ASSUME NEW t \in Threads, Commit(t), events' # events PROVE RInv'
  <2>1. /\ ~ Violates(RowOf(t), events) /\ events' = events \union {RowOf(t)} /\ pc[t] = "commit"
    BY <1>1, <1>3, CommitCases
  <2>2. HashCovers(events \union {RowOf(t)})
    BY <1>1, <2>1, CommitExtends, RowOfHash, StoreExtends
  <2> QED
    BY <1>1, <2>1, <2>2 DEF RInv
<1> QED
  BY <1>2, <1>3, OnlyCommitStores

LEMMA InitRInv == Init => RInv
BY InitIInv DEF RInv, HashCovers, Init

LEMMA InitMaps == Init => Log!LogInit
<1> SUFFICES ASSUME Init PROVE Log!LogInit
  OBVIOUS
<1>1. events = {} /\ acked = {} /\ MaxSeq(events) = 0
  BY EmptyChain DEF Init
<1>2. LogOf(events) = << >>
  <2>1. Chained({})
    BY EmptyChain
  <2>2. LogOf(events) \in Seq(Events) /\ Len(LogOf(events)) = 0
    BY <1>1, <2>1, LogType
  <2> QED
    BY <2>2
<1> QED
  BY <1>1, <1>2 DEF Log!LogInit, LogOf

\* A COMMIT that succeeds is the abstract Store of the thread's event.
LEMMA CommitMaps ==
  ASSUME RInv, RInv', [Next]_vars, NEW t \in Threads, Commit(t), events' # events
  PROVE  Log!Store(call[t].event)
<1> DEFINE e == call[t].event
<1>1. IInv /\ HashCovers(events) /\ Chained(events) /\ events \in SUBSET Rows
  BY DEF RInv, IInv, TypeOK
<1>2. /\ ~ Violates(RowOf(t), events) /\ events' = events \union {RowOf(t)} /\ pc[t] = "commit"
  BY <1>1, CommitCases
<1>3. /\ RowOf(t) \in Rows /\ RowOf(t).event = e /\ RowOf(t).seq = MaxSeq(events) + 1
      /\ RowOf(t).prev = PrevHash(events, MaxSeq(events) + 1)
      /\ Chained(events \union {RowOf(t)})
      /\ MaxSeq(events \union {RowOf(t)}) = MaxSeq(events) + 1
  BY <1>1, <1>2, CommitExtends
<1>4. LogOf(events \union {RowOf(t)}) = Append(LogOf(events), e)
  BY <1>1, <1>3, RowOfHash, StoreExtends
<1>5. \A n \in 1 .. MaxSeq(events) : LogOf(events)[n].id # e.id
  <2> TAKE n \in 1 .. MaxSeq(events)
  <2>1. PICK r \in events : r.seq = n
    BY <1>1 DEF Chained
  <2>2. LogOf(events)[n] = r.event
    BY <1>1, <2>1, RowWithIs, LogType
  <2> QED
    BY <1>2, <1>3, <2>2 DEF Violates
<1>6. Len(LogOf(events)) = MaxSeq(events)
  BY <1>1, LogType
<1>7. acked' = acked
  BY DEF Commit
<1>8. LogOf(events)' = LogOf(events')
  BY DEF LogOf
<1>9. LogOf(events)' = Append(LogOf(events), e)
  BY <1>2, <1>4, <1>8
<1> QED
  BY <1>5, <1>6, <1>7, <1>9 DEF Log!Store, Log!IdIsFree, LogOf

\* The return of append() hands out the log up to the thread's event.
LEMMA ReturnMaps ==
  ASSUME RInv, NEW t \in Threads, ReturnHead(t)
  PROVE  Log!Return(call[t].seq) /\ call[t].seq \in 1 .. Len(LogOf(events))
<1> DEFINE n == call[t].seq
           row == RowOf(t)
<1>1. Chained(events) /\ events \in SUBSET Rows /\ row \in events /\ HashCovers(events)
  BY DEF RInv, IInv, TypeOK, ReturnHead, ThreadInv
<1>2. row.seq = n /\ row.hash = HeadReturned(t)
  BY DEF RowOf, NewRow, HeadReturned
<1>3. /\ LogOf(events) \in Seq(Events) /\ Len(LogOf(events)) = MaxSeq(events)
      /\ \A i \in 1 .. MaxSeq(events) : LogOf(events)[i] = RowWith(events, i).event
  BY <1>1, LogType
<1>4. MaxSeq(events) \in Nat /\ n \in 1 .. MaxSeq(events)
  BY <1>1, <1>2 DEF Chained
<1>5. row.hash \in Seq(Events)
  BY <1>1 DEF Rows, Hashes
<1>6. row.hash = SubSeq(LogOf(events), 1, n)
  <2>1. \A i \in 1 .. n : LogOf(events)[i] \in Events
    BY <1>3, <1>4
  <2>2. /\ SubSeq(LogOf(events), 1, n) \in Seq(Events)
        /\ Len(SubSeq(LogOf(events), 1, n)) = n
        /\ \A i \in 1 .. n : SubSeq(LogOf(events), 1, n)[i] = LogOf(events)[i]
    <3>1. n \in Int /\ 1 \in Int /\ n - 1 + 1 = n /\ 1 <= n
      BY <1>4
    <3>2. /\ SubSeq(LogOf(events), 1, n) \in Seq(Events)
          /\ Len(SubSeq(LogOf(events), 1, n)) = IF 1 <= n THEN n - 1 + 1 ELSE 0
          /\ \A i \in 1 .. n - 1 + 1 : SubSeq(LogOf(events), 1, n)[i] = LogOf(events)[1 + i - 1]
      BY <2>1, <3>1, SubSeqProperties
    <3>3. \A i \in 1 .. n : 1 + i - 1 = i
      OBVIOUS
    <3> QED
      BY <3>1, <3>2, <3>3
  <2>3. Len(row.hash) = n /\ \A i \in 1 .. n : row.hash[i] = RowWith(events, i).event
    BY <1>1, <1>2 DEF HashCovers
  <2>4. \A i \in 1 .. n : row.hash[i] = SubSeq(LogOf(events), 1, n)[i]
    <3> TAKE i \in 1 .. n
    <3>1. i \in 1 .. MaxSeq(events)
      BY <1>4
    <3>2. LogOf(events)[i] = RowWith(events, i).event
      BY <1>3, <3>1
    <3>3. row.hash[i] = RowWith(events, i).event
      BY <2>3
    <3>4. SubSeq(LogOf(events), 1, n)[i] = LogOf(events)[i]
      BY <2>2
    <3> QED
      BY <3>2, <3>3, <3>4
  <2> QED
    BY <1>5, <2>2, <2>3, <2>4, SeqEqual
<1>7. acked' = acked \union {<<call[t].event, row.hash>>} /\ events' = events
  BY <1>2 DEF ReturnHead
<1>8. {a[2] : a \in acked'} = {a[2] : a \in acked} \union {row.hash}
  <2> DEFINE pair == <<call[t].event, row.hash>>
  <2>1. pair[2] = row.hash
    OBVIOUS
  <2>2. acked' = acked \union {pair}
    BY <1>7
  <2> HIDE DEF pair
  <2>3. {a[2] : a \in acked \union {pair}} = {a[2] : a \in acked} \union {pair[2]}
    OBVIOUS
  <2> QED
    BY <2>1, <2>2, <2>3
<1> QED
  BY <1>3, <1>4, <1>6, <1>7, <1>8 DEF Log!Return, LogOf

LEMMA StepMaps ==
  ASSUME RInv, RInv', [Next]_vars
  PROVE  [Log!LogNext]_<<LogOf(events), {a[2] : a \in acked}>>
<1>1. ASSUME NEW t \in Threads, Commit(t), events' # events
      PROVE  Log!LogNext
  <2>1. call[t].event \in Events
    BY DEF RInv, IInv, TypeOK
  <2> QED
    BY <1>1, <2>1, CommitMaps DEF Log!LogNext
<1>2. ASSUME NEW t \in Threads, ReturnHead(t)
      PROVE  Log!LogNext
  <2>1. Log!Return(call[t].seq) /\ call[t].seq \in 1 .. Len(LogOf(events))
    BY <1>2, ReturnMaps
  <2>2. \E k \in 1 .. Len(LogOf(events)) : Log!Return(k)
    BY <2>1 DEF Log!Return
  <2> QED
    BY <2>2 DEF Log!LogNext, LogOf
<1>3. CASE events' = events /\ acked' = acked
  BY <1>3 DEF LogOf
<1>4. ASSUME NEW t \in Threads, Commit(t) PROVE acked' = acked
  BY <1>4 DEF Commit
<1> QED
  BY <1>1, <1>2, <1>3, <1>4, OnlyCommitStores, OnlyReturnAcks

\* The ledger with its locks, transactions, handles, interrupts and crashes
\* implements the append-only log of unique events whose appends return only
\* when they are stored, and return the log up to their event.
THEOREM LedgerImplementsLog == Spec => ImplementsLog
<1>1. RInv /\ RInv' /\ [Next]_vars => [Log!LogNext]_<<LogOf(events), {a[2] : a \in acked}>>
  BY StepMaps
<1>2. RInv /\ [Next]_vars => RInv'
  BY NextRInv
<1> QED
  BY InitRInv, InitMaps, <1>1, <1>2, PTL DEF Spec, ImplementsLog, Log!LogSpec, LogOf

\* One handle works on one append at a time: two threads are never between
\* taking and releasing the same lock.
THEOREM OneAppendAtATime == Spec => []OneAppendPerHandle
<1>1. IInv => OneAppendPerHandle
  BY HandlesDiffer DEF OneAppendPerHandle
<1> QED
  BY InitIInv, NextIInv, <1>1, PTL DEF Spec
==============================================================================
