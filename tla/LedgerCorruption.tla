-------------------------- MODULE LedgerCorruption --------------------------
(***************************************************************************)
(* What verify() (src/lossbench/ledger/store.py) says of a ledger file     *)
(* that was damaged: appends made one after another (as AuditLedger shows  *)
(* they are), and at most one damage to the stored rows, before or between *)
(* them.  append() does not verify: it builds on whatever row is last.     *)
(***************************************************************************)
EXTENDS LedgerChain

VARIABLES rows,   \* the table events
          damage  \* what happened to it: [kind, seq]

vars == <<rows, damage>>

NoDamage == [kind |-> "none", seq |-> 0]

Init == rows = {} /\ damage = NoDamage

\* append() of an event whose id is new.
AppendEvent(e) ==
    LET next == MaxSeq(rows) + 1 IN
    /\ \A r \in rows : r.event.id # e.id
    /\ rows' = rows \union {NewRow(e, next, PrevHash(rows, next))}
    /\ UNCHANGED damage

Damaged(kind, n) ==
    /\ damage.kind = "none"
    /\ damage' = [kind |-> kind, seq |-> n]

Replace(r, q) == rows' = (rows \ {r}) \union {q}

\* The stored JSON of a row changes.
EditEvent(r, b) ==
    /\ b # r.event.body
    /\ Replace(r, [r EXCEPT !.event.body = b])
    /\ Damaged("edit", r.seq)

\* A stored chain field changes to another hash of the table.
EditChainField(r, h) ==
    /\ \/ h # r.prev /\ Replace(r, [r EXCEPT !.prev = h])
       \/ h # r.hash /\ Replace(r, [r EXCEPT !.hash = h])
    /\ Damaged("edit", r.seq)

\* A row that is not the last is lost.
LoseRow(r) ==
    /\ r.seq < MaxSeq(rows)
    /\ rows' = rows \ {r}
    /\ Damaged("loss", r.seq + 1)

\* Two rows change places.
SwapRows(r, q) ==
    /\ r.seq < q.seq
    /\ rows' = (rows \ {r, q}) \union {[r EXCEPT !.seq = q.seq], [q EXCEPT !.seq = r.seq]}
    /\ Damaged("swap", r.seq)

\* The rows from r on are lost.
LoseTail(r) ==
    /\ rows' = Before(rows, r)
    /\ Damaged("tail", r.seq)

\* The last row is replaced by one with another content and a matching hash.
RewriteLast(r, b) ==
    /\ r.seq = MaxSeq(rows)
    /\ b # r.event.body
    /\ Replace(r, NewRow([r.event EXCEPT !.body = b], r.seq, r.prev))
    /\ Damaged("rewrite", r.seq)

HashesInUse == {GENESIS} \union {r.hash : r \in rows}

Next ==
    \/ \E e \in Events : AppendEvent(e)
    \/ \E r \in rows, b \in Bodies : EditEvent(r, b)
    \/ \E r \in rows, h \in HashesInUse : EditChainField(r, h)
    \/ \E r \in rows : LoseRow(r)
    \/ \E r, q \in rows : SwapRows(r, q)
    \/ \E r \in rows : LoseTail(r)
    \/ \E r \in rows, b \in Bodies : RewriteLast(r, b)

Spec == Init /\ [][Next]_vars

------------------------------------------------------------------------------
\* The chain a verifier derives from the events alone: the hash of the row r
\* and of every row before it, from GENESIS, in the order of seq.
Derived(table) ==
    LET derived[r \in table] ==
            LET before == Before(table, r) IN
            ChainHash(r.event, IF before = {} THEN GENESIS
                               ELSE derived[RowWith(table, MaxSeq(before))])
    IN  derived

\* A table is what appending its events in the order of seq would store.
Rederives(table) ==
    \A r \in table : r.hash = Derived(table)[r] /\ Append(r.prev, r.event) = r.hash

\* verify() accepts a table exactly when every chain field can be re-derived
\* from the events alone, and then its head is the re-derived head.
VerifyIsRederivation ==
    /\ Verify(rows).valid <=> Rederives(rows)
    /\ rows # {} /\ Verify(rows).valid =>
         Verify(rows).head = Derived(rows)[RowWith(rows, MaxSeq(rows))]

\* A damaged row, a lost row and two exchanged rows are reported by verify(),
\* at the row where the chain first breaks, and go on being reported at that
\* row however many events are appended on top of the damage.  And the limit
\* the module docstring states: "a tail truncation or a consistent rewrite from
\* some row onward is undetectable by the chain alone".
DamageIsLocated ==
    IF damage.kind \in {"edit", "loss", "swap"}
    THEN ~ Verify(rows).valid /\ Verify(rows).first_bad_seq = damage.seq
    ELSE Verify(rows).valid

==============================================================================
