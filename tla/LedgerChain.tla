----------------------------- MODULE LedgerChain -----------------------------
(***************************************************************************)
(* The rows of the audit ledger and the hash chain through them            *)
(* (src/lossbench/ledger/store.py): what append() writes in a row, what    *)
(* the table's constraints forbid, and what verify() computes from rows.   *)
(*                                                                         *)
(* SHA-256 is taken to be free of collisions: the hash of an event over a  *)
(* previous hash is the sequence of the events that hash covers followed   *)
(* by the event, and GENESIS covers none.                                  *)
(***************************************************************************)
EXTENDS Naturals, FiniteSets, Sequences

CONSTANTS EventIds,  \* values of DecisionEvent.event_id
          Bodies     \* the rest of an event's canonical JSON

ASSUME ConstantsNonEmpty == EventIds # {} /\ Bodies # {}

\* A DecisionEvent as the ledger sees it: its key and its canonical JSON.
Events == [id : EventIds, body : Bodies]

GENESIS == << >>
Hashes == Seq(Events)

\* Mutant: the previous hash is left out of the digest.
ChainHashOfEventOnly(e, prev) == << e >>

ChainHash(e, prev) == Append(prev, e)

\* One row of the table events: the columns the chain is made of.
Rows == [event : Events, seq : Nat \ {0}, prev : Hashes, hash : Hashes]

RowWith(rows, n) == CHOOSE r \in rows : r.seq = n

\* SELECT COALESCE(MAX(seq), 0) FROM events.
MaxSeq(rows) ==
    IF rows = {} THEN 0
    ELSE (CHOOSE r \in rows : \A q \in rows : q.seq <= r.seq).seq

\* The prev_hash of row n over the rows a transaction sees.
PrevHash(rows, n) == IF n = 1 THEN GENESIS ELSE RowWith(rows, n - 1).hash

NewRow(e, n, prev) ==
    [event |-> e, seq |-> n, prev |-> prev, hash |-> ChainHash(e, prev)]

\* Mutant: the table without UNIQUE on seq.
ViolatesKeyOnly(row, rows) == \E r \in rows : r.event.id = row.event.id

\* PRIMARY KEY(event_id) and UNIQUE(seq) refuse the row.
Violates(row, rows) ==
    \E r \in rows : r.event.id = row.event.id \/ r.seq = row.seq

------------------------------------------------------------------------------
(***************************************************************************)
(* verify(): the rows in the order of seq, each checked against the stored *)
(* hash of the row before it, up to the first that does not fit.           *)
(***************************************************************************)
Before(rows, r) == {q \in rows : q.seq < r.seq}

\* The stored chain_hash of the row verify() visited just before r.
StoredHashBefore(rows, r) ==
    IF Before(rows, r) = {} THEN GENESIS
    ELSE RowWith(rows, MaxSeq(Before(rows, r))).hash

\* Mutant: only the linkage is checked, the content hash is not recomputed.
FitsByLinkOnly(rows, r) == r.prev = StoredHashBefore(rows, r)

\* Mutant: the content hash is recomputed over the row's own prev_hash.
FitsByOwnPrev(rows, r) == r.hash = ChainHash(r.event, r.prev)

Fits(rows, r) ==
    /\ r.prev = StoredHashBefore(rows, r)
    /\ r.hash = ChainHash(r.event, StoredHashBefore(rows, r))

\* verify(); first_bad_seq is 0 where the code has None.
Verify(rows) ==
    LET bad   == {r \in rows : ~ Fits(rows, r)}
        first == CHOOSE r \in bad : \A q \in bad : r.seq <= q.seq
    IN  [valid         |-> bad = {},
         head          |-> IF bad # {} THEN StoredHashBefore(rows, first)
                           ELSE IF rows = {} THEN GENESIS
                           ELSE RowWith(rows, MaxSeq(rows)).hash,
         n_events      |-> Cardinality(rows),
         first_bad_seq |-> IF bad = {} THEN 0 ELSE first.seq]
==============================================================================
