----------------------- MODULE LedgerCorruptionProofs -----------------------
(***************************************************************************)
(* Proofs about LedgerCorruption: verify() accepts exactly the tables that *)
(* can be derived again from their events, and a damage is reported at the *)
(* row where the chain first breaks, for any events, any length of the     *)
(* ledger and any number of appends on top of the damage.                  *)
(***************************************************************************)
EXTENDS LedgerCorruption, WellFoundedInduction, TLAPS

\* Any set of natural numbers that is not empty has a least one.
LEMMA LeastNumber ==
  ASSUME NEW T, T \subseteq Nat, T # {}
  PROVE  \E n \in T : \A m \in T : n <= m
<1> DEFINE Less == OpToRel(<, Nat)
<1>1. IsWellFoundedOn(Less, Nat)
  BY NatLessThanWellFounded
<1>2. PICK n \in T : \A m \in T : ~ (<<m, n>> \in Less)
  <2> HIDE DEF Less
  <2> QED
    BY <1>1, WFMin
<1>3. \A m \in T : ~ (m < n)
  BY <1>2 DEF OpToRel
<1> QED
  BY <1>3

------------------------------------------------------------------------------
\* A table has one row for a seq, and no seq beyond some number.
IsTable(table) ==
    /\ table \in SUBSET Rows
    /\ \A r, q \in table : r.seq = q.seq => r = q
    /\ \E n \in Nat : \A r \in table : r.seq <= n

LEMMA PartOfTable ==
  ASSUME NEW table, IsTable(table), NEW part \in SUBSET table
  PROVE  IsTable(part)
BY DEF IsTable

\* A table that is not empty has a last row, and MAX(seq) is its seq.
LEMMA LastRow ==
  ASSUME NEW table, IsTable(table), table # {}
  PROVE  /\ RowWith(table, MaxSeq(table)) \in table
         /\ \A q \in table : q.seq <= RowWith(table, MaxSeq(table)).seq
         /\ MaxSeq(table) = RowWith(table, MaxSeq(table)).seq
         /\ MaxSeq(table) \in Nat \ {0}
<1>1. PICK n \in Nat : \A r \in table : r.seq <= n
  BY DEF IsTable
<1>2. \A r \in table : r.seq \in Nat \ {0}
  BY DEF IsTable, Rows
<1> DEFINE distances == {n - r.seq : r \in table}
<1>3. distances \subseteq Nat /\ distances # {}
  BY <1>1, <1>2
<1>4. PICK d \in distances : \A e \in distances : d <= e
  <2> HIDE DEF distances
  <2> QED
    BY <1>3, LeastNumber
<1>5. PICK last \in table : d = n - last.seq
  BY <1>4
<1>6. \A q \in table : q.seq <= last.seq
  <2> TAKE q \in table
  <2>1. n - last.seq <= n - q.seq
    BY <1>4, <1>5
  <2>2. n \in Nat /\ last.seq \in Nat /\ q.seq \in Nat
    BY <1>2
  <2> QED
    BY <2>1, <2>2
<1> DEFINE max == CHOOSE r \in table : \A q \in table : q.seq <= r.seq
<1>7. max \in table /\ \A q \in table : q.seq <= max.seq
  BY <1>6
<1>8. MaxSeq(table) = max.seq
  BY DEF MaxSeq
<1> HIDE DEF max
<1>9. RowWith(table, MaxSeq(table)) = max
  BY <1>7, <1>8 DEF RowWith, IsTable
<1> QED
  BY <1>2, <1>7, <1>8, <1>9

LastBefore(table, r) == RowWith(table, MaxSeq(Before(table, r)))

\* The row that verify() visits before r.
LEMMA RowBefore ==
  ASSUME NEW table, IsTable(table), NEW r \in table, Before(table, r) # {}
  PROVE  /\ LastBefore(table, r) \in table
         /\ LastBefore(table, r).seq < r.seq
         /\ \A q \in table : q.seq < r.seq => q.seq <= LastBefore(table, r).seq
<1> DEFINE before == Before(table, r)
           last == RowWith(before, MaxSeq(before))
<1>1. before \in SUBSET table
  BY DEF Before
<1>2. IsTable(before)
  BY <1>1, PartOfTable
<1>3. last \in before /\ (\A q \in before : q.seq <= last.seq) /\ MaxSeq(before) = last.seq
  <2> HIDE DEF before
  <2> QED
    BY <1>2, LastRow DEF before
<1>4. LastBefore(table, r) = last
  <2> HIDE DEF before, last
  <2> QED
    BY <1>1, <1>3 DEF LastBefore, RowWith, IsTable, before
<1> QED
  BY <1>1, <1>3, <1>4 DEF Before

\* Which hash verify() expects depends on the rows before alone.
LEMMA OnlyRowsBeforeCount ==
  ASSUME NEW table, IsTable(table), NEW other, IsTable(other),
         NEW r \in table, NEW q \in other, Before(table, r) = Before(other, q)
  PROVE  StoredHashBefore(table, r) = StoredHashBefore(other, q)
<1>1. CASE Before(table, r) = {}
  BY <1>1 DEF StoredHashBefore
<1>2. CASE Before(table, r) # {}
  <2> DEFINE before == Before(table, r)
             last == RowWith(before, MaxSeq(before))
  <2>1. before \in SUBSET table /\ before \in SUBSET other
    BY DEF Before
  <2>2. IsTable(before)
    BY <2>1, PartOfTable
  <2>3. last \in before /\ MaxSeq(before) = last.seq
    <3> HIDE DEF before
    <3> QED
      BY <1>2, <2>2, LastRow DEF before
  <2>4. RowWith(table, MaxSeq(before)) = last /\ RowWith(other, MaxSeq(before)) = last
    <3> HIDE DEF before, last
    <3> QED
      BY <2>1, <2>3 DEF RowWith, IsTable
  <2> QED
    BY <1>2, <2>4 DEF StoredHashBefore
<1> QED
  BY <1>1, <1>2

LEMMA StoredHashIsHash ==
  ASSUME NEW table, IsTable(table), NEW r \in table
  PROVE  StoredHashBefore(table, r) \in Hashes
<1>1. CASE Before(table, r) = {}
  BY <1>1 DEF StoredHashBefore, GENESIS, Hashes
<1>2. CASE Before(table, r) # {}
  BY <1>2, RowBefore DEF StoredHashBefore, LastBefore, IsTable, Rows
<1> QED
  BY <1>1, <1>2

\* The hash of an event over a previous hash tells both.
LEMMA HashTells ==
  ASSUME NEW prev \in Hashes, NEW other \in Hashes, NEW e \in Events, NEW d \in Events
  PROVE  /\ ChainHash(e, prev) \in Hashes
         /\ Len(ChainHash(e, prev)) = Len(prev) + 1
         /\ ChainHash(e, prev) = ChainHash(d, other) => e = d /\ prev = other
<1> HIDE DEF Events
<1>1. prev \in Seq(Events) /\ other \in Seq(Events)
  BY DEF Hashes
<1>2. Append(prev, e) \in Seq(Events) /\ Len(Append(prev, e)) = Len(prev) + 1
  BY <1>1
<1>3. ASSUME Append(prev, e) = Append(other, d)
      PROVE  e = d /\ prev = other
  <2>1. Len(prev) = Len(other)
    BY <1>1, <1>3
  <2>2. Append(prev, e)[Len(prev) + 1] = e /\ Append(other, d)[Len(other) + 1] = d
    BY <1>1
  <2>3. \A i \in 1 .. Len(prev) : prev[i] = other[i]
    <3> TAKE i \in 1 .. Len(prev)
    <3>1. Append(prev, e)[i] = prev[i] /\ Append(other, d)[i] = other[i]
      BY <1>1, <2>1
    <3> QED
      BY <1>3, <3>1
  <2> QED
    BY <1>1, <1>3, <2>1, <2>2, <2>3
<1> QED
  BY <1>2, <1>3 DEF ChainHash, Hashes

------------------------------------------------------------------------------
\* A table as append() makes it: seqs without a gap, and rows that fit.
Whole(table) ==
    /\ IsTable(table)
    /\ \E n \in Nat : {r.seq : r \in table} = 1 .. n
    /\ \A r \in table : Fits(table, r) /\ Len(r.hash) = r.seq

\* The chain first breaks at seq n.
BreaksAt(table, n) ==
    \E r \in table : /\ r.seq = n /\ ~ Fits(table, r)
                     /\ \A q \in table : q.seq < n => Fits(table, q)

LEMMA FitsAlike ==
  ASSUME NEW table, IsTable(table), NEW other, IsTable(other),
         NEW q \in table, q \in other, Before(table, q) = Before(other, q)
  PROVE  Fits(table, q) <=> Fits(other, q)
BY OnlyRowsBeforeCount DEF Fits

\* What verify() expects of a row of a whole table, and finds there.
LEMMA WholeRow ==
  ASSUME NEW table, Whole(table), NEW r \in table
  PROVE  LET stored == StoredHashBefore(table, r) IN
         /\ stored \in Hashes /\ Len(stored) = r.seq - 1
         /\ r.prev = stored /\ r.hash = ChainHash(r.event, stored)
         /\ r.event \in Events /\ r.seq \in Nat \ {0}
<1>1. IsTable(table) /\ Fits(table, r) /\ Len(r.hash) = r.seq
  BY DEF Whole
<1>2. StoredHashBefore(table, r) \in Hashes
  BY <1>1, StoredHashIsHash
<1>3. r.event \in Events /\ r.seq \in Nat \ {0}
  BY <1>1 DEF IsTable, Rows
<1>4. Len(ChainHash(r.event, StoredHashBefore(table, r))) = Len(StoredHashBefore(table, r)) + 1
  BY <1>2, <1>3, HashTells
<1>5. Len(StoredHashBefore(table, r)) \in Nat
  BY <1>2 DEF Hashes
<1> QED
  BY <1>1, <1>2, <1>3, <1>4, <1>5 DEF Fits

\* A row of append() goes behind all rows, fits, and changes nothing for them.
LEMMA AppendedRow ==
  ASSUME NEW table, IsTable(table), NEW e \in Events,
         NEW row, row = NewRow(e, MaxSeq(table) + 1, PrevHash(table, MaxSeq(table) + 1)),
         NEW all, all = table \union {row}
  PROVE  /\ IsTable(all) /\ row.seq = MaxSeq(table) + 1
         /\ \A q \in table : q.seq < row.seq /\ Before(all, q) = Before(table, q)
         /\ Fits(all, row)
         /\ row.hash = ChainHash(e, PrevHash(table, row.seq))
         /\ PrevHash(table, row.seq) \in Hashes
<1> DEFINE n == MaxSeq(table) + 1
<1>1. /\ MaxSeq(table) \in Nat
      /\ \A q \in table : q.seq <= MaxSeq(table) /\ q.seq \in Nat \ {0}
      /\ table = {} => MaxSeq(table) = 0
  <2>1. table = {} => MaxSeq(table) = 0
    BY DEF MaxSeq
  <2>2. table # {} => MaxSeq(table) \in Nat /\ \A q \in table : q.seq <= MaxSeq(table)
    BY LastRow
  <2> QED
    BY <2>1, <2>2 DEF IsTable, Rows
<1>2. /\ PrevHash(table, n) \in Hashes
      /\ table # {} => PrevHash(table, n) = RowWith(table, MaxSeq(table)).hash
  <2>1. CASE table = {}
    BY <1>1, <2>1 DEF PrevHash, GENESIS, Hashes
  <2>2. CASE table # {}
    BY <1>1, <2>2, LastRow DEF PrevHash, IsTable, Rows
  <2> QED
    BY <2>1, <2>2
<1>3. row \in Rows /\ row.seq = n /\ row.prev = PrevHash(table, n) /\ row.event = e
      /\ row.hash = ChainHash(e, PrevHash(table, n))
  <2>1. n \in Nat \ {0}
    BY <1>1
  <2>2. row = NewRow(e, n, PrevHash(table, n)) /\ PrevHash(table, n) \in Hashes
    BY <1>2
  <2> HIDE DEF n
  <2> DEFINE prev == PrevHash(table, n)
  <2>3. ChainHash(e, prev) \in Hashes
    <3> HIDE DEF prev
    <3> QED
      BY <2>2, HashTells DEF prev
  <2> HIDE DEF prev
  <2>4. row = [event |-> e, seq |-> n, prev |-> prev, hash |-> ChainHash(e, prev)]
    BY <2>2 DEF NewRow, prev
  <2>5. row \in Rows
    BY <2>1, <2>2, <2>3, <2>4 DEF Rows, prev
  <2> QED
    BY <2>4, <2>5 DEF prev
<1>4. IsTable(all)
  <2>1. all \in SUBSET Rows
    BY <1>3 DEF IsTable
  <2>2. \A r, q \in all : r.seq = q.seq => r = q
    BY <1>1, <1>3 DEF IsTable
  <2>3. n \in Nat /\ \A r \in all : r.seq <= n
    BY <1>1, <1>3
  <2> QED
    BY <2>1, <2>2, <2>3 DEF IsTable
<1>5. \A q \in table : q.seq < row.seq
  BY <1>1, <1>3
<1>6. \A q \in table : Before(all, q) = Before(table, q)
  BY <1>1, <1>3 DEF Before
<1>7. Before(all, row) = table
  BY <1>1, <1>3 DEF Before
<1>8. StoredHashBefore(all, row) = PrevHash(table, n)
  <2>1. CASE table = {}
    <3>1. n = 1
      BY <1>1, <2>1
    <3> QED
      BY <1>7, <2>1, <3>1 DEF StoredHashBefore, PrevHash
  <2>2. CASE table # {}
    <3>1. RowWith(all, MaxSeq(table)) = RowWith(table, MaxSeq(table))
      BY <1>4, <2>2, LastRow DEF RowWith, IsTable
    <3>2. StoredHashBefore(all, row) = RowWith(all, MaxSeq(table)).hash
      BY <1>7, <2>2 DEF StoredHashBefore
    <3>3. PrevHash(table, n) = RowWith(table, MaxSeq(table)).hash
      BY <1>2, <2>2
    <3> HIDE DEF n
    <3> QED
      BY <3>1, <3>2, <3>3
  <2> QED
    BY <2>1, <2>2
<1> HIDE DEF n
<1>9. Fits(all, row)
  BY <1>3, <1>8 DEF Fits
<1>10. row.seq = MaxSeq(table) + 1 /\ PrevHash(table, row.seq) = PrevHash(table, n)
  BY <1>3 DEF n
<1>11. row.hash = ChainHash(e, PrevHash(table, row.seq)) /\ PrevHash(table, row.seq) \in Hashes
  BY <1>2, <1>3, <1>10
<1> QED
  BY <1>4, <1>5, <1>6, <1>9, <1>10, <1>11

\* append() on a whole table leaves a whole one.
LEMMA WholeGrows ==
  ASSUME NEW table, Whole(table), NEW e \in Events,
         NEW row, row = NewRow(e, MaxSeq(table) + 1, PrevHash(table, MaxSeq(table) + 1))
  PROVE  Whole(table \union {row})
<1> DEFINE all == table \union {row}
<1>1. IsTable(table)
  BY DEF Whole
<1>2. /\ IsTable(all) /\ row.seq = MaxSeq(table) + 1
      /\ \A q \in table : q.seq < row.seq /\ Before(all, q) = Before(table, q)
      /\ Fits(all, row)
      /\ row.hash = ChainHash(e, PrevHash(table, row.seq))
      /\ PrevHash(table, row.seq) \in Hashes
  BY <1>1, AppendedRow
<1>3. PICK n \in Nat : {r.seq : r \in table} = 1 .. n
  BY DEF Whole
<1>4. MaxSeq(table) = n
  <2>1. CASE table = {}
    <3>1. \A i \in 1 .. n : FALSE
      BY <1>3, <2>1
    <3>2. n = 0
      BY <3>1
    <3> QED
      BY <2>1, <3>2 DEF MaxSeq
  <2>2. CASE table # {}
    <3> DEFINE last == RowWith(table, MaxSeq(table))
    <3>1. last \in table /\ (\A q \in table : q.seq <= last.seq) /\ MaxSeq(table) = last.seq
      BY <1>1, <2>2, LastRow
    <3> HIDE DEF last
    <3>2. last.seq \in 1 .. n
      BY <1>3, <3>1
    <3>3. n \in 1 .. n
      BY <3>2
    <3>4. PICK top \in table : top.seq = n
      BY <1>3, <3>3
    <3> QED
      BY <3>1, <3>2, <3>4
  <2> QED
    BY <2>1, <2>2
<1>5. {r.seq : r \in all} = 1 .. (n + 1)
  <2>1. {r.seq : r \in all} = {r.seq : r \in table} \union {row.seq}
    OBVIOUS
  <2> QED
    BY <1>2, <1>3, <1>4, <2>1
<1>6. \A r \in all : Fits(all, r)
  <2>1. ASSUME NEW r \in table PROVE Fits(all, r)
    BY <1>1, <1>2, <2>1, FitsAlike DEF Whole
  <2> QED
    BY <1>2, <2>1
<1>7. Len(row.hash) = row.seq
  <2>1. Len(PrevHash(table, row.seq)) = n
    <3>1. CASE n = 0
      BY <1>2, <1>4, <3>1 DEF PrevHash, GENESIS
    <3>2. CASE n # 0
      <4>1. n \in 1 .. n
        BY <3>2
      <4>2. PICK top \in table : top.seq = n
        BY <1>3, <4>1
      <4>3. RowWith(table, n) = top
        BY <1>1, <4>2 DEF RowWith, IsTable
      <4>4. PrevHash(table, row.seq) = top.hash
        BY <1>2, <1>4, <3>2, <4>3 DEF PrevHash
      <4> QED
        BY <4>2, <4>4 DEF Whole
    <3> QED
      BY <3>1, <3>2
  <2> QED
    BY <1>2, <1>4, <2>1, HashTells
<1>8. n + 1 \in Nat
  OBVIOUS
<1> QED
  BY <1>2, <1>5, <1>6, <1>7, <1>8 DEF Whole

------------------------------------------------------------------------------
\* A row takes the place of another: what comes before is as it was.
LEMMA ReplacedRow ==
  ASSUME NEW table, Whole(table), NEW r \in table, NEW new \in Rows, new.seq = r.seq,
         NEW other, other = (table \ {r}) \union {new}
  PROVE  /\ IsTable(other)
         /\ StoredHashBefore(other, new) = StoredHashBefore(table, r)
         /\ \A q \in other : q.seq < r.seq => Fits(other, q)
<1>1. IsTable(table)
  BY DEF Whole
<1>2. \A q \in table : q.seq \in Nat
  BY <1>1 DEF IsTable, Rows
<1>3. IsTable(other)
  <2>1. other \in SUBSET Rows /\ \A p, q \in other : p.seq = q.seq => p = q
    BY <1>1 DEF IsTable
  <2>2. PICK n \in Nat : \A q \in table : q.seq <= n
    BY <1>1 DEF IsTable
  <2>3. \A q \in other : q.seq <= n
    BY <2>2
  <2> QED
    BY <2>1, <2>3 DEF IsTable
<1>4. Before(other, new) = Before(table, r)
  BY <1>2 DEF Before
<1>5. ASSUME NEW q \in other, q.seq < r.seq
      PROVE  Fits(other, q)
  <2>1. q \in table
    BY <1>2, <1>5
  <2>2. Before(table, q) = Before(other, q)
    BY <1>2, <1>5, <2>1 DEF Before
  <2> QED
    BY <1>1, <1>3, <2>1, <2>2, FitsAlike DEF Whole
<1> QED
  BY <1>1, <1>3, <1>4, <1>5, OnlyRowsBeforeCount

\* The stored JSON or a chain field of a row is another.
LEMMA EditBreaks ==
  ASSUME NEW table, Whole(table), NEW r \in table, NEW new \in Rows, new.seq = r.seq,
         \/ new.event # r.event /\ new.hash = r.hash
         \/ new.event = r.event /\ new.hash # r.hash
         \/ new.prev # r.prev,
         NEW other, other = (table \ {r}) \union {new}
  PROVE  IsTable(other) /\ BreaksAt(other, r.seq)
<1> DEFINE stored == StoredHashBefore(table, r)
<1>1. /\ stored \in Hashes /\ r.prev = stored /\ r.hash = ChainHash(r.event, stored)
      /\ r.event \in Events
  BY WholeRow
<1>2. /\ IsTable(other) /\ StoredHashBefore(other, new) = stored
      /\ \A q \in other : q.seq < r.seq => Fits(other, q)
  BY ReplacedRow
<1>3. new.event \in Events
  BY DEF Rows
<1> HIDE DEF stored
<1>4. new.event # r.event => ChainHash(new.event, stored) # ChainHash(r.event, stored)
  BY <1>1, <1>3, HashTells
<1>5. ~ Fits(other, new)
  BY <1>1, <1>2, <1>4 DEF Fits
<1> QED
  BY <1>2, <1>5 DEF BreaksAt

\* A row is lost: the one after it finds another hash than it was built on.
LEMMA LossBreaks ==
  ASSUME NEW table, Whole(table), NEW r \in table, r.seq < MaxSeq(table)
  PROVE  IsTable(table \ {r}) /\ BreaksAt(table \ {r}, r.seq + 1)
<1> DEFINE other == table \ {r}
<1>1. IsTable(table) /\ IsTable(other)
  BY PartOfTable DEF Whole
<1>2. PICK n \in Nat : {q.seq : q \in table} = 1 .. n
  BY DEF Whole
<1>3. \A q \in table : q.seq \in Nat \ {0}
  BY <1>1 DEF IsTable, Rows
<1>4. PICK next \in table : next.seq = r.seq + 1
  <2>1. MaxSeq(table) \in 1 .. n
    <3>1. RowWith(table, MaxSeq(table)) \in table
          /\ MaxSeq(table) = RowWith(table, MaxSeq(table)).seq
      BY <1>1, LastRow
    <3> QED
      BY <1>2, <3>1
  <2>2. r.seq + 1 \in 1 .. n
    BY <1>3, <2>1
  <2> QED
    BY <1>2, <2>2
<1>5. next \in other
  BY <1>3, <1>4
<1>6. Before(other, next) = Before(table, r)
  BY <1>1, <1>3, <1>4 DEF Before, IsTable
<1> HIDE DEF other
<1>7. StoredHashBefore(other, next) = StoredHashBefore(table, r)
  BY <1>1, <1>5, <1>6, OnlyRowsBeforeCount
<1>8. Len(StoredHashBefore(table, r)) = r.seq - 1 /\ Len(next.prev) = next.seq - 1
  BY <1>4, WholeRow
<1>9. ~ Fits(other, next)
  BY <1>3, <1>4, <1>7, <1>8 DEF Fits
<1>10. ASSUME NEW q \in other, q.seq < r.seq + 1
       PROVE  Fits(other, q)
  <2>1. q \in table /\ q # r
    BY DEF other
  <2>2. Before(table, q) = Before(other, q)
    BY <1>1, <1>3, <1>10, <2>1 DEF Before, other, IsTable
  <2> QED
    BY <1>1, <1>10, <2>1, <2>2, FitsAlike DEF Whole
<1>11. BreaksAt(other, r.seq + 1)
  BY <1>4, <1>5, <1>9, <1>10 DEF BreaksAt
<1> QED
  BY <1>1, <1>11 DEF other

\* Two rows change places: the later one finds another hash than it was built
\* on where it now stands.
LEMMA SwapBreaks ==
  ASSUME NEW table, Whole(table), NEW r \in table, NEW q \in table, r.seq < q.seq,
         NEW other,
         other = (table \ {r, q}) \union {[r EXCEPT !.seq = q.seq], [q EXCEPT !.seq = r.seq]}
  PROVE  IsTable(other) /\ BreaksAt(other, r.seq)
<1> DEFINE up == [r EXCEPT !.seq = q.seq]
           down == [q EXCEPT !.seq = r.seq]
<1>1. IsTable(table)
  BY DEF Whole
<1>2. r \in Rows /\ q \in Rows /\ \A p \in table : p.seq \in Nat \ {0}
  BY <1>1 DEF IsTable, Rows
<1>3. /\ up \in Rows /\ up.seq = q.seq
      /\ down \in Rows /\ down.seq = r.seq /\ down.prev = q.prev
  BY <1>2 DEF Rows
<1> HIDE DEF up, down
<1>4. other = (table \ {r, q}) \union {up, down}
  BY DEF up, down
<1>5. IsTable(other)
  <2>1. other \in SUBSET Rows
    BY <1>1, <1>3, <1>4 DEF IsTable
  <2>2. \A p, s \in other : p.seq = s.seq => p = s
    BY <1>1, <1>2, <1>3, <1>4 DEF IsTable
  <2>3. PICK n \in Nat : \A p \in table : p.seq <= n
    BY <1>1 DEF IsTable
  <2>4. \A p \in other : p.seq <= n
    BY <1>3, <1>4, <2>3
  <2> QED
    BY <2>1, <2>2, <2>4 DEF IsTable
<1>6. Before(other, down) = Before(table, r)
  BY <1>2, <1>3, <1>4 DEF Before
<1>7. StoredHashBefore(other, down) = StoredHashBefore(table, r)
  BY <1>1, <1>4, <1>5, <1>6, OnlyRowsBeforeCount
<1>8. /\ Len(StoredHashBefore(table, r)) = r.seq - 1
      /\ q.prev = StoredHashBefore(table, q) /\ Len(StoredHashBefore(table, q)) = q.seq - 1
  BY WholeRow
<1>9. ~ Fits(other, down)
  BY <1>2, <1>3, <1>7, <1>8 DEF Fits
<1>10. ASSUME NEW p \in other, p.seq < r.seq
       PROVE  Fits(other, p)
  <2>1. p \in table
    BY <1>2, <1>3, <1>4, <1>10
  <2>2. Before(table, p) = Before(other, p)
    BY <1>2, <1>3, <1>4, <1>10, <2>1 DEF Before
  <2> QED
    BY <1>1, <1>5, <2>1, <2>2, FitsAlike DEF Whole
<1> QED
  BY <1>3, <1>4, <1>5, <1>9, <1>10 DEF BreaksAt

\* What is left when a tail is lost is a whole table.
LEMMA TailLeavesWhole ==
  ASSUME NEW table, Whole(table), NEW r \in table
  PROVE  Whole(Before(table, r))
<1> DEFINE other == Before(table, r)
<1>1. IsTable(table) /\ IsTable(other) /\ other \in SUBSET table
  BY PartOfTable DEF Whole, Before
<1>2. PICK n \in Nat : {q.seq : q \in table} = 1 .. n
  BY DEF Whole
<1>3. r.seq \in 1 .. n /\ \A q \in table : q.seq \in 1 .. n
  BY <1>2
<1>4. {q.seq : q \in other} = 1 .. (r.seq - 1)
  <2>1. ASSUME NEW i \in 1 .. (r.seq - 1)
        PROVE  i \in {q.seq : q \in other}
    <3>1. i \in 1 .. n
      BY <1>3
    <3>2. PICK q \in table : q.seq = i
      BY <1>2, <3>1
    <3> QED
      BY <1>3, <3>2 DEF Before
  <2>2. \A q \in other : q.seq \in 1 .. (r.seq - 1)
    BY <1>3 DEF Before
  <2> QED
    BY <2>1, <2>2
<1>5. ASSUME NEW q \in other
      PROVE  Fits(other, q) /\ Len(q.hash) = q.seq
  <2>1. Before(table, q) = Before(other, q)
    BY <1>3, <1>5 DEF Before
  <2> HIDE DEF other
  <2> QED
    BY <1>1, <2>1, FitsAlike DEF Whole
<1>6. r.seq - 1 \in Nat
  BY <1>3
<1> HIDE DEF other
<1>7. Whole(other)
  BY <1>1, <1>4, <1>5, <1>6 DEF Whole
<1> QED
  BY <1>7 DEF other

\* A last row that is rewritten with its hash fits: nothing tells.
LEMMA RewriteLeavesWhole ==
  ASSUME NEW table, Whole(table), NEW r \in table, r.seq = MaxSeq(table),
         NEW e \in Events, NEW new, new = NewRow(e, r.seq, r.prev),
         NEW other, other = (table \ {r}) \union {new}
  PROVE  Whole(other)
<1> DEFINE stored == StoredHashBefore(table, r)
<1>1. /\ stored \in Hashes /\ r.prev = stored /\ Len(stored) = r.seq - 1
      /\ r.seq \in Nat \ {0}
  BY WholeRow
<1> HIDE DEF stored
<1>2. ChainHash(e, stored) \in Hashes /\ Len(ChainHash(e, stored)) = r.seq
  BY <1>1, HashTells
<1>3. new \in Rows /\ new.seq = r.seq /\ new.event = e /\ new.prev = stored
      /\ new.hash = ChainHash(e, stored)
  BY <1>1, <1>2 DEF NewRow, Rows
<1>4. /\ IsTable(other) /\ StoredHashBefore(other, new) = stored
      /\ \A q \in other : q.seq < r.seq => Fits(other, q)
  BY <1>3, ReplacedRow DEF stored
<1>5. \A q \in table : q.seq <= r.seq /\ q.seq \in Nat
  BY LastRow DEF Whole, IsTable, Rows
<1>6. \A q \in other : q # new => q.seq < r.seq
  BY <1>1, <1>5 DEF Whole, IsTable
<1>7. {q.seq : q \in other} = {q.seq : q \in table}
  BY <1>3
<1> QED
  BY <1>2, <1>3, <1>4, <1>6, <1>7 DEF Whole, Fits

------------------------------------------------------------------------------
\* Damage that breaks the chain.
Telling == {"edit", "loss", "swap"}

\* A table that was damaged by something that tells breaks there; any other is
\* whole.
DamageInv ==
    IF damage.kind \in Telling THEN IsTable(rows) /\ BreaksAt(rows, damage.seq)
    ELSE Whole(rows)

LEMMA DamageInit == Init => DamageInv
<1> SUFFICES ASSUME Init PROVE DamageInv
  OBVIOUS
<1>1. rows = {} /\ damage.kind = "none"
  BY DEF Init, NoDamage
<1>2. IsTable({}) /\ {r.seq : r \in {}} = 1 .. 0
  BY DEF IsTable
<1>3. Whole({})
  BY <1>2 DEF Whole
<1> QED
  BY <1>1, <1>3 DEF DamageInv, Telling

LEMMA AppendKeeps ==
  ASSUME DamageInv, NEW e \in Events, AppendEvent(e)
  PROVE  DamageInv'
<1> DEFINE row == NewRow(e, MaxSeq(rows) + 1, PrevHash(rows, MaxSeq(rows) + 1))
<1>1. rows' = rows \union {row} /\ damage' = damage
  BY DEF AppendEvent
<1>2. CASE damage.kind \in Telling
  <2>1. IsTable(rows) /\ BreaksAt(rows, damage.seq)
    BY <1>2 DEF DamageInv
  <2>2. /\ IsTable(rows \union {row})
        /\ \A q \in rows : q.seq < row.seq /\ Before(rows \union {row}, q) = Before(rows, q)
    BY <2>1, AppendedRow
  <2> HIDE DEF row
  <2>3. \A q \in rows : Fits(rows \union {row}, q) <=> Fits(rows, q)
    BY <2>1, <2>2, FitsAlike
  <2>4. PICK r \in rows : r.seq = damage.seq /\ ~ Fits(rows, r)
                          /\ \A q \in rows : q.seq < damage.seq => Fits(rows, q)
    BY <2>1 DEF BreaksAt
  <2>5. r.seq \in Nat /\ \A q \in rows : q.seq \in Nat
    BY <2>1 DEF IsTable, Rows
  <2>6. row.seq \in Nat /\ r.seq < row.seq
    BY <2>2 DEF IsTable, Rows
  <2>7. \A q \in rows \union {row} : q.seq < damage.seq => Fits(rows \union {row}, q)
    BY <2>3, <2>4, <2>5, <2>6
  <2>8. BreaksAt(rows \union {row}, damage.seq)
    BY <2>3, <2>4, <2>7 DEF BreaksAt
  <2> QED
    BY <1>1, <1>2, <2>2, <2>8 DEF DamageInv
<1>3. CASE damage.kind \notin Telling
  <2>1. Whole(rows \union {row})
    BY <1>3, WholeGrows DEF DamageInv
  <2> HIDE DEF row
  <2> QED
    BY <1>1, <1>3, <2>1 DEF DamageInv
<1> QED
  BY <1>2, <1>3

\* The one damage, to a whole table.
LEMMA DamageKeeps ==
  ASSUME DamageInv, NEW kind, NEW n, Damaged(kind, n),
         IF kind \in Telling THEN IsTable(rows') /\ BreaksAt(rows', n) ELSE Whole(rows')
  PROVE  DamageInv'
BY DEF Damaged, DamageInv

LEMMA DamageNext == DamageInv /\ [Next]_vars => DamageInv'
<1> SUFFICES ASSUME DamageInv, [Next]_vars PROVE DamageInv'
  OBVIOUS
<1>1. ASSUME damage.kind = "none"
      PROVE  Whole(rows) /\ IsTable(rows) /\ \A r \in rows : r \in Rows
  BY <1>1 DEF DamageInv, Telling, Whole, IsTable
<1>2. ASSUME NEW e \in Events, AppendEvent(e)
      PROVE  DamageInv'
  BY <1>2, AppendKeeps
<1>3. ASSUME NEW r \in rows, NEW b \in Bodies, EditEvent(r, b)
      PROVE  DamageInv'
  <2>1. damage.kind = "none" /\ b # r.event.body /\ Damaged("edit", r.seq)
    BY <1>3 DEF EditEvent, Damaged
  <2> DEFINE new == [r EXCEPT !.event.body = b]
  <2>2. /\ new \in Rows /\ new.seq = r.seq /\ new.hash = r.hash /\ new.event # r.event
        /\ rows' = (rows \ {r}) \union {new}
    <3>1. r \in Rows
      BY <1>1, <2>1
    <3>2. r.event \in Events /\ r.event.body # b
      BY <2>1, <3>1 DEF Rows
    <3> QED
      BY <1>3, <3>1, <3>2 DEF Rows, Events, EditEvent, Replace
  <2> HIDE DEF new
  <2>3. IsTable(rows') /\ BreaksAt(rows', r.seq)
    BY <1>1, <2>1, <2>2, EditBreaks
  <2> QED
    BY <2>1, <2>3, DamageKeeps DEF Telling
<1>4. ASSUME NEW r \in rows, NEW h \in HashesInUse, EditChainField(r, h)
      PROVE  DamageInv'
  <2>1. damage.kind = "none" /\ Damaged("edit", r.seq)
    BY <1>4 DEF EditChainField, Damaged
  <2>2. r \in Rows /\ h \in Hashes
    <3>1. GENESIS \in Hashes
      BY DEF GENESIS, Hashes
    <3>2. \A q \in rows : q.hash \in Hashes
      BY <1>1, <2>1 DEF Rows
    <3> QED
      BY <1>1, <2>1, <3>1, <3>2 DEF HashesInUse
  <2>3. PICK new \in Rows :
          /\ new.seq = r.seq /\ new.event = r.event
          /\ new.prev # r.prev \/ new.hash # r.hash
          /\ rows' = (rows \ {r}) \union {new}
    <3>1. CASE h # r.prev /\ Replace(r, [r EXCEPT !.prev = h])
      BY <2>2, <3>1 DEF Replace, Rows
    <3>2. CASE h # r.hash /\ Replace(r, [r EXCEPT !.hash = h])
      BY <2>2, <3>2 DEF Replace, Rows
    <3> QED
      BY <1>4, <3>1, <3>2 DEF EditChainField
  <2>4. IsTable(rows') /\ BreaksAt(rows', r.seq)
    BY <1>1, <2>1, <2>3, EditBreaks
  <2> QED
    BY <2>1, <2>4, DamageKeeps DEF Telling
<1>5. ASSUME NEW r \in rows, LoseRow(r)
      PROVE  DamageInv'
  <2>1. damage.kind = "none" /\ Damaged("loss", r.seq + 1) /\ rows' = rows \ {r}
        /\ r.seq < MaxSeq(rows)
    BY <1>5 DEF LoseRow, Damaged
  <2>2. IsTable(rows') /\ BreaksAt(rows', r.seq + 1)
    BY <1>1, <2>1, LossBreaks
  <2> QED
    BY <2>1, <2>2, DamageKeeps DEF Telling
<1>6. ASSUME NEW r \in rows, NEW q \in rows, SwapRows(r, q)
      PROVE  DamageInv'
  <2>1. /\ damage.kind = "none" /\ Damaged("swap", r.seq) /\ r.seq < q.seq
        /\ rows' = (rows \ {r, q}) \union {[r EXCEPT !.seq = q.seq], [q EXCEPT !.seq = r.seq]}
    BY <1>6 DEF SwapRows, Damaged
  <2>2. IsTable(rows') /\ BreaksAt(rows', r.seq)
    BY <1>1, <2>1, SwapBreaks
  <2> QED
    BY <2>1, <2>2, DamageKeeps DEF Telling
<1>7. ASSUME NEW r \in rows, LoseTail(r)
      PROVE  DamageInv'
  <2>1. damage.kind = "none" /\ Damaged("tail", r.seq) /\ rows' = Before(rows, r)
    BY <1>7 DEF LoseTail, Damaged
  <2>2. Whole(rows')
    BY <1>1, <2>1, TailLeavesWhole
  <2> QED
    BY <2>1, <2>2, DamageKeeps DEF Telling
<1>8. ASSUME NEW r \in rows, NEW b \in Bodies, RewriteLast(r, b)
      PROVE  DamageInv'
  <2> DEFINE e == [r.event EXCEPT !.body = b]
  <2>1. /\ damage.kind = "none" /\ Damaged("rewrite", r.seq) /\ r.seq = MaxSeq(rows)
        /\ rows' = (rows \ {r}) \union {NewRow(e, r.seq, r.prev)}
    BY <1>8 DEF RewriteLast, Damaged, Replace
  <2>2. e \in Events
    BY <1>1, <2>1 DEF Rows, Events
  <2> HIDE DEF e
  <2>3. Whole(rows')
    BY <1>1, <2>1, <2>2, RewriteLeavesWhole
  <2> QED
    BY <2>1, <2>3, DamageKeeps DEF Telling
<1>9. CASE UNCHANGED vars
  BY <1>9 DEF vars, DamageInv
<1> QED
  BY <1>2, <1>3, <1>4, <1>5, <1>6, <1>7, <1>8, <1>9 DEF Next

THEOREM DamageInvariant == Spec => []DamageInv
  BY DamageInit, DamageNext, PTL DEF Spec

\* verify() of a whole table, and of one whose chain breaks.
LEMMA VerifyFindsTheBreak ==
  ASSUME NEW table
  PROVE  /\ Verify(table).valid <=> \A r \in table : Fits(table, r)
         /\ \A n : IsTable(table) /\ BreaksAt(table, n) =>
               ~ Verify(table).valid /\ Verify(table).first_bad_seq = n
<1> DEFINE bad == {r \in table : ~ Fits(table, r)}
           first == CHOOSE r \in bad : \A q \in bad : r.seq <= q.seq
<1>1. /\ Verify(table).valid = (bad = {})
      /\ Verify(table).first_bad_seq = IF bad = {} THEN 0 ELSE first.seq
  BY DEF Verify
<1>2. ASSUME NEW n, IsTable(table), BreaksAt(table, n)
      PROVE  ~ Verify(table).valid /\ Verify(table).first_bad_seq = n
  <2>1. PICK r \in table : r.seq = n /\ ~ Fits(table, r)
                           /\ \A q \in table : q.seq < n => Fits(table, q)
    BY <1>2 DEF BreaksAt
  <2>2. \A q \in table : q.seq \in Nat
    BY <1>2 DEF IsTable, Rows
  <2>3. r \in bad /\ \A q \in bad : r.seq <= q.seq
    BY <2>1, <2>2
  <2>4. first \in bad /\ \A q \in bad : first.seq <= q.seq
    BY <2>3
  <2>5. first.seq = r.seq
    <3>1. first.seq <= r.seq /\ r.seq <= first.seq /\ first \in table
      BY <2>3, <2>4
    <3> HIDE DEF first
    <3> QED
      BY <2>2, <3>1
  <2> HIDE DEF first
  <2> QED
    BY <1>1, <2>1, <2>3, <2>5
<1> QED
  BY <1>1, <1>2

\* A damage is reported where the chain first breaks, however long the ledger is
\* and however many events are appended on top of it; a lost tail, and a last
\* row rewritten with its hash, are not.
THEOREM DamageIsReportedWhereItIs == Spec => []DamageIsLocated
<1>1. DamageInv => DamageIsLocated
  BY VerifyFindsTheBreak DEF DamageInv, DamageIsLocated, Telling, Whole
<1> QED
  BY <1>1, DamageInvariant, PTL

------------------------------------------------------------------------------
\* The hash of r when f has those of the rows before it.
HashOver(table, f, r) ==
    ChainHash(r.event, IF Before(table, r) = {} THEN GENESIS ELSE f[LastBefore(table, r)])

\* The hashes of the rows up to n can be derived.
DerivedUpTo(table, n) ==
    \E f \in [table -> Hashes] : \A r \in table : r.seq <= n => f[r] = HashOver(table, f, r)

LEMMA HashOverType ==
  ASSUME NEW table, IsTable(table), NEW f \in [table -> Hashes], NEW r \in table
  PROVE  HashOver(table, f, r) \in Hashes
<1> DEFINE prev == IF Before(table, r) = {} THEN GENESIS ELSE f[LastBefore(table, r)]
<1>1. prev \in Hashes
  <2>1. GENESIS \in Hashes
    BY DEF GENESIS, Hashes
  <2> QED
    BY <2>1, RowBefore
<1>2. r.event \in Events
  BY DEF IsTable, Rows
<1> HIDE DEF prev
<1>3. ChainHash(r.event, prev) \in Hashes
  BY <1>1, <1>2, HashTells
<1> QED
  BY <1>3 DEF HashOver, prev

LEMMA OneMoreDerived ==
  ASSUME NEW table, IsTable(table), NEW n \in Nat, DerivedUpTo(table, n)
  PROVE  DerivedUpTo(table, n + 1)
<1>1. PICK f \in [table -> Hashes] : \A r \in table : r.seq <= n => f[r] = HashOver(table, f, r)
  BY DEF DerivedUpTo
<1> DEFINE g == [r \in table |-> IF r.seq <= n THEN f[r] ELSE HashOver(table, f, r)]
<1>2. g \in [table -> Hashes]
  BY HashOverType
<1>3. \A r \in table : r.seq \in Nat
  BY DEF IsTable, Rows
<1>4. ASSUME NEW r \in table, r.seq <= n + 1
      PROVE  g[r] = HashOver(table, g, r)
  <2>1. Before(table, r) # {} => g[LastBefore(table, r)] = f[LastBefore(table, r)]
    <3> SUFFICES ASSUME Before(table, r) # {}
                 PROVE  g[LastBefore(table, r)] = f[LastBefore(table, r)]
      OBVIOUS
    <3>1. LastBefore(table, r) \in table /\ LastBefore(table, r).seq < r.seq
      BY RowBefore
    <3>2. LastBefore(table, r).seq <= n
      BY <1>3, <1>4, <3>1
    <3> QED
      BY <3>1, <3>2
  <2> HIDE DEF g
  <2>2. HashOver(table, g, r) = HashOver(table, f, r)
    BY <2>1 DEF HashOver
  <2>3. g[r] = HashOver(table, f, r)
    BY <1>1 DEF g
  <2> QED
    BY <2>2, <2>3
<1> HIDE DEF g
<1> QED
  BY <1>2, <1>4 DEF DerivedUpTo

\* The derivation of the whole chain exists, and is the one Derived defines.
LEMMA DerivedIsDerived ==
  ASSUME NEW table, IsTable(table)
  PROVE  \A r \in table : Derived(table)[r] = HashOver(table, Derived(table), r)
<1> DEFINE not == {n \in Nat : ~ DerivedUpTo(table, n)}
<1>1. not = {}
  <2> SUFFICES ASSUME not # {} PROVE FALSE
    OBVIOUS
  <2>1. PICK n \in not : \A m \in not : n <= m
    <3> HIDE DEF not
    <3>1. not \subseteq Nat
      BY DEF not
    <3> QED
      BY <3>1, LeastNumber
  <2>2. CASE n = 0
    <3> DEFINE f == [r \in table |-> GENESIS]
    <3>1. f \in [table -> Hashes]
      BY DEF GENESIS, Hashes
    <3>2. \A r \in table : ~ (r.seq <= 0)
      BY DEF IsTable, Rows
    <3> HIDE DEF f
    <3>3. DerivedUpTo(table, 0)
      BY <3>1, <3>2 DEF DerivedUpTo
    <3> QED
      BY <2>1, <2>2, <3>3
  <2>3. CASE n # 0
    <3>1. n - 1 \in Nat /\ n - 1 \notin not
      BY <2>1, <2>3
    <3>2. DerivedUpTo(table, (n - 1) + 1)
      BY <3>1, OneMoreDerived
    <3> QED
      BY <2>1, <3>2
  <2> QED
    BY <2>2, <2>3
<1>2. PICK n \in Nat : \A r \in table : r.seq <= n
  BY DEF IsTable
<1>3. DerivedUpTo(table, n)
  BY <1>1
<1>4. PICK f \in [table -> Hashes] : \A r \in table : f[r] = HashOver(table, f, r)
  BY <1>2, <1>3 DEF DerivedUpTo
<1>5. f = [r \in table |-> HashOver(table, f, r)]
  BY <1>4
<1>6. Derived(table) = CHOOSE g : g = [r \in table |-> HashOver(table, g, r)]
  BY DEF Derived, HashOver, LastBefore
<1>7. Derived(table) = [r \in table |-> HashOver(table, Derived(table), r)]
  BY <1>5, <1>6
<1> QED
  BY <1>7

\* The hash verify() expects of r is the one derived, when the stored hash of
\* the row before is.
LEMMA ExpectedIsDerived ==
  ASSUME NEW table, IsTable(table), NEW r \in table,
         \A q \in table : q.seq < r.seq => q.hash = Derived(table)[q]
  PROVE  Derived(table)[r] = ChainHash(r.event, StoredHashBefore(table, r))
<1>1. Derived(table)[r] = HashOver(table, Derived(table), r)
  BY DerivedIsDerived
<1>2. CASE Before(table, r) = {}
  BY <1>1, <1>2 DEF HashOver, StoredHashBefore
<1>3. CASE Before(table, r) # {}
  <2>1. LastBefore(table, r).hash = Derived(table)[LastBefore(table, r)]
    BY <1>3, RowBefore
  <2>2. StoredHashBefore(table, r) = LastBefore(table, r).hash
    BY <1>3 DEF StoredHashBefore, LastBefore
  <2> QED
    BY <1>1, <1>3, <2>1, <2>2 DEF HashOver
<1> QED
  BY <1>2, <1>3

\* All rows fit exactly when all hashes are the derived ones.
LEMMA FittingIsDerived ==
  ASSUME NEW table, IsTable(table)
  PROVE  (\A r \in table : Fits(table, r)) <=> Rederives(table)
<1>0. \A r \in table : r.seq \in Nat /\ r.event \in Events /\ r.prev \in Hashes
  BY DEF IsTable, Rows
<1>1. ASSUME \A r \in table : Fits(table, r)
      PROVE  Rederives(table)
  <2> DEFINE wrong == {r.seq : r \in {q \in table : q.hash # Derived(table)[q]}}
  <2>1. wrong = {}
    <3> SUFFICES ASSUME wrong # {} PROVE FALSE
      OBVIOUS
    <3>1. PICK n \in wrong : \A m \in wrong : n <= m
      <4>1. wrong \subseteq Nat
        BY <1>0
      <4> HIDE DEF wrong
      <4> QED
        BY <4>1, LeastNumber
    <3>2. PICK r \in table : r.seq = n /\ r.hash # Derived(table)[r]
      BY <3>1
    <3>3. \A q \in table : q.seq < r.seq => q.hash = Derived(table)[q]
      <4> SUFFICES ASSUME NEW q \in table, q.seq < r.seq, q.hash # Derived(table)[q]
                   PROVE  FALSE
        OBVIOUS
      <4>1. q.seq \in wrong
        OBVIOUS
      <4> HIDE DEF wrong
      <4> QED
        BY <1>0, <3>1, <3>2, <4>1
    <3>4. r.hash = ChainHash(r.event, StoredHashBefore(table, r))
      BY <1>1 DEF Fits
    <3> QED
      BY <3>2, <3>3, <3>4, ExpectedIsDerived
  <2>2. \A r \in table : r.hash = Derived(table)[r]
    BY <2>1
  <2>3. \A r \in table : Append(r.prev, r.event) = r.hash
    BY <1>1 DEF Fits, ChainHash
  <2> QED
    BY <2>2, <2>3 DEF Rederives
<1>2. ASSUME Rederives(table), NEW r \in table
      PROVE  Fits(table, r)
  <2>1. r.hash = ChainHash(r.event, StoredHashBefore(table, r))
    BY <1>2, ExpectedIsDerived DEF Rederives
  <2>2. ChainHash(r.event, r.prev) = r.hash
    BY <1>2 DEF Rederives, ChainHash
  <2>3. StoredHashBefore(table, r) \in Hashes
    BY StoredHashIsHash
  <2>4. r.prev = StoredHashBefore(table, r)
    BY <1>0, <2>1, <2>2, <2>3, HashTells
  <2> QED
    BY <2>1, <2>4 DEF Fits
<1> QED
  BY <1>1, <1>2

\* verify() accepts a ledger file, damaged or not, exactly when an auditor who
\* has the events alone derives every chain field that is stored.
THEOREM VerifyAcceptsWhatRederives == Spec => []VerifyIsRederivation
<1>1. DamageInv => VerifyIsRederivation
  <2> SUFFICES ASSUME DamageInv PROVE VerifyIsRederivation
    OBVIOUS
  <2>1. IsTable(rows)
    BY DEF DamageInv, Whole
  <2>2. Verify(rows).valid <=> Rederives(rows)
    BY <2>1, VerifyFindsTheBreak, FittingIsDerived
  <2>3. ASSUME rows # {}, Verify(rows).valid
        PROVE  Verify(rows).head = Derived(rows)[RowWith(rows, MaxSeq(rows))]
    <3>1. {r \in rows : ~ Fits(rows, r)} = {}
      BY <2>3, VerifyFindsTheBreak
    <3>2. Verify(rows).head = RowWith(rows, MaxSeq(rows)).hash
      BY <2>3, <3>1 DEF Verify
    <3>3. RowWith(rows, MaxSeq(rows)) \in rows
      BY <2>1, <2>3, LastRow
    <3> QED
      BY <2>2, <2>3, <3>2, <3>3 DEF Rederives
  <2> QED
    BY <2>2, <2>3 DEF VerifyIsRederivation
<1> QED
  BY <1>1, DamageInvariant, PTL
=============================================================================
