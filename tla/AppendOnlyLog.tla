---------------------------- MODULE AppendOnlyLog ----------------------------
(***************************************************************************)
(* What the audit ledger promises its callers, with no word about locks,   *)
(* transactions or handles: a log that only grows at its end, in which an  *)
(* event_id occurs once, and an append() that returns normally only after  *)
(* its event is in the log.  The chain head it returns is the log up to    *)
(* and including the event.                                                *)
(***************************************************************************)
EXTENDS Naturals, Sequences

CONSTANT LogEvents  \* the events; each has a field id

VARIABLES log,      \* the events stored, oldest first
          returned  \* the chain heads handed back by append()

IdIsFree(e) == \A i \in 1 .. Len(log) : log[i].id # e.id

LogInit == log = << >> /\ returned = {}

\* An append takes effect.
Store(e) ==
    /\ IdIsFree(e)
    /\ log' = Append(log, e)
    /\ UNCHANGED returned

\* An append that took effect returns the head its event made.
Return(n) ==
    /\ returned' = returned \union {SubSeq(log, 1, n)}
    /\ UNCHANGED log

LogNext == \/ \E e \in LogEvents : Store(e)
           \/ \E n \in 1 .. Len(log) : Return(n)

LogSpec == LogInit /\ [][LogNext]_<<log, returned>>
==============================================================================
