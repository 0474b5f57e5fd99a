----------------------------- MODULE MCTaskSuite -----------------------------
(* Model-checking instance of TaskSuite: the suite of a run, of one task, and *)
(* the eval split of two, from one seed; the train split from another.        *)
EXTENDS TaskSuite

RunAndSplits == <<[seed |-> "eval", n |-> 1], [seed |-> "eval", n |-> 2],
                  [seed |-> "train", n |-> 1]>>
OneName == {<<"ACME", "INDUSTRIES", "GMBH">>}
\* Difficulty changes the value date of a reconciliation pair only.
HardPairs == [d \in Domains |-> IF d = "reconciliation" THEN {"hard"} ELSE {"easy", "hard"}]
AnyOrCritical == {{}, {"CRITICAL"}}
==============================================================================
