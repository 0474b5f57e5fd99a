-------------------------- MODULE MCLedgerCorruption --------------------------
(* Model-checking instance of LedgerCorruption. *)
EXTENDS LedgerCorruption, TLC

\* Event ids are interchangeable.
IdSymmetry == Permutations(EventIds)
===============================================================================
