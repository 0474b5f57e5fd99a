----------------------------- MODULE MCBuzzOutbox -----------------------------
(* Model-checking instance of BuzzOutbox. *)
EXTENDS BuzzOutbox, TLC

\* Workers are interchangeable.
WorkerSymmetry == Permutations(Workers)
===============================================================================
