--------------------------- MODULE MCReviewService ---------------------------
(* Model-checking instance of ReviewService. *)
EXTENDS ReviewService, TLC

\* Threads, and the tenants of the events, are interchangeable.
ReviewSymmetry == Permutations(Threads) \union Permutations(Tenants)
==============================================================================
