---------------------------- MODULE MCPublication ----------------------------
(* Model-checking instance of Publication, and of EvalRun within it. *)
EXTENDS Publication

TwoModels == << "m1", "m2" >>
TwoTariffs == {<< "m1", 1 >>, << "m2", 0 >>, << "m2", 2 >>}
TwoTasks == << 1, 5 >>
\* A dry run's leaderboard, and beside it the report of an earlier paid run.
StubOverReal ==
    {[board |-> Board("stub", "stub", << "m1" >>),
      report |-> [Report("earlier") EXCEPT !.mtime = -1]]}
==============================================================================
