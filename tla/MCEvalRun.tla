------------------------------ MODULE MCEvalRun ------------------------------
(* Model-checking instance of EvalRun. *)
EXTENDS EvalRun

OneModel == << "m1" >>
OneTariff == {<< "m1", 1 >>}
OneTask == << 5 >>
==============================================================================
