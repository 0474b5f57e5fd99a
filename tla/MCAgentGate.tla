---------------------------- MODULE MCAgentGate ----------------------------
(* Model-checking instance of AgentGate. *)
EXTENDS AgentGate, TLC

\* K(severity), against a review that costs 3.
SeverityCosts == [LOW |-> 1, CRITICAL |-> 9]

Tiers == << [model |-> "cheap", cost |-> 1], [model |-> "frontier", cost |-> 2] >>

\* A middleware that denies one tool, a bridge that allows only others.
Bundles == [g \in Gates |->
    [deny |-> IF g \in Bridges THEN {} ELSE {"drop"},
     allowlist |-> IF g \in Bridges THEN {"read", "model_call"} ELSE {},
     escalation_threshold |-> 3, model_tiers |-> Tiers]]

Ask(tool, risk, severity, models) ==
    [tool |-> tool, risk |-> risk, severity |-> severity, models |-> models]

\* Calls on both sides of the threshold, of the Bayes guard and of the routes.
SomeAsks == {Ask("read", NoRisk, "LOW", << >>), Ask("read", 1, "LOW", <<"cheap", "frontier">>),
             Ask("read", 1, "CRITICAL", <<"cheap", "frontier">>), Ask("read", 2, "bogus", <<"other">>),
             Ask("read", 2, "CRITICAL", <<"cheap", "frontier">>), Ask("drop", 3, "LOW", << >>)}

ThreadSymmetry == Permutations(Threads)
============================================================================
