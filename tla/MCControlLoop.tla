---------------------------- MODULE MCControlLoop ----------------------------
(* Model-checking instance of ControlLoop. *)
EXTENDS ControlLoop

MCCostOf == [LOW |-> 1, HIGH |-> 5]

Case(p, error, severity, decision) ==
    [p |-> p, featured |-> FALSE, error |-> error, severity |-> severity, decision |-> decision]

\* Labeled errors, a denied one and two without a probability, one of them with
\* the risk among its features, an escalated success; the harness adds errors,
\* successes and unlabeled steps.
MCCases ==
    {Case(2, "true", "HIGH", "ALLOW"), Case(1, "true", "HIGH", "DENY"),
     Case(NoP, "true", "HIGH", "ALLOW"),
     [Case(NoP, "true", "HIGH", "ALLOW") EXCEPT !.featured = TRUE],
     Case(2, "false", "LOW", "ESCALATE")}

AnyShuffle(n) == {order \in [1 .. n -> 1 .. n] : IsInjective(order)}

\* What CPython's random.Random(0).shuffle() does to lists of two and three.
PythonShuffle(n) == {CASE n = 3 -> <<1, 3, 2>> [] OTHER -> [i \in 1 .. n |-> i]}
==============================================================================
