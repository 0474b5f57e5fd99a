SPECIFICATION Spec
CONSTANTS
  Domains = {"reconciliation"}
  Mixes <- AnyOrCritical
  Requests <- RunAndSplits
  Eval = 2
  Train = 3
  AttemptsPerTask = 2
  Names <- OneName
  Amounts = {10001}
  Bookings = {0}
  Difficulties <- HardPairs
INVARIANTS
  ScoredOnStatedRules
CHECK_DEADLOCK FALSE
