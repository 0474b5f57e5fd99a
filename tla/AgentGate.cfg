SPECIFICATION Spec
CONSTANTS
  Scale = 4
  EscalateCost = 3
  CostOf <- SeverityCosts
  NoRisk = NoRisk
  Threads = {t1, t2}
  Middlewares = {m1}
  Bridges = {b1}
  Recording = {m1, b1}
  BundleOf <- Bundles
  Asks <- SomeAsks
  Resolutions = {"APPROVE", "REJECT", "MAYBE"}
  MaxCalls = 2
  MaxAnswers = 2
  MaxLives = 1
SYMMETRY ThreadSymmetry
INVARIANTS
  PolicyHolds
  OneEventPerDecision
  BridgeDecisionsAreKept
  AcceptedStands
  RiskierCallsGetMoreCare
CHECK_DEADLOCK FALSE
