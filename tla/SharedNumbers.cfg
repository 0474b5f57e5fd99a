SPECIFICATION Spec
CONSTANTS
  Scale = 4
  EscalateCost = 3
  CostOf <- SeverityCosts
  NoRisk = NoRisk
  Threads = {t1}
  Middlewares = {m1, m2}
  Bridges = {}
  Recording = {m1, m2}
  BundleOf <- Bundles
  Asks <- SomeAsks
  Resolutions = {}
  MaxCalls = 2
  MaxAnswers = 0
  MaxLives = 0
INVARIANTS
  ConflictIsRetry
CHECK_DEADLOCK FALSE
