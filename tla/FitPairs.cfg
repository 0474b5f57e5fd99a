SPECIFICATION Spec
CONSTANTS
  CostOf <- MCCostOf
  EscalateCost = 2
  Grid = 2
  NoP = NoP
  Cases <- MCCases
  Answers = {NoP}
  FitLimit = 3
  ReplayLimit = 2
  Shuffle <- PythonShuffle
  MaxEvents = 3
INVARIANTS
  FitPairsAreEvents
