SPECIFICATION FairPubSpec
CONSTANTS
  ModelIds <- TwoModels
  TaskCosts <- TwoTasks
  Trials = 2
  MaxSteps = 2
  Attempts = 3
  Ceiling = 2
  Tariff <- TwoTariffs
  Answers = {"match", "miss", "null"}
  Earlier <- StubOverReal
INVARIANTS
  RowsAreRegenerable
  SpendNearCeiling
  CostIsConserved
  AppendNeverCollides
  PublishedRunIsComplete
  CardIsOfOneRun
PROPERTIES
  NoPaidCallAfterRefusal
  RunEnds
CHECK_DEADLOCK FALSE
