SPECIFICATION FairSpec
CONSTANTS
  ModelIds <- OneModel
  TaskCosts <- OneTask
  Trials = 2
  MaxSteps = 2
  Attempts = 2
  Ceiling = 2
  Tariff <- OneTariff
  Answers = {"match", "miss"}
INVARIANTS
  PartialWhenRefused
CHECK_DEADLOCK FALSE
