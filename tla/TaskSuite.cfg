SPECIFICATION FairSpec
CONSTANTS
  Domains = {"reconciliation", "payment_repair", "settlement"}
  Mixes <- AnyOrCritical
  Requests <- RunAndSplits
  Eval = 2
  Train = 3
  AttemptsPerTask = 2
  Names <- OneName
  Amounts = {10001}
  Bookings = {0}
  Difficulties <- HardPairs
INVARIANTS
  SeverityFitsTheFields
  StatedRulesDecide
  SameSeedSamePrefix
  PublishedSplitsShareNothing
PROPERTIES
  GenerationEnds
CHECK_DEADLOCK FALSE
