SPECIFICATION Spec
CONSTANTS
  EventIds = {e1, e2, e3, e4}
  Bodies = {b1, b2}
SYMMETRY IdSymmetry
INVARIANTS
  VerifyIsRederivation
  DamageIsLocated
CHECK_DEADLOCK FALSE
