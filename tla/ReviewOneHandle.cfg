SPECIFICATION Spec
CONSTANTS
  Decisions = {d1}
  Tenants = {a, b}
  Resolutions = {approve, reject}
  Others = {o1}
  Handles = {h1}
  Threads = {t1, t2}
  ScanLimit = 2
  SlaSeconds = 0
  MaxTime = 1
  None = None
SYMMETRY ReviewSymmetry
INVARIANTS
  ResolvedHasReview
  OneAnswerStands
  NoReviewIsLost
  AnsweredIsNotPending
PROPERTIES
  ReviewsOnlyMoveForward
