SPECIFICATION Spec
CONSTANTS
  EventIds = {e1, e2}
  Bodies = {b1}
  Handles = {h1, h2}
  Threads = {t1, t2}
  Interruptible = {t1}
  NoThread = NoThread
INVARIANTS
  ChainIntact
  AckedIsStored
  DuplicateIsStored
PROPERTIES
  ImplementsLog
  FailuresComeFromOutside
