SPECIFICATION Spec
CONSTANTS
  Reqs = {r1, r2, r3}
  Loops = {w1, w2}
  QueueSize = 2
  MaxBatch = 2
  LostAnswers = TRUE
INVARIANTS
  TypeOK
  TimerCovers
  ReleaseNeverBlocks
  StopFlushes
PROPERTIES
  StopReturns
  KeepsPromise
