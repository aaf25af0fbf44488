SPECIFICATION FairSpec
CONSTANTS
  Handlers = {1, 2, 3}
  Bosses = {1, 2}
  BossOf <- ThreeHits
  Workers = {w1, w2}
  QueueSize = 1
  RequestTime = 1
  UndoTime = 1
  ShutdownTimes = {1, 3}
INVARIANTS
  OneSlot
  RequestsAreOwed
  NobodyMeetsAClosedChannel
  ExitOwesNothing
PROPERTIES
  RequestsAreServed
  ShutdownEnds
