SPECIFICATION Spec
CONSTANTS
  Hits = {h1, h2}
  Players = {p1, p2}
  Committers = {w1}
  Workers = {k1}
  Getters = {g1}
  Boot = boot
  MaxHP = 2
  MaxHit = 2
  Amounts = {1, 2}
  QueueSize = 1
  MaxBatch = 2
  Faults = {"commit", "ambiguous", "cancel", "undo", "redis", "rebuild", "drop", "expire", "crash", "late_seed"}
SYMMETRY Symmetry
INVARIANTS
  TypeOK
  AckedIsDurable
  OverloadedIsNotStored
  LedgerConsistent
  OneHome
  CacheSane
PROPERTIES
  DurableGrows
