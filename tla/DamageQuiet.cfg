SPECIFICATION Spec
CONSTANTS
  Hits = {h1, h2, h3, h4}
  Players = {p1, p2}
  Committers = {w1, w2}
  Workers = {k1}
  Getters = {}
  Boot = boot
  MaxHP = 3
  MaxHit = 2
  Amounts = {0, 1, 2}
  QueueSize = 1
  MaxBatch = 2
  Faults = {"commit"}
SYMMETRY Symmetry
INVARIANTS
  FailedIsNotStored
  Conservation
  ExactKill
