SPECIFICATION Spec
CONSTANTS
  Hits = {h1, h2}
  Players = {p1, p2}
  Committers = {w1, w2}
  Workers = {k1}
  Getters = {}
  Boot = boot
  MaxHP = 2
  MaxHit = 2
  Amounts = {1, 2}
  QueueSize = 1
  MaxBatch = 2
  Faults = {"cancel"}
SYMMETRY Symmetry
INVARIANTS
  ExactKill
