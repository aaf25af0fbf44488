SPECIFICATION FairSpec
CONSTANTS
  Players = {p1, p2}
  MaxHP = 2
  Hits = {h1}
  Gets = {g1}
  TTLs = {0, 1, 2, 3}
  Second = 2
  Deadline = 1
INVARIANTS
  TypeOK
  ViewHasMax
  FoundAfterRebuild
PROPERTIES
  KeysAreOneBoss
  ViewAgrees
  ZombieLapses
