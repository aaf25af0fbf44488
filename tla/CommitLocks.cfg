SPECIFICATION FairSpec
CONSTANTS
  Players = {1, 2}
  MaxHP = 2
  Hits = {1, 2, 3, 4, 5}
  Bosses = {1, 2}
  BossOf <- TwoBosses
  PlayerOf <- TwoPlayers
  Applied <- Points1To2
  Sessions = {s1, s2}
  MaxConns = 2
  MaxBatch = 2
  Rank <- SortOrder
INVARIANTS
  NoDeadlock
PROPERTIES
  BooksWholeBatches
  TransactionsEnd
