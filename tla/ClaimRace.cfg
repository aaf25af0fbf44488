SPECIFICATION Spec
CONSTANTS
  Requests = {c1, c2, c3}
  Hits = {h1, h2, h3}
  Players = {p1, p2}
  None = none
  MaxHP = 20
  Landing = {1, 2, 18}
SYMMETRY Symmetry
INVARIANTS
  TypeOK
  SameReward
  OneGrant
  RewardEarned
  PricedOnFinalShare
PROPERTIES
  ClaimsStay
