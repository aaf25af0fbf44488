SPECIFICATION FairSpec
CONSTANTS
  Requests = {c1, c2, c3}
  Hits = {h1}
  Players = {p1}
  None = none
  MaxHP = 20
  Landing = {20}
PROPERTIES
  ClaimAnswered
