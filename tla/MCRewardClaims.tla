--------------------------- MODULE MCRewardClaims ---------------------------
(***************************************************************************)
(* Small instances of RewardClaims for TLC.                                *)
(***************************************************************************)
EXTENDS RewardClaims, TLC

\* Requests, hits and players are told apart by their own variables only.
Symmetry == Permutations(Requests) \cup Permutations(Hits) \cup Permutations(Players)
=============================================================================
