--------------------------- MODULE MCCommitLocks ---------------------------
(***************************************************************************)
(* A small instance of CommitLocks for TLC: two players hit two bosses,    *)
(* and either boss can be killed by one batch or by two.                   *)
(***************************************************************************)
EXTENDS CommitLocks

TwoBosses  == <<1, 2, 1, 2, 1>>
TwoPlayers == <<1, 1, 2, 2, 1>>
Points1To2 == <<1, 2, 2, 1, 1>>

\* Contributions by boss and player, then bosses.
SortOrder == [r \in Rows |-> IF r \in BossRows THEN 10 + r[2] ELSE 2 * r[2] + r[3]]
=============================================================================
