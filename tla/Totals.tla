------------------------------- MODULE Totals -------------------------------
(***************************************************************************)
(* Totals of damage: the SUM(total_damage) and SUM(damage_applied) of the  *)
(* SQL in internal/store/postgres.go, and the perBoss/perPlayer sums its   *)
(* CommitBatch builds.                                                     *)
(*                                                                         *)
(* A total is a number of points: the hit h that landed f[h] of damage is  *)
(* the set of points <<h, 1>>, ..., <<h, f[h]>>, and the total over S      *)
(* counts the points of its members.  Counting has no recursion in it, so  *)
(* the provers can reason about it (BossStoreTheorems); MCDamageService    *)
(* has TLC compare it with the fold of the community modules.              *)
(***************************************************************************)
EXTENDS Integers, FiniteSets

Points(f, S) == UNION { {x} \X (1 .. f[x]) : x \in S }

Total(f, S) == Cardinality(Points(f, S))

(***************************************************************************)
(* GROUP BY: the totals of S per key, for the keys in K.                   *)
(***************************************************************************)
TotalBy(f, key, S, K) == [k \in K |-> Total(f, {x \in S : key[x] = k})]
=============================================================================
