----------------------------- MODULE BossCache -----------------------------
(***************************************************************************)
(* The cached boss as BossStore has it: one thing that a script changes, a *)
(* rebuild overwrites and a TTL takes away as a whole.  CacheKeys, with a  *)
(* key and a TTL for each part, is shown to implement it.                  *)
(***************************************************************************)
EXTENDS BossStore

CONSTANT Damages   \* the points a hit may ask for, and an undo give back

VARIABLES cache,   \* the boss in Redis
          reads    \* what rebuilds have read from Postgres and may write

Init == cache = Cold

Hit(p, d) == cache' = DamageScript(cache, p, d).cache

Undo(p, d) == cache' = CompensateScript(cache, p, d)

Rebuild(s) == cache' = Rehydrate(s.hp, s.state, s.contrib)

Lapse == cache' = Cold

Next == \/ \E p \in Players, d \in Damages : Hit(p, d) \/ Undo(p, d)
        \/ \E s \in reads : Rebuild(s)
        \/ Lapse

Spec == Init /\ [][Next]_cache
=============================================================================
