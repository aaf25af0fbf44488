----------------------------- MODULE BossStore -----------------------------
(***************************************************************************)
(* The two stores of one boss and the statements the service runs on them  *)
(* (internal/store/redis.go, internal/store/postgres.go).  Each operator   *)
(* is one atomic statement: a Lua script or MULTI/EXEC of Redis, a SELECT  *)
(* or a transaction of Postgres.                                           *)
(*                                                                         *)
(*   cache   the keys hp, state and lb of the boss in Redis; all three are *)
(*           there or none (the scripts and Rehydrate give them one TTL).  *)
(*           A player outside the ZSET lb has the score 0.                 *)
(*   ledger  the boss's row of bosses and its rows of contributions; a     *)
(*           player without a row has the total 0.                         *)
(***************************************************************************)
EXTENDS Totals

CONSTANTS Players,   \* the players who hit the boss
          MaxHP      \* bosses.max_hp, which no statement changes

ASSUME StoreAssumption ==
  /\ IsFiniteSet(Players)
  /\ MaxHP \in Nat \ {0}          \* CHECK (max_hp > 0), db/init.sql

BossStates == {"alive", "defeated"}

Cache == [loaded : BOOLEAN, hp : Nat, state : BossStates, lb : [Players -> Nat]]

Ledger == [hp : Nat, state : BossStates, contrib : [Players -> Nat]]

NoDamage == [p \in Players |-> 0]

(***************************************************************************)
(* Redis.                                                                  *)
(***************************************************************************)
\* What the keys of a loaded boss owe to each other.
CacheAgrees(cache) == cache.loaded => (cache.state = "defeated" <=> cache.hp = 0)

Cold == [loaded |-> FALSE, hp |-> 0, state |-> "alive", lb |-> NoDamage]

\* Mutant: the hit is credited in full.
Landed_Uncapped(cache, damage) == damage

\* The part of a hit that lands: min(hp, damage).
Landed(cache, damage) == IF damage > cache.hp THEN cache.hp ELSE damage

\* What damageScript writes when d points land.
Hurt(cache, p, d) ==
  [loaded |-> cache.loaded,
   hp     |-> cache.hp - d,
   state  |-> IF cache.hp - d <= 0 THEN "defeated" ELSE cache.state,
   lb     |-> [cache.lb EXCEPT ![p] = @ + d]]

\* damageScript: the reply's status, the points that landed, the cache after.
DamageScript(cache, p, damage) ==
  LET refuse(status) == [status |-> status, applied |-> 0, cache |-> cache]
      d == Landed(cache, damage)
  IN  IF ~ cache.loaded THEN refuse("notloaded")
      ELSE IF damage <= 0 THEN refuse("invalid")
      ELSE IF cache.hp <= 0 THEN refuse("defeated")
      ELSE [status |-> "applied", applied |-> d, cache |-> Hurt(cache, p, d)]

\* Mutants of compensateScript: the score is not taken back; it may go below 0;
\* a boss stays 'defeated' with its HP restored.
CompensateScript_KeepsScore(cache, p, amt) ==
  IF ~ cache.loaded \/ amt <= 0
    THEN cache
    ELSE [cache EXCEPT !.hp = @ + amt,
                       !.state = IF cache.hp + amt > 0 THEN "alive" ELSE @]

CompensateScript_NoFloor(cache, p, amt) ==
  IF ~ cache.loaded \/ amt <= 0
    THEN cache
    ELSE [CompensateScript_KeepsScore(cache, p, amt) EXCEPT !.lb[p] = @ - amt]

CompensateScript_StaysDead(cache, p, amt) ==
  IF ~ cache.loaded \/ amt <= 0
    THEN cache
    ELSE [cache EXCEPT !.hp = @ + amt,
                       !.lb[p] = IF @ > amt THEN @ - amt ELSE 0]

\* compensateScript: add the points back; a score of 0 or less leaves the ZSET.
CompensateScript(cache, p, amt) ==
  IF ~ cache.loaded \/ amt <= 0
    THEN cache
    ELSE [loaded |-> TRUE,
          hp     |-> cache.hp + amt,
          state  |-> IF cache.hp + amt > 0 THEN "alive" ELSE cache.state,
          lb     |-> [cache.lb EXCEPT ![p] = IF @ > amt THEN @ - amt ELSE 0]]

\* Mutant: the state is not copied.
Rehydrate_Alive(hp, state, contribs) ==
  [loaded |-> TRUE, hp |-> hp, state |-> "alive", lb |-> contribs]

\* Rehydrate: overwrite every key with what was read from Postgres.
Rehydrate(hp, state, contribs) ==
  [loaded |-> TRUE, hp |-> hp, state |-> state, lb |-> contribs]

(***************************************************************************)
(* Postgres.                                                               *)
(***************************************************************************)
Untouched == [hp |-> MaxHP, state |-> "alive", contrib |-> NoDamage]

\* SUM(total_damage) over the boss's contributions.
TotalDamage(ledger) == Total(ledger.contrib, Players)

\* RecoveryState: GREATEST(0, max_hp - SUM(total_damage)).
RecoveryHP(ledger) ==
  IF TotalDamage(ledger) >= MaxHP THEN 0 ELSE MaxHP - TotalDamage(ledger)

\* What the columns of a committed ledger owe to each other: current_hp is what
\* the contributions leave, and the state is 'defeated' exactly at 0.
LedgerAgrees(ledger) ==
  /\ ledger.hp = RecoveryHP(ledger)
  /\ ledger.state = "defeated" <=> ledger.hp = 0

\* Mutants of CommitBatch: a boss at exactly 0 is not defeated (< 0 for <= 0);
\* a player's total is replaced (EXCLUDED.total_damage), not added to.
CommitBatch_OffByOne(ledger, B, player, applied) ==
  LET left == ledger.hp - Total(applied, B)
  IN  [hp      |-> IF left >= 0 THEN left ELSE 0,
       state   |-> IF left < 0 THEN "defeated" ELSE ledger.state,
       contrib |-> [p \in Players |->
                      ledger.contrib[p] + TotalBy(applied, player, B, Players)[p]]]

CommitBatch_Replaces(ledger, B, player, applied) ==
  LET left == ledger.hp - Total(applied, B)
  IN  [hp      |-> IF left >= 0 THEN left ELSE 0,
       state   |-> IF left <= 0 THEN "defeated" ELSE ledger.state,
       contrib |-> [p \in Players |->
                      IF \E h \in B : player[h] = p
                        THEN TotalBy(applied, player, B, Players)[p]
                        ELSE ledger.contrib[p]]]

\* Mutant of CommitBatch: current_hp without GREATEST(0, ...).
CommitBatch_NoFloor(ledger, B, player, applied) ==
  LET left == ledger.hp - Total(applied, B)
  IN  [hp      |-> left,
       state   |-> IF left <= 0 THEN "defeated" ELSE ledger.state,
       contrib |-> [p \in Players |->
                      ledger.contrib[p] + TotalBy(applied, player, B, Players)[p]]]

\* CommitBatch: the events of the hits in B, aggregated per player and per
\* boss, in one transaction.
CommitBatch(ledger, B, player, applied) ==
  LET perPlayer == TotalBy(applied, player, B, Players)
      perBoss   == Total(applied, B)
  IN  [hp      |-> IF ledger.hp >= perBoss THEN ledger.hp - perBoss ELSE 0,
       state   |-> IF ledger.hp - perBoss <= 0 THEN "defeated" ELSE ledger.state,
       contrib |-> [p \in Players |-> ledger.contrib[p] + perPlayer[p]]]
=============================================================================
