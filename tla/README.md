# Behemoth: a TLA+ development

Behemoth is a Go service for a "world boss" that many players hit at once. Redis
holds the live boss (HP, state, leaderboard) and takes every hit in one Lua
script; Postgres holds the durable record; a group-commit writer sits between
them. A hit is answered `200` only when it is durable. The two stores are never
updated together, so the service spends its effort on undoing, rebuilding and
reconciling one from the other. That is what this development models.

Paths below are relative to the repository root.

## 1. The system

| Component | Code | State | Operations |
|---|---|---|---|
| Damage path | `internal/boss/service.go` | none beyond the request | `Damage`, `applyWithRehydrate`, `reconcileFailedWrite` |
| Boss view | `service.go` `Get`, `redis.go` `GetBossView` | none | pipelined read, rebuild on a miss |
| Redis store | `internal/store/redis.go` | keys `hp`, `maxhp`, `state`, `lb` per boss, with a TTL | `damageScript`, `compensateScript`, `Rehydrate`, `GetBossView` |
| Postgres store | `internal/store/postgres.go`, `db/init.sql` | `bosses`, `damage_events`, `contributions`, `reward_claims` | `CommitBatch`, `RecoveryState`, `Contributions`, `ClaimBasis`, `SaveClaim` |
| Group-commit writer | `internal/store/writer.go` | bounded channel, one batch and timer per loop, one `done` channel per request | `Submit`, `loop`, `commit`, `Start`, `Stop` |
| Rehydrator | `internal/recovery/recovery.go` | none | `RehydrateBoss`, `RehydrateAll` |
| Reconciler | `internal/recovery/reconcile.go` | bounded channel, set `queued` | `Enqueue`, `worker`, `Stop` |
| Rewards | `internal/boss/reward.go`, `service.go` `Claim` | row of `reward_claims` | `TierFor`, `RewardFor`, `Claim` |
| HTTP layer | `internal/api` | `ready` flag | routing, the 10 s timeout, error to status |
| Lifecycle | `cmd/server/main.go` | | rehydrate, serve, drain, stop |
| Configuration | `internal/config` | | `Load` and its checks |

How a hit travels:

    POST /damage -> damageScript (Redis)        points land, or defeated / not loaded
                 -> RehydrateBoss, once more     on a cold cache
                 -> Writer.Submit                full: undo, 503
                 -> loop, CommitBatch (Postgres) one transaction per batch
                 -> done                         nil: 200; failed: undo, 500
                 -> context over                 Reconciler.Enqueue, 500

How a reward is claimed:

    POST /rewards/claim -> ClaimBasis           bosses, then contributions; gate and price
                        -> SaveClaim            insert, or read back the row that is there

The components share the Redis boss (written by handlers, undos, and rebuilds of
handlers, `GET`s, reconciler workers and the start-up), the Postgres rows (written
by the committers, read by the rebuilds and the claims), and three kinds of channels.

What is hard about it:

- a rebuild reads Postgres twice and overwrites Redis later, with hits, undos and
  commits running in between;
- a batch fails as a whole, or its outcome stays unknown (`TxTimeout` during COMMIT);
- an undo, too, can fail, executed or not, and can run after a rebuild;
- claims of one player race each other, and read the ledger while it grows;
- the process can die between any two steps while a transaction it sent lives on;
- clients leave while their hit is still on its way;
- the channel is bounded, the timer is armed per batch, `Stop` closes the channel.

What makes each component correct:

- writer: an accepted event is stored or lost with its batch, the waiter hears "nil" of a
  stored event only, nobody hangs, `Stop` loses nothing (`KeepsPromise`, `TimerCovers`,
  `ReleaseNeverBlocks`, `StopFlushes`, `StopReturns`);
- ledger: the tables tell one story, and only grow (`LedgerConsistent`,
  `DurableGrows`, `OneHome`);
- answers: 200 is stored, 503 never is, `ErrCommitFailed` is not
  (`AckedIsDurable`, `OverloadedIsNotStored`, `FailedIsNotStored`);
- cache: it differs from the ledger by the hits in flight (`Conservation`), its state
  agrees with its HP (`CacheSane`), it recovers from a lost kill (`ZombieHeals`);
- the kill: exactly `max_hp` points are stored (`ExactKill`);
- cache keys: they live and lapse as one boss, a view has its maximum and HP and state that agree
  unless the boss has moved on between the two reads, a rebuilt boss is found, a zombie lapses
  (`KeysAreOneBoss`, `ViewHasMax`, `ViewAgrees`, `FoundAfterRebuild`, `ZombieLapses`);
- committers: a batch is booked whole and no other is overwritten, and nobody waits in a circle
  (`BooksWholeBatches`, `NoDeadlock`, `TransactionsEnd`);
- reconciler: one slot per boss, a request is served by a rebuild that begins later, or dropped aloud
  (`OneSlot`, `RequestsAreOwed`, `RequestsAreServed`);
- shutdown: nobody sends on a closed channel, nothing is left behind, it ends
  (`NobodyMeetsAClosedChannel`, `ExitOwesNothing`, `ShutdownEnds`);
- claims: one row per player, never changed, priced on what the player has in the end,
  shown by every answer, new for one of them only (`SameReward`, `OneGrant`,
  `RewardEarned`, `PricedOnFinalShare`, `ClaimsStay`, `ClaimAnswered`).

`PROJECT.json` lists the hazards of the code at their lines, with the properties that
watch them.

## 2. The modules

| Module | Models |
|---|---|
| `Totals` | the SUMs and `GROUP BY`s, as cardinalities of sets of points (no recursion, so it can be proved about) |
| `BossStore` | the two stores of one boss and every statement run on them, each an operator |
| `DamageService` | the handlers, the writer, the rebuilds, the reconciler, crashes and faults, over `BossStore` |
| `MCDamageService` | its TLC instances: symmetry, and a comparison of `Total` with a fold |
| `DurableWriter` | the promise of `Writer.Submit`, abstractly, with or without COMMITs whose answer is lost |
| `GroupWriter` | `store.Writer` in full; implements `DurableWriter` |
| `RewardClaims` | `Service.Claim` with `ClaimBasis` and `SaveClaim`, against the writer's commits, over `BossStore` |
| `MCRewardClaims` | its TLC instances: symmetry |
| `CacheKeys` | the cached boss key by key: TTLs, `ttlArg`, `Get` and its pipelined reads, the client's retries |
| `BossCache` | the cached boss as one thing, abstractly; `CacheKeys` implements it |
| `CommitLocks` | `CommitBatch` statement by statement, on the rows of several bosses, with row locks |
| `MCCommitLocks` | its TLC instance: the hits and the order of the rows |
| `BatchLedger` | the promise of `CommitBatch`, abstractly: a whole batch in one step; `CommitLocks` implements it |
| `Lifecycle` | the reconciler for several bosses, the handlers that ask it, and the shutdown of `run` |
| `MCLifecycle` | its TLC instance: which handler hits which boss |
| `BossStoreTheorems` | lemmas about the operators of `Totals` and `BossStore` |
| `DamageServiceProofs` | typing, custody of a hit, what the answers promise, `DamageService` implements `DurableWriter` |
| `DamageLedgerProofs` | the ledger's bookkeeping, the cache's sanity, Redis against Postgres, the exact kill |
| `GroupWriterProofs` | where a request of the writer is, the timers, `Stop`, `GroupWriter` implements `DurableWriter` |
| `CacheKeysProofs` | the lives of the keys, what a view shows, `CacheKeys` implements `BossCache` |
| `RewardClaimsProofs` | the claims: one row, one grant, the final share |
| `CommitLocksProofs` | the order of the locks, no deadlock, `CommitLocks` implements `BatchLedger` |
| `LifecycleProofs` | the slots of the reconciler, the drained handlers, the orderly exit |

`DamageService` composes `BossStore` (by `EXTENDS`) with the goroutines. One action is
one round trip to a store, one channel operation or one loop iteration. Its variables:

| Variable | In the code |
|---|---|
| `cache` | keys `boss:{id}:hp`, `:state`, `:lb`; not loaded when `hp` is missing |
| `ledger`, `events` | the committed rows of `bosses` and `contributions`; of `damage_events` |
| `limbo` | batches whose COMMIT may still happen with no client left to hear of it |
| `player`, `amount`, `pc`, `applied` | a request's body, where its handler is (or its answer), `res.Applied` |
| `reply` | the request's `done` channel (capacity 1) |
| `queue`, `batch`, `phase` | the writer's `ch`, each loop's `batch`, and whether it collects, commits or releases |
| `snap` | each `RehydrateBoss` under way: its next call and what it has read |
| `queued`, `backlog`, `asleep` | the reconciler's set, channel and workers in their delay, for this boss |
| `server`, `seeded` | the life of the process; whether the boss is in Postgres |

Its actions: `Arrive`, `Apply`, `Reapply`, `ApplyFails` (`Damage`,
`applyWithRehydrate`); `Submit`, `Await`, `Cancelled` (`Writer.Submit` and its
errors); `Undo`, `UndoFails` (`reconcileFailedWrite`); `ReadState`, `ReadContribs`,
`WriteCache`, `RebuildFails` (`RehydrateBoss`, for whichever goroutine runs it); `Get`;
`TakeReconcile`, `Settle` (`Reconciler.worker`; `Enqueue` is part of the handler's
step); `Receive`, `Flush`, `CommitOK`, `CommitFails`, `CommitUnknown`, `Release`
(`Writer.loop`, `Writer.commit`); `Seed`, `Expire`, `Crash`, `Restart`, `LateCommit`,
`LateAbort` (the environment).

What the environment may do is the constant `Faults`, so every property says under
which faults it holds. A failed call to a store comes in two versions, executed or
not. `CommitBatch` is one step, and the cache one thing; `CommitLocks` and `CacheKeys` look
into each and say why, and when, that is right.

`GroupWriter` is the same writer with what `DamageService` leaves out: the order of the
channel, the timer, the waiters released one by one, callers who gave up, panics in
`CommitBatch` (a failure) and `Stop`. `CommitBatch` ends in one of three ways: `CommitOK`,
`CommitFails` (nothing is stored) and `CommitUnheard`: the same error after a `TxTimeout` or a lost
connection during the COMMIT, with the batch stored. `KeepsPromise` shows the writer to implement
`DurableWriter`, safety (`Safety`) and liveness (`Spec`). The mapping: an event is *accepted* while it is
in the channel or in a batch not yet through its commit, then *stored* if it is among the events
of the commits that were answered, *stray* if among those of the commits unheard, else *lost*. The constant
`LostAnswers` says whether there are commits unheard. With them, all that a caller can conclude
from "failed" is that its event was not stored by a commit that was answered; without them, that
it is not stored. "nil" always means stored. `DamageService` has the same
distinction in its fault `ambiguous` (`CommitUnknown`), where it also matters when such a batch is stored.

`RewardClaims` composes the claims of one boss with the commits of the writer, which are
one action (`CommitHits`: any batch of hits not yet stored, so every order of batches).
A request reads the boss (`ReadBoss`), the contribution (`ReadShare`, with the checks and
the price), inserts (`Insert`, which waits while another transaction holds a row for
the player, as a unique index makes it), reads back (`ReadBack`) and commits
(`CommitClaim`). `Abandon` ends a request at any point: a failed statement, a timeout, a
client or a process that is gone. Its transaction is then settled by Postgres
(`Settle`), which may find that COMMIT had reached it. `claims` are the committed rows,
`pending` the uncommitted ones, `fresh` is the opposite of `already_claimed`. The
percentage is kept as the points it is computed from, so that a price that differs in
them is a different price even within a tier.

`CacheKeys` has the four keys, each a value and the ticks it has to live. `HitKeys`,
`UndoKeys` and `RehydrateKeys` are the writes of the two scripts and of `Rehydrate`, with what
`SET` does to a TTL and `EXPIRE` to a missing key. The TTL reaches the keys in three ways: in
whole seconds to the scripts (`ttlArg`), in milliseconds to the `SET`s of `Rehydrate`, and
through the client's own rounding to its `EXPIRE` (`expireArg`). A hit (`Apply`, with the
rebuild and the retry of `applyWithRehydrate`) and a `GET` (`ReadHP`, `ReadMax`, `ReadStateKey`: the
commands of a pipeline that is no transaction) each have a deadline, the router's; `seen` is what the
view of a `GET` has read so far; `Unheard` is a script that has run and whose reply is lost, so that the
client runs it again or gives up. `Store` and `Undo` settle a hit at any later time. `OneBoss`
maps the keys to `BossCache`. The reconciler's and the start-up's rebuilds make the same reads
and writes as a request's and are not processes of their own here. Redis 7 gives a script and a
`MULTI` one time, so keys that get the same TTL in one of them lapse together.

`CommitLocks` has the rows of `bosses` and `contributions`, and *sessions*: backends of Postgres
that run one transaction each. `IsNext` is the row of the session's next statement, in the order
of the sorted keys (`Rank`: any order of the names, contributions before bosses). `Write` waits
for a row another session has written and then works on the version committed last
(READ COMMITTED, and `ON CONFLICT` for a key that is being inserted). `GiveUp` is `TxTimeout`: the
committer leaves, and the session keeps its locks and goes on until Postgres finds out, or
commits if COMMIT was already on its way. `Booked` maps the committed rows to `BatchLedger`, whose
one action is `BossStore`'s `CommitBatch` on every boss of the batch.

`Lifecycle` has the reconciler's set and intake (`queued`, `ch`) and its workers (`work`), the
handlers from the moment their hit has landed (`pc`, `left`: the time until the router's or
the undo's timeout), the writer as `DurableWriter` promises it (`pending`, `reply`), and where
`run` is (`server`). `Enqueue` is the two or three steps it is in the code: mark and unlock (`Ask`), send
without blocking (`Send`), unmark when the intake was full (`Drop`). `asked` is a history
variable: the bosses whose last request has seen no rebuild begin. `Signal`, `ListenFails`,
`ShutdownReturns` (all handlers over, or the shutdown timeout), `WriterStopped` and
`ReconcilerStopped` are `run`. A send on a closed channel ends its handler as `"panic"` (in
`Submit`: a hit nobody undoes) or `"leak"` (in `Enqueue`: a mark nobody removes). `enough` says
that the shutdown timeout exceeds the longest handler: the defaults (15 s against 10 s and 2 s) do,
`config.Load` does not check it.

Definitions whose name has an underscore (`CommitBatch_OffByOne`) are mutants: a
plausible slip in the code named before the underscore. `PROJECT.json` says which
property notices which; none is used by a specification.

## 3. The runs

| Run | Instance | Checks | Distinct states |
|---|---|---|---|
| `DamageQuiet` | 4 hits of 0, 1 or 2 points, 2 players, 2 committers, `max_hp` 3, queue 1, batches of 2; faults: `commit` | `FailedIsNotStored`, `Conservation`, `ExactKill` | 480 k |
| `DamageChaos` | 2 hits of 1 or 2, 2 players, 1 committer, a worker, a `GET`, `max_hp` 2; all ten faults | `TypeOK`, `AckedIsDurable`, `OverloadedIsNotStored`, `LedgerConsistent`, `OneHome`, `CacheSane`, `DurableGrows` | 1.7 M |
| `DamageLive` | 2 hits, 2 committers, a worker; faults `commit`, `cancel`, `undo`; fair | `EveryHitAnswered`, `ZombieHeals` | 142 k |
| `GroupWriter` | 3 requests, 2 loops, queue 2, batches of 2; commits that fail and commits unheard (`LostAnswers`); fair | `TypeOK`, `TimerCovers`, `ReleaseNeverBlocks`, `StopFlushes`, `StopReturns`, `KeepsPromise` | 208 k |
| `ClaimRace` | 3 claims, 3 hits of 1, 2 or 18 points, 2 players, `max_hp` 20 | `TypeOK`, `SameReward`, `OneGrant`, `RewardEarned`, `PricedOnFinalShare`, `ClaimsStay` | 250 k |
| `ClaimLive` | 3 claims of one player, one killing hit; fair | `ClaimAnswered` | 3.5 k |
| `CacheKeys` | a hit and a `GET` that repeat for ever, `max_hp` 2, 2 players; 2 ticks to the second; TTLs none, ½, 1 and 1½ s; deadline ½ s; fair | `TypeOK`, `ViewHasMax`, `FoundAfterRebuild`, `KeysAreOneBoss`, `ViewAgrees`, `ZombieLapses` | 478 k |
| `CommitLocks` | 5 hits of 1 or 2 points on 2 bosses by 2 players, `max_hp` 2, 2 sessions, batches of 2; fair | `NoDeadlock`, `BooksWholeBatches`, `TransactionsEnd` | 71 k |
| `Lifecycle` | 3 handlers, 2 bosses, 2 workers, intake of 1; timeouts of 1 tick for a request and for an undo, 1 or 3 for the shutdown; fair | `OneSlot`, `RequestsAreOwed`, `NobodyMeetsAClosedChannel`, `ExitOwesNothing`, `RequestsAreServed`, `ShutdownEnds` | 141 k |
| `Overkill` | `cancel` only | `ExactKill`, violated | |
| `FailedButStored` | `ambiguous` only | `FailedIsNotStored`, violated | |
| `CacheAboveMax` | `cancel`, `commit` | `CacheWithinMax`, violated | |

Why these bounds. Two hits over two batches meet in every order, and one queue slot
fills with one hit. `max_hp` 3 with hits of 2 makes a hit land partly, kills a boss
with one hit in flight, and leaves hits to be refused; four hits let a refused one,
a failed one, a killing one and a late one coexist. In `DamageChaos` two hits suffice
for each pair of events a hazard names (hit and rebuild, undo and rebuild,
commit and crash); one committer suffices because batches abandoned in `limbo` commit
beside its own. `Boot`, a worker, a handler and a `GET` are four concurrent rebuilders.
In `ClaimRace`, `max_hp` 20 and hits of 1, 2 and 18 reach three of the five tiers and
a share exactly on a bound; two hits kill, the third may commit before the kill, with it, or
after it (what `Overkill` shows the ledger may do), so that a claim repeated later is
priced higher than the row it finds. Three claims are two that race and one
that repeats; `ClaimLive` has all three wait for the same row.
In `CacheKeys` one hit and one `GET` are enough for two rebuilders, views that are torn either way (0 HP
and alive, HP and defeated) and an undo after a rebuild, because a request that is over gives its place to the next, without end; a
repeated and unheard hit needs no second one. Half a second is a TTL that truncates to 0, one
and a half a TTL that truncates to less than itself. In `CommitLocks` two sessions with batches
of 2 touch up to four rows each, share any of them, and kill a boss together or alone; a deadlock
of three sessions or more, each waiting for the next, is excluded by proof (`NobodyDeadlocks`). In `Lifecycle` three handlers fill the intake, coalesce and are dropped; two workers can
have the same boss at two stages; a shutdown timeout of 1 is shorter, one of 3 longer than a
request and its undo.
Process restarts are not bounded: the state space is finite without it.
Symmetry (hits, players, committers, workers) is used for invariants and the action
property only, never with liveness.

What the violations show (`findings` in `PROJECT.json`):

- **Overkill.** `ARCHITECT.md:50` says a defeated boss has taken exactly `max_hp`.
  A rebuild computes HP from the *stored* contributions and so gives back the HP of
  hits that have landed but are still in the writer. They are stored all the same,
  and the returned HP is dealt again, by anybody. One disconnected client is enough. Then the
  contribution percentages of the claims add up to more than 100 %.
- **FailedButStored.** `store.go:15` says `ErrCommitFailed` means not persisted. It is
  put on every error of `CommitBatch`, a timeout of COMMIT included.
- **CacheAboveMax.** An undo after a rebuild adds points that the rebuilt cache never
  lost.

All three live in windows of a few milliseconds to seconds; the TTL later wipes the
cache's part of the damage, never the ledger's.

What the runs say about the configuration, none of which `config.Load` checks:

- `REDIS_CACHE_TTL` should be whole seconds. With 1.5 s the scripts renew the keys for 1 s and a
  rebuild sets HP and state for 1.5 s but the leaderboard for 1 s, so a boss is shown without its leaderboard
  (`KeysAreOneBoss` holds for whole seconds only). Below 1 s the scripts take HP for persistent, and the
  TTL is no backstop any more (`ZombieLapses` asks for a second).
- It should exceed the router's timeout, or a boss that was just rebuilt may lapse before the same
  request looks again: a `404`, or a `GET` answered `200` with an empty boss
  (`FoundAfterRebuild`).
- The TTL is *rolling*: each hit that lands renews it. It heals a diverged boss only while nobody
  hits it, or when its hits are refused, as those on a dead boss are (`ZombieLapses`).
- `SHUTDOWN_TIMEOUT` should exceed the request timeout and the undo's, or a handler may send on a
  closed channel (`NobodyMeetsAClosedChannel` is conditional on it).

## 4. Fairness

`FairSpec` assumes weak fairness of each goroutine's regular steps: a handler, a
rebuild, a committer, a worker that can take one does. The code has no unbounded wait of
its own: the store calls have timeouts, the flush timer and the settle delay run out, the
Go scheduler is fair to runnable goroutines. A transaction in `limbo` ends because
Postgres either finishes or aborts it. No fault, no restart of a dead process, no arrival, no `GET`
and no late seed is ever owed; in particular a waiter is not saved by the router's 10 s timeout, so
`EveryHitAnswered` says that the writer itself answers. Weak fairness is enough: no goroutine waits for a condition that others
keep withdrawing. In `RewardClaims` a
request that can take a step takes one, and Postgres ends the transactions it is left
with; no claim, hit, boss or failure is owed. In `GroupWriter` nobody owes a `Submit`, a cancellation or a `Stop`.
In `CacheKeys` time passes and a request at work goes on (it may do so by failing: its context is
over at its deadline); nobody has to arrive, and no hit has to be stored or undone. In `CommitLocks` a backend
that can go on does, and one that waits for a COMMIT that will not come rolls back in the end (the
connection is dead); no transaction owes an error, a timeout or even a beginning. In `Lifecycle` each handler,
each worker and the writer go on (`GroupWriter` shows that the writer does, its commits being
bounded by `TxTimeout`), and so does `run` once it is signalled. No client has to leave; and nothing is owed once
the process is gone.

`ZombieHeals` is checked without failing rebuilds and without a dropped reconcile: with
those the code itself relies on the TTL (`reconcile.go:16`): that this backstop works for a zombie,
and for which TTLs, is `ZombieLapses` in `CacheKeys`.

## 5. What is proved

`tlapm` checks these for every value of the constants (any finite set of hits, any
numbers of players, committers, workers and getters, any sizes, any `max_hp`):

| Theorem | Property | Under |
|---|---|---|
| `TypeCorrect` | `TypeOK` | all faults |
| `NoFalseAck` | `AckedIsDurable` | all faults |
| `OverloadedMayRetry` | `OverloadedIsNotStored` | all faults |
| `StoredOnce` | `OneHome` | all faults |
| `FailedMeansNotStored` | `FailedIsNotStored` | `"ambiguous" \notin Faults` |
| `ServiceKeepsPromise` | `DurableWriter!Safety` without lost answers | `Reliable`: all faults but `ambiguous` and `crash` |
| `BooksBalance` | `LedgerConsistent` | all faults |
| `DurableOnlyGrows` | `DurableGrows` | all faults |
| `CacheStaysSane` | `CacheSane` | all faults |
| `StoresBalance` | `Conservation` | `Forgiving`: faults `commit`, `drop`, `rebuild` |
| `KillIsExact` | `ExactKill` | `Steady`: faults `commit`, `redis`, `drop`, `rebuild` |
| `CacheStaysWithinMax` | `CacheWithinMax` | `Steady` |
| `ClaimsTyped` | `RewardClaims!TypeOK` | |
| `RewardIsShown` | `SameReward` | |
| `GrantedOnce` | `OneGrant` | |
| `ClaimsNeverChange` | `ClaimsStay` | |
| `RewardsAreEarned` | `RewardEarned` | |
| `SharesAreFinal` | `PricedOnFinalShare` | |
| `CommitsTyped` | `CommitLocks!TypeOK` | |
| `NobodyDeadlocks` | `NoDeadlock` | |
| `BatchesAreBooked` | `BooksWholeBatches` | |
| `LifecycleTyped` | `Lifecycle!TypeOK` | |
| `SlotsAgree` | `OneSlot` | |
| `RequestsStayOwed` | `RequestsAreOwed` | |
| `HandlersAreDrained` | `NobodyMeetsAClosedChannel` | |
| `NothingIsLeftBehind` | `ExitOwesNothing` | |
| `WriterTyped` | `GroupWriter!TypeOK` | |
| `BatchesAreTimed` | `TimerCovers` | |
| `ReleasesGoThrough` | `ReleaseNeverBlocks` | |
| `StopLosesNothing` | `StopFlushes` | |
| `PromiseKept` | `DurableWriter!Safety` (the safety of `KeepsPromise`) | `LostAnswers` TRUE or FALSE, the same in both |
| `KeysAreTyped` | `CacheKeys!TypeOK` | |
| `ViewsAgree` | `ViewAgrees` | every TTL |
| `ViewsAreWhole` | `ViewHasMax` | every TTL |
| `RebuiltIsFound` | `FoundAfterRebuild` | (its premise: a TTL longer than the deadline, or none) |
| `FourKeysOneBoss` | `KeysAreOneBoss` | (its premise: a TTL of whole seconds) |

and about the operators: `UndoInverts` (the compensation is the exact inverse of the
damage), `CommitBatchAgrees` (a batch adds its total and keeps HP and state in
agreement), `TotalByKey` (the per-player groups add up to the per-boss sum).

The assumptions are `StoreAssumption`, `ServiceAssumption`, `ClaimAssumption`, `LocksAssumption`,
`LifecycleAssumption`, `WriterAssumption` and `KeysAssumption`: finite hits, players, sessions and workers,
`max_hp > 0` (a CHECK of the schema), positive limits (`config.Load`), at least one loop
(`NewWriter`), one player and one tick to the second, that the
names of the goroutines differ, that a hit that is committed landed a point, and that the
order of the rows (`Rank`) is total and puts contributions before bosses.

The argument. Hardly any of these properties is inductive by itself. For `DamageService`, `Custody` is the
invariant that is: besides the types it says that a hit the writer holds, a
transaction may store or the log contains belongs to a handler that handed it over
(`HandedOver`), that it is in one of those places only (`OneHome`), that a good reply
is on its way only for a stored hit (`GoodNews`), and that a handler has a rebuild in
progress only while it is at that step (`OwnRebuild`). With `BadNews` (a
bad reply is on its way only for a hit that nobody can store any more) it yields the
promises of the answers. The lemma `Handover` says how a step moves hits between the
places, so that each proof that follows has few cases.

For the ledger, `KeptOrBooked` splits every step into those that leave the ledger alone
and those that book a batch that was not booked before; `CommitBatchAgrees` and
`TotalByKey` do the arithmetic. For the cache, `Sane` carries the snapshots of the
rebuilds along: what was read from a consistent ledger is consistent when written,
however late. Totals are cardinalities, so the lemmas of `FiniteSetTheorems` apply;
`MCDamageService` has TLC compare them with the usual fold.

For the balance of the two stores, `Calm` says that without a fault that loses the
cache, cuts a wait short or leaves a COMMIT in doubt the only rebuild is the start-up's, before any
hit (`Dawn`). `Balanced(lost, over)` is `Conservation` with what lost replies of Redis have cost:
points gone from the boss, and points over in the scores. A hit that lands enters the flight, a
refused or failed one leaves it with its points given back (the score has them, by `Balanced`
itself), a committed batch moves as a whole from the flight to the ledger; all of these keep
`lost` and `over`. Only `ApplyFails` adds to them (`LostReply`). `Conservation` is the case where
both are 0, and `Covered` the one where they are anything: points may be missing, none is there
twice, so `ExactKill` follows with `LedgerConsistent`, and `CacheWithinMax`.
(`drop` and `rebuild` have no occasion without a rebuild beside the start-up's.)
`KillIsExact` holds under no other fault: each of the remaining six alone breaks `ExactKill`,
as TLC shows when `Faults` in `Overkill.cfg` is that one (for `undo`, with a third hit).

For the promise of the writer, `DamageService` is mapped to `DurableWriter` by the audit log, by
what is queued or in a batch not yet committed (`Pending`), and, for a hit that is in neither, by
where its handler is (`FateAt`). `InControl` adds to `Custody` and `BadNews` that no transaction is
at large (`limbo`), which is what `Reliable` buys; the promise is the one with `LostAnswers` FALSE. Then only `Submit`, `Await` and `Cancelled` of a
handler and the commit of a batch are visible (`HandleKeepsPromise`, `CommitKeepsPromise`).
With `PromiseKept` both models of the writer, the one in the service and the detailed one, keep
the one promise; `Lifecycle` is written from it.

For the detailed writer, `Accounted` says where a request can be and what it may have heard there:
in one place and once (`Once`), nothing heard while it is held (`Unheard`), held or answered while
somebody waits (`Owed`), and every error sent or about to be sent the outcome of the commit: "nil" goes
to the events of an answered commit only, "failed" to no such event (`Outcomes`). The channel and the batches are sequences, so `RangeAppend` and `RangeTail` say once
what sending and receiving do to their elements. `BatchesAreTimed` needs no more than the types.

For the keys, `KeySteps` reduces every step to what it writes (`Writes`: one hit, one undo or one
rebuild) or to the passing of a tick (`Ages`), so that an invariant of the keys has five cases and
not thirty. `ViewAgrees` is an action property: it looks at the step that reads the state, and asks that
it agrees with the HP of the view if the boss still has that HP. So it needs that the keys agree at any
moment. `Shown` says so (`Agrees`), and why: at 0 HP the state key is there and lives as long as the
HP (`StateLasts`), and what a rebuild has read was consistent (`Snapshots`); it needs
`Landing`, that a hit that waits for its batch has landed a point. `ShowsOnly` says that no other step
completes a view. `MaxStays` says that the maximum is there whenever the HP is, never lapses, and is in
every view that has come that far. `Found` is a race of two clocks again: after a request's rebuild
the HP lives longer than the request has left (or has no TTL), and both run down
together; whoever writes the HP in between renews it (`LifeRenewed`). `LivesAgree` says that HP, state and
leaderboard lapse together, which is where whole seconds come in (`LivesStay`).

For the claims, `Control` says what a request knows at each step (`Knows`) and that an
uncommitted row belongs to a request that found the player without one (`Owner`). So a
row is only ever added where there is none, which gives `ClaimsStay`, `SameReward` and,
carried along, `OneGrant`. `Held` collects the rewards a player has or is about to have,
committed or only priced. `NewRewards` says where one can come from: it was held before,
or has just been priced on the ledger of a defeated boss. `Earned` then follows because a
ledger only grows (`CommitGrows`), and `Final` because a ledger that agrees with itself
(`Booked`) and is defeated has its full total: one more hit exceeds `max_hp`.
`SharesAreFinal` and `KillIsExact` belong together: the first assumes of the ledger what
the second proves while batches fail only by rolling back.

For the locks, `Ordered` says that whatever a session holds ranks below all it has still to
write: a statement takes the least row left, and a transaction that ends or begins holds
nothing. A session that is waited for therefore waits, if at all, for a later row. Take a circle of the
smallest size and the session of it that waits for the first row: nobody of the circle can wait
for that session, so the circle without it is a smaller one (`SortedNoDeadlock`). For the
refinement, `Isolated` adds that nobody else holds a row a session has written (`Alone`), so
that its draft is still what its statement makes of the committed version (`Current`), and that
an event is in one batch (`OneBatch`). `RowHits` and `CommitBooks` then turn the rows of a
COMMIT into `BossStore`'s `CommitBatch` on each boss; every other step leaves the committed rows alone.

For the reconciler, `SlotsAreCarriers` splits `OneSlot` by the kind of carrier (senders, places
of the intake, sleeping workers), and one lemma per step moves a boss from one kind to the next:
`Ask`, `Send`, `Take`, `Settle`. For the shutdown, `Patient` is a race of two clocks that the
timeouts decide: while handlers are drained, the patience left exceeds what any of them can
still take, its undo included, and both run down together; so patience ends only when no
handler is left. `Stopped` keeps what the two `Stop`s have waited for, and an empty set of
slots at the exit leaves nothing asked.

Only model-checked: the liveness properties (fairness is out of the prover's reach), that is
`EveryHitAnswered`, `ZombieHeals`, `StopReturns`, `ClaimAnswered`, `ZombieLapses`, `TransactionsEnd`,
`RequestsAreServed`, `ShutdownEnds`, and of `KeepsPromise` the part beyond `DurableWriter!Safety`.
Every invariant and every action property of the passing runs is proved. `TypeOK` of `CommitLocks`
and of `Lifecycle` is not in a run, being proved for every instance; nor is `ServiceKeepsPromise`,
whose abstract specification `KeepsPromise` checks on the detailed writer, and `CacheStaysWithinMax`,
the other side of the run `CacheAboveMax`.

## 6. Not modelled, and why

- What several bosses share is in `CommitLocks` (batches) and `Lifecycle` (the intake); apart
  from that a boss is a set of keys and rows of its own, and the other modules have one.
- The loss of Redis as a whole, in `CacheKeys`: `DamageService` has the keys vanish at any time
  (`expire`), and `max_hp`, alone without a TTL, goes with the others then.
- The order of the Top 10, and what a torn view shows of the leaderboard: nothing is decided by it. A
  view whose HP and state are of two moments does occur, also one with 0 HP and "alive" (the boss
  lapsed, or a kill was undone, between the two reads); nothing in the repository excludes it, and
  `ViewAgrees` says when it cannot be.
- Socket I/O that outlasts the context of its request by the client's own read and write timeouts:
  `Lifecycle` ends a handler at the deadline of its context, and the condition on the shutdown timeout
  (`enough`) is to be read with that allowance.
- The `KEY SHARE` locks of the foreign keys do not conflict with these `UPDATE`s, which change no key;
  the readers take no row locks.
- `waitRedisReady`, dialling, configuration parsing, JSON, routing, readiness, logging,
  metrics: no shared state, or nothing reads it. `scripts/loadprobe` is a client.
- The precision of Lua numbers (doubles, beyond 2^53): listed as a hazard.

## 7. Plan

What is left:

1. `Lifecycle` holds the promise of the writer as three actions of its own; that they implement
   `DurableWriter` needs a history of what each handler heard.
2. `BooksWholeBatches` and `LedgerConsistent` meet in `BossStore`'s `CommitBatch`; that the ledger of
   `DamageService` is a `BatchLedger` of one boss would join them formally. It asks for points that
   are a variable there, since `applied` is known only when a hit has landed (`KeptOrBooked` is what
   there is of it now).
