--------------------------- MODULE DamageService ---------------------------
(***************************************************************************)
(* POST /damage on one boss: the handlers (boss.Service.Damage), the       *)
(* group-commit writer (store.Writer), the cache rebuilds of the handlers, *)
(* of GET /boss/{id}, of the reconciler and of the startup, over the Redis *)
(* cache and the Postgres ledger of BossStore.                             *)
(*                                                                         *)
(* One action is one round trip to a store, one channel operation or one   *)
(* loop iteration of the writer; between two actions of one goroutine any  *)
(* other may run.  What the environment may do to the service is listed in *)
(* the constant Faults, so that each property says under which it holds.   *)
(***************************************************************************)
EXTENDS BossStore

CONSTANTS Hits,        \* the POST /damage requests
          Amounts,     \* the damage_amounts they ask for
          MaxHit,      \* config.MaxDamagePerHit
          QueueSize,   \* config.WriterQueueSize
          MaxBatch,    \* config.BatchMaxSize
          Committers,  \* the writer's goroutines (config.WriterConcurrency)
          Workers,     \* the reconciler's goroutines (reconcileWorkers)
          Getters,     \* the GET /boss/{id} requests that may run at once
          Boot,        \* the startup's RehydrateAll
          Faults       \* a subset of AllFaults

AllFaults ==
  { "commit",      \* CommitBatch fails and the transaction is rolled back
    "ambiguous",   \* CommitBatch fails, the transaction may yet commit
    "cancel",      \* a client disconnects, or the 10 s timeout strikes
    "undo",        \* the CompensateDamage call fails, executed or not
    "redis",       \* the ApplyDamage call fails, executed or not (a request
                   \* that ends during the call fails it, too)
    "rebuild",     \* a call of RehydrateBoss fails
    "drop",        \* the reconciler's intake is full of other bosses
    "expire",      \* the cache's TTL runs out (or Redis loses the boss)
    "crash",       \* the process dies and is restarted
    "late_seed" }  \* the boss is inserted while the service is up

ASSUME ServiceAssumption ==
  /\ IsFiniteSet(Hits)
  /\ Amounts \subseteq Int
  /\ MaxHit \in Nat \ {0}      \* config.Load refuses the others
  /\ QueueSize \in Nat \ {0}
  /\ MaxBatch \in Nat \ {0}
  /\ Faults \subseteq AllFaults
  /\ Boot \notin Hits \cup Getters \cup Workers
  /\ Hits \cap (Getters \cup Workers) = {}
  /\ Getters \cap Workers = {}

VARIABLES
  server,     \* "starting", "up" or "down"
  seeded,     \* whether the boss is in Postgres
  ledger,     \* its row and contributions, as committed
  events,     \* the hits in the audit log damage_events
  limbo,      \* batches whose transaction may still commit, unheard by anyone
  cache,      \* the boss in Redis
  player,     \* player[h], amount[h]: the body of the request h
  amount,
  pc,         \* where the handler of h is, or the answer it gave
  applied,    \* the points of h that landed, as ApplyDamage told the handler
  reply,      \* the channel done of h: "none", "nil" or "failed"
  queue,      \* the channel ch of the writer; its order does not matter here
  batch,      \* the batch of each committer
  phase,      \* what it does with it: "collect", "commit", "nil" or "failed"
  snap,       \* the rebuilds in progress: the next step, and what was read
  queued,     \* whether the boss is in the reconciler's set queued ...
  backlog,    \* ... and in its channel ch
  asleep      \* the reconciler's workers in their settle delay for the boss

request  == <<player, amount>>
handler  == <<pc, applied>>
writer   == <<queue, batch, phase>>
durable  == <<ledger, events, limbo>>
healing  == <<queued, backlog, asleep>>
vars == <<server, seeded, durable, cache, request, handler, reply, writer,
          snap, healing>>

(***************************************************************************)
(* The answers of the handler, and the steps before them.                  *)
(***************************************************************************)
Answers == {"ok",          \* 200
            "invalid",     \* 400
            "notfound",    \* 404
            "defeated",    \* 409
            "overloaded",  \* 503 ErrOverloaded
            "failed",      \* 500 ErrCommitFailed
            "cancelled",   \* 500 or nobody there: the request's context ended
            "error",       \* 500 a store call failed
            "lost"}        \* the process died first

Steps == {"idle", "apply", "rebuild", "reapply", "submit", "wait",
          "undo_full", "undo_failed"}

Rebuilders == Hits \cup Getters \cup Workers \cup {Boot}

Snap == [step : {"idle", "state", "contribs", "write"}, hp : Nat,
         state : BossStates, contribs : [Players -> Nat]]

NoSnap == [step |-> "idle", hp |-> 0, state |-> "alive", contribs |-> NoDamage]

Begun == [NoSnap EXCEPT !.step = "state"]

TypeOK ==
  /\ server \in {"starting", "up", "down"}
  /\ seeded \in BOOLEAN
  /\ ledger \in Ledger
  /\ events \subseteq Hits
  /\ limbo \subseteq SUBSET Hits
  /\ cache \in Cache
  /\ player \in [Hits -> Players]
  /\ amount \in [Hits -> Amounts]
  /\ pc \in [Hits -> Steps \cup Answers]
  /\ applied \in [Hits -> Nat]
  /\ reply \in [Hits -> {"none", "nil", "failed"}]
  /\ queue \subseteq Hits
  /\ batch \in [Committers -> SUBSET Hits]
  /\ phase \in [Committers -> {"collect", "commit", "nil", "failed"}]
  /\ snap \in [Rebuilders -> Snap]
  /\ queued \in BOOLEAN
  /\ backlog \in BOOLEAN
  /\ asleep \subseteq Workers

(***************************************************************************)
(* run: the stores hold a boss nobody has hit, or (late_seed) no boss yet; *)
(* what Redis still holds of an earlier run is overwritten or absent.      *)
(***************************************************************************)
Init ==
  /\ server = "starting"
  /\ seeded \in {TRUE, "late_seed" \notin Faults}
  /\ ledger = Untouched
  /\ events = {}
  /\ limbo = {}
  /\ cache = Cold
  /\ player \in [Hits -> Players]
  /\ amount \in [Hits -> Amounts]
  /\ pc = [h \in Hits |-> "idle"]
  /\ applied = [h \in Hits |-> 0]
  /\ reply = [h \in Hits |-> "none"]
  /\ queue = {}
  /\ batch = [w \in Committers |-> {}]
  /\ phase = [w \in Committers |-> "collect"]
  /\ snap = [r \in Rebuilders |-> IF r = Boot THEN Begun ELSE NoSnap]
  /\ queued = FALSE
  /\ backlog = FALSE
  /\ asleep = {}

Goto(h, step) == pc' = [pc EXCEPT ![h] = step]

(***************************************************************************)
(* Reconciler.Enqueue: coalesce with a rebuild that has not started, drop  *)
(* when the channel is full, or schedule one.                              *)
(***************************************************************************)
Enqueue ==
  \/ /\ queued
     /\ UNCHANGED healing
  \/ /\ ~ queued
     /\ queued' = TRUE
     /\ backlog' = TRUE
     /\ UNCHANGED asleep
  \/ /\ ~ queued
     /\ "drop" \in Faults
     /\ UNCHANGED healing

(***************************************************************************)
(* Damage: the handler of the hit h.                                       *)
(***************************************************************************)
Arrive(h) ==
  /\ server = "up"
  /\ pc[h] = "idle"
  /\ Goto(h, IF amount[h] <= 0 \/ amount[h] > MaxHit THEN "invalid" ELSE "apply")
  /\ UNCHANGED <<server, seeded, durable, cache, request, applied, reply,
                 writer, snap, healing>>

\* applyWithRehydrate: the first ApplyDamage; a boss not loaded is rebuilt.
Apply(h) ==
  LET res == DamageScript(cache, player[h], amount[h])
  IN  /\ pc[h] = "apply"
      /\ cache' = res.cache
      /\ applied' = [applied EXCEPT ![h] = res.applied]
      /\ Goto(h, CASE res.status = "applied"   -> "submit"
                   [] res.status = "notloaded" -> "rebuild"
                   [] OTHER                    -> res.status)
      /\ snap' = IF res.status = "notloaded"
                   THEN [snap EXCEPT ![h] = Begun] ELSE snap
      /\ UNCHANGED <<server, seeded, durable, request, reply, writer, healing>>

\* ... and the only retry: a boss not loaded this time is not found.
Reapply(h) ==
  LET res == DamageScript(cache, player[h], amount[h])
  IN  /\ pc[h] = "reapply"
      /\ cache' = res.cache
      /\ applied' = [applied EXCEPT ![h] = res.applied]
      /\ Goto(h, CASE res.status = "applied"   -> "submit"
                   [] res.status = "notloaded" -> "notfound"
                   [] OTHER                    -> res.status)
      /\ UNCHANGED <<server, seeded, durable, request, reply, writer, snap,
                     healing>>

\* The call fails; if the script had run, nobody takes its damage back.
ApplyFails(h) ==
  /\ "redis" \in Faults
  /\ pc[h] \in {"apply", "reapply"}
  /\ cache' \in {cache, DamageScript(cache, player[h], amount[h]).cache}
  /\ Goto(h, "error")
  /\ UNCHANGED <<server, seeded, durable, request, applied, reply, writer,
                 snap, healing>>

\* Submit: the send that never blocks.
Submit(h) ==
  /\ pc[h] = "submit"
  /\ IF Cardinality(queue) < QueueSize
       THEN queue' = queue \cup {h} /\ Goto(h, "wait")
       ELSE Goto(h, "undo_full") /\ UNCHANGED queue
  /\ UNCHANGED <<server, seeded, durable, cache, request, applied, reply,
                 batch, phase, snap, healing>>

\* Mutant: the outcome is not looked at.
Await_IgnoresError(h) ==
  /\ pc[h] = "wait"
  /\ reply[h] # "none"
  /\ Goto(h, "ok")
  /\ UNCHANGED <<server, seeded, durable, cache, request, applied, reply,
                 writer, snap, healing>>

\* Submit: the outcome of the batch arrives on done.
Await(h) ==
  /\ pc[h] = "wait"
  /\ reply[h] # "none"
  /\ Goto(h, IF reply[h] = "nil" THEN "ok" ELSE "undo_failed")
  /\ UNCHANGED <<server, seeded, durable, cache, request, applied, reply,
                 writer, snap, healing>>

\* Mutant: a wait cut short is undone like a refused event.
Cancelled_Undone(h) ==
  /\ "cancel" \in Faults
  /\ pc[h] = "wait"
  /\ Goto(h, "undo_full")
  /\ UNCHANGED <<server, seeded, durable, cache, request, applied, reply,
                 writer, snap, healing>>

\* Submit gives up with ctx.Err(): the event may yet commit, so nothing is
\* undone and reconcileFailedWrite schedules a rebuild.
Cancelled(h) ==
  /\ "cancel" \in Faults
  /\ pc[h] = "wait"
  /\ Goto(h, "cancelled")
  /\ Enqueue
  /\ UNCHANGED <<server, seeded, durable, cache, request, applied, reply,
                 writer, snap>>

Undoing(h) == pc[h] \in {"undo_full", "undo_failed"}

Undone(h) == CompensateScript(cache, player[h], applied[h])

Refused(h) == IF pc[h] = "undo_full" THEN "overloaded" ELSE "failed"

\* reconcileFailedWrite: take back a hit that was not stored.
Undo(h) ==
  /\ Undoing(h)
  /\ cache' = Undone(h)
  /\ Goto(h, Refused(h))
  /\ UNCHANGED <<server, seeded, durable, request, applied, reply, writer,
                 snap, healing>>

\* ... the call fails, its script run or not: schedule a rebuild.
UndoFails(h) ==
  /\ "undo" \in Faults
  /\ Undoing(h)
  /\ cache' \in {cache, Undone(h)}
  /\ Goto(h, Refused(h))
  /\ Enqueue
  /\ UNCHANGED <<server, seeded, durable, request, applied, reply, writer, snap>>

(***************************************************************************)
(* RehydrateBoss, run by r: two SELECTs, each with a snapshot of its own,  *)
(* then the overwrite.                                                     *)
(***************************************************************************)
Start(r) == snap' = [snap EXCEPT ![r] = Begun]

Stop(r) == snap' = [snap EXCEPT ![r] = NoSnap]

\* A handler goes on with step, the startup begins to serve; the reconciler
\* and a GET are done.
Resume(r, step) ==
  /\ pc' = IF r \in Hits THEN [pc EXCEPT ![r] = step] ELSE pc
  /\ server' = IF r = Boot THEN "up" ELSE server

\* RecoveryState; no row means no such boss.
ReadState(r) ==
  /\ snap[r].step = "state"
  /\ IF seeded
       THEN /\ snap' = [snap EXCEPT ![r] =
                          [step |-> "contribs", hp |-> RecoveryHP(ledger),
                           state |-> ledger.state, contribs |-> NoDamage]]
            /\ UNCHANGED <<pc, server>>
       ELSE Stop(r) /\ Resume(r, "notfound")
  /\ UNCHANGED <<seeded, durable, cache, request, applied, reply, writer,
                 healing>>

\* Contributions.
ReadContribs(r) ==
  /\ snap[r].step = "contribs"
  /\ snap' = [snap EXCEPT ![r].step = "write", ![r].contribs = ledger.contrib]
  /\ UNCHANGED <<server, seeded, durable, cache, request, handler, reply,
                 writer, healing>>

Fetched(r) == Rehydrate(snap[r].hp, snap[r].state, snap[r].contribs)

\* Rehydrate, one MULTI/EXEC.
WriteCache(r) ==
  /\ snap[r].step = "write"
  /\ cache' = Fetched(r)
  /\ Stop(r)
  /\ Resume(r, "reapply")
  /\ UNCHANGED <<seeded, durable, request, applied, reply, writer, healing>>

\* One of the three calls fails; the write may have happened.  (A startup
\* that fails exits: Crash.)
RebuildFails(r) ==
  /\ "rebuild" \in Faults
  /\ r # Boot
  /\ snap[r].step # "idle"
  /\ \/ UNCHANGED cache
     \/ snap[r].step = "write" /\ cache' = Fetched(r)
  /\ Stop(r)
  /\ Resume(r, "error")
  /\ UNCHANGED <<seeded, durable, request, applied, reply, writer, healing>>

\* Get on a boss that is not loaded.
Get(g) ==
  /\ server = "up"
  /\ ~ cache.loaded
  /\ snap[g].step = "idle"
  /\ Start(g)
  /\ UNCHANGED <<server, seeded, durable, cache, request, handler, reply,
                 writer, healing>>

(***************************************************************************)
(* Reconciler.worker.                                                      *)
(***************************************************************************)
TakeReconcile(k) ==
  /\ backlog
  /\ k \notin asleep
  /\ snap[k].step = "idle"
  /\ backlog' = FALSE
  /\ asleep' = asleep \cup {k}
  /\ UNCHANGED <<server, seeded, durable, cache, request, handler, reply,
                 writer, snap, queued>>

\* The delay is over: free the slot, then rebuild.
Settle(k) ==
  /\ k \in asleep
  /\ asleep' = asleep \ {k}
  /\ queued' = FALSE
  /\ Start(k)
  /\ UNCHANGED <<server, seeded, durable, cache, request, handler, reply,
                 writer, backlog>>

(***************************************************************************)
(* Writer.loop and Writer.commit: the committer w.                         *)
(***************************************************************************)
Receive(w) ==
  /\ phase[w] = "collect"
  /\ \E h \in queue :
       /\ queue' = queue \ {h}
       /\ batch' = [batch EXCEPT ![w] = @ \cup {h}]
  /\ phase' = [phase EXCEPT ![w] =
                 IF Cardinality(batch[w]) + 1 >= MaxBatch THEN "commit" ELSE @]
  /\ UNCHANGED <<server, seeded, durable, cache, request, handler, reply, snap,
                 healing>>

\* The timer fires on the batch.
Flush(w) ==
  /\ phase[w] = "collect"
  /\ batch[w] # {}
  /\ phase' = [phase EXCEPT ![w] = "commit"]
  /\ UNCHANGED <<server, seeded, durable, cache, request, handler, reply,
                 queue, batch, snap, healing>>

Store(B) ==
  /\ ledger' = CommitBatch(ledger, B, player, applied)
  /\ events' = events \cup B

CommitOK(w) ==
  /\ phase[w] = "commit"
  /\ Store(batch[w])
  /\ phase' = [phase EXCEPT ![w] = "nil"]
  /\ UNCHANGED <<server, seeded, limbo, cache, request, handler, reply, queue,
                 batch, snap, healing>>

\* Mutant: a batch written statement by statement, without a transaction.
CommitFails_NotRolledBack(w) ==
  /\ "commit" \in Faults
  /\ phase[w] = "commit"
  /\ Store(batch[w])
  /\ phase' = [phase EXCEPT ![w] = "failed"]
  /\ UNCHANGED <<server, seeded, limbo, cache, request, handler, reply, queue,
                 batch, snap, healing>>

CommitFails(w) ==
  /\ "commit" \in Faults
  /\ phase[w] = "commit"
  /\ phase' = [phase EXCEPT ![w] = "failed"]
  /\ UNCHANGED <<server, seeded, durable, cache, request, handler, reply,
                 queue, batch, snap, healing>>

\* TxTimeout or a lost connection hides the answer of COMMIT.
CommitUnknown(w) ==
  /\ "ambiguous" \in Faults
  /\ phase[w] = "commit"
  /\ limbo' = limbo \cup {batch[w]}
  /\ phase' = [phase EXCEPT ![w] = "failed"]
  /\ UNCHANGED <<server, seeded, ledger, events, cache, request, handler, reply,
                 queue, batch, snap, healing>>

LateCommit(B) ==
  /\ Store(B)
  /\ limbo' = limbo \ {B}
  /\ UNCHANGED <<server, seeded, cache, request, handler, reply, writer, snap,
                 healing>>

LateAbort(B) ==
  /\ limbo' = limbo \ {B}
  /\ UNCHANGED <<server, seeded, ledger, events, cache, request, handler, reply,
                 writer, snap, healing>>

\* Mutants: the batch is not reset; only a success is released.
Release_KeepsBatch(w) ==
  /\ phase[w] \in {"nil", "failed"}
  /\ reply' = [h \in Hits |-> IF h \in batch[w] THEN phase[w] ELSE reply[h]]
  /\ phase' = [phase EXCEPT ![w] = "collect"]
  /\ UNCHANGED <<server, seeded, durable, cache, request, handler, queue,
                 batch, snap, healing>>

Release_OnSuccess(w) ==
  /\ phase[w] \in {"nil", "failed"}
  /\ reply' = [h \in Hits |->
                 IF h \in batch[w] /\ phase[w] = "nil" THEN "nil" ELSE reply[h]]
  /\ batch' = [batch EXCEPT ![w] = {}]
  /\ phase' = [phase EXCEPT ![w] = "collect"]
  /\ UNCHANGED <<server, seeded, durable, cache, request, handler, queue, snap,
                 healing>>

\* The deferred release: every waiter gets the outcome.  The channels done
\* hold one value, so the sends never block and need no steps of their own.
Release(w) ==
  /\ phase[w] \in {"nil", "failed"}
  /\ reply' = [h \in Hits |-> IF h \in batch[w] THEN phase[w] ELSE reply[h]]
  /\ batch' = [batch EXCEPT ![w] = {}]
  /\ phase' = [phase EXCEPT ![w] = "collect"]
  /\ UNCHANGED <<server, seeded, durable, cache, request, handler, queue, snap,
                 healing>>

(***************************************************************************)
(* The environment.                                                        *)
(***************************************************************************)
Expire ==
  /\ "expire" \in Faults
  /\ cache.loaded
  /\ cache' = Cold
  /\ UNCHANGED <<server, seeded, durable, request, handler, reply, writer, snap,
                 healing>>

Seed ==
  /\ ~ seeded
  /\ seeded' = TRUE
  /\ UNCHANGED <<server, durable, cache, request, handler, reply, writer, snap,
                 healing>>

\* The goroutines and the channels are gone; a transaction that was sent may
\* still commit.
Crash ==
  /\ "crash" \in Faults
  /\ server # "down"
  /\ server' = "down"
  /\ limbo' = limbo \cup {batch[w] : w \in {x \in Committers : phase[x] = "commit"}}
  /\ pc' = [h \in Hits |-> IF pc[h] \in Answers \cup {"idle"} THEN pc[h] ELSE "lost"]
  /\ reply' = [h \in Hits |-> "none"]
  /\ queue' = {}
  /\ batch' = [w \in Committers |-> {}]
  /\ phase' = [w \in Committers |-> "collect"]
  /\ snap' = [r \in Rebuilders |-> NoSnap]
  /\ queued' = FALSE
  /\ backlog' = FALSE
  /\ asleep' = {}
  /\ UNCHANGED <<seeded, ledger, events, cache, request, applied>>

Restart ==
  /\ server = "down"
  /\ server' = "starting"
  /\ Start(Boot)
  /\ UNCHANGED <<seeded, durable, cache, request, handler, reply, writer,
                 healing>>

(***************************************************************************)
(* Every request answered, nothing left to do.                             *)
(***************************************************************************)
Quiet ==
  /\ server = "up"
  /\ \A h \in Hits : pc[h] \in Answers
  /\ queue = {} /\ \A w \in Committers : batch[w] = {}
  /\ limbo = {}
  /\ \A r \in Rebuilders : snap[r].step = "idle"
  /\ ~ queued

Idle == Quiet /\ UNCHANGED vars

Handle(h) == \/ Arrive(h) \/ Apply(h) \/ Reapply(h) \/ ApplyFails(h)
             \/ Submit(h) \/ Await(h) \/ Cancelled(h) \/ Undo(h) \/ UndoFails(h)

Rebuild(r) == ReadState(r) \/ ReadContribs(r) \/ WriteCache(r) \/ RebuildFails(r)

Commit(w) == \/ Receive(w) \/ Flush(w) \/ CommitOK(w) \/ CommitFails(w)
             \/ CommitUnknown(w) \/ Release(w)

Heal(k) == TakeReconcile(k) \/ Settle(k)

Environment == \/ Expire \/ Seed \/ Crash \/ Restart
               \/ \E B \in limbo : LateCommit(B) \/ LateAbort(B)

Next ==
  \/ \E h \in Hits : Handle(h)
  \/ \E r \in Rebuilders : Rebuild(r)
  \/ \E g \in Getters : Get(g)
  \/ \E w \in Committers : Commit(w)
  \/ \E k \in Workers : Heal(k)
  \/ Environment
  \/ Idle

Spec == Init /\ [][Next]_vars

(***************************************************************************)
(* Scheduling.  Every goroutine that can move does: handlers, committers,  *)
(* rebuilds and workers make no unbounded wait of their own (each store    *)
(* call has a timeout, the flush timer and the settle delay run out).  No  *)
(* request and no fault is ever owed, the 10 s timeout included, nor the   *)
(* restart of a dead process; an abandoned transaction ends one way or the *)
(* other.                                                                  *)
(***************************************************************************)
Fairness ==
  /\ \A h \in Hits :
       WF_vars(Apply(h) \/ Reapply(h) \/ Submit(h) \/ Await(h) \/ Undo(h))
  /\ \A r \in Rebuilders : WF_vars(ReadState(r) \/ ReadContribs(r) \/ WriteCache(r))
  /\ \A w \in Committers :
       WF_vars(Receive(w) \/ Flush(w) \/ CommitOK(w) \/ Release(w))
  /\ \A k \in Workers : WF_vars(Heal(k))
  /\ WF_vars(\E B \in limbo : LateCommit(B) \/ LateAbort(B))

FairSpec == Spec /\ Fairness

(***************************************************************************)
(* What a 200 promises: the hit is in the audit log.  It is answered only  *)
(* after the batch committed, whatever fails or dies in between (Submit,   *)
(* commit; "no false ack").                                                *)
(***************************************************************************)
AckedIsDurable == \A h \in Hits : pc[h] = "ok" => h \in events

\* The hits the writer still has, or that a lost transaction may store.
Submitted ==
  queue \cup (UNION {batch[w] : w \in Committers}) \cup (UNION limbo)

(***************************************************************************)
(* What a 503 promises: the hit is not stored and never will be, so the    *)
(* client may retry (Submit's default branch).                             *)
(***************************************************************************)
OverloadedIsNotStored ==
  \A h \in Hits : pc[h] = "overloaded" => h \notin events \cup Submitted

(***************************************************************************)
(* ErrCommitFailed: "the event did not persist and won't be retried, so    *)
(* the caller may safely compensate" (store.go).                           *)
(***************************************************************************)
FailedIsNotStored ==
  \A h \in Hits : pc[h] \in {"undo_failed", "failed"} => h \notin events

(***************************************************************************)
(* The three tables tell one story: contributions is the audit log grouped *)
(* by player, current_hp is what RecoveryState derives, and the state is   *)
(* 'defeated' exactly at 0, although the batches of several committers,    *)
(* of dead processes and of lost connections are applied in any order.     *)
(***************************************************************************)
LedgerConsistent ==
  /\ ledger.contrib = TotalBy(applied, player, events, Players)
  /\ LedgerAgrees(ledger)

(***************************************************************************)
(* No hit is stored twice or in two places at once: the channel, the       *)
(* batches being collected or committed, the abandoned transactions and    *)
(* the audit log share none.                                               *)
(***************************************************************************)
OneHome ==
  /\ queue \cap events = {}
  /\ (UNION limbo) \cap (events \cup queue) = {}
  /\ \A B, C \in limbo : B # C => B \cap C = {}
  /\ \A w \in Committers :
       /\ batch[w] \cap queue = {}
       /\ phase[w] \in {"collect", "commit"} =>
            batch[w] \cap (events \cup (UNION limbo)) = {}
       /\ \A x \in Committers \ {w} : batch[w] \cap batch[x] = {}

(***************************************************************************)
(* The cached state agrees with the cached HP after any mix of hits,       *)
(* undos, rebuilds and losses (the scripts set it, Rehydrate copies it).   *)
(***************************************************************************)
CacheSane == CacheAgrees(cache)

(***************************************************************************)
(* The ledger only grows: no event is lost, no total shrinks, and a boss   *)
(* once defeated stays so and deserves its claims (CommitBatch).           *)
(***************************************************************************)
DurableGrows ==
  [][ /\ events \subseteq events'
      /\ \A p \in Players : ledger.contrib[p] <= ledger'.contrib[p]
      /\ ledger'.hp <= ledger.hp
      /\ ledger.state = "defeated" => ledger'.state = "defeated" ]_vars

\* The hits in the cache that are neither stored nor taken back yet.
InFlight ==
  {h \in Hits : /\ pc[h] \in {"submit", "wait", "undo_full", "undo_failed"}
                /\ h \notin events}

(***************************************************************************)
(* Redis and Postgres differ by the hits in flight and by nothing else: in *)
(* HP and in every player's score.  (Faults \subseteq {"commit"}.)         *)
(***************************************************************************)
Conservation ==
  cache.loaded =>
    /\ cache.hp + TotalDamage(ledger) + Total(applied, InFlight) = MaxHP
    /\ \A p \in Players :
         cache.lb[p] = ledger.contrib[p]
                         + Total(applied, {h \in InFlight : player[h] = p})

(***************************************************************************)
(* "Crediting min(hp, damage) means total applied damage equals exactly    *)
(* max_hp once defeated, so contribution percentages total 100%"           *)
(* (ARCHITECT.md).                                                         *)
(***************************************************************************)
ExactKill ==
  /\ TotalDamage(ledger) <= MaxHP
  /\ ledger.state = "defeated" => TotalDamage(ledger) = MaxHP

(***************************************************************************)
(* reconcileFailedWrite "keeps the cache consistent after a durable write  *)
(* fails": the boss never shows more HP than it has.                       *)
(***************************************************************************)
CacheWithinMax == cache.hp <= MaxHP

(***************************************************************************)
(* Every request that arrives is answered: no waiter hangs on a failed     *)
(* batch, on a full queue or on a cold cache.                              *)
(***************************************************************************)
EveryHitAnswered == \A h \in Hits : pc[h] # "idle" ~> pc[h] \in Answers

(***************************************************************************)
(* A boss that is dead in Redis but alive in Postgres (its kill was never  *)
(* stored) would refuse every hit; the undo or the reconciler revives it.  *)
(***************************************************************************)
Zombie == cache.loaded /\ cache.state = "defeated" /\ ledger.state = "alive"

ZombieHeals == Zombie ~> ~ Zombie
=============================================================================
