----------------------------- MODULE CacheKeys -----------------------------
(***************************************************************************)
(* The cache of one boss key by key (internal/store/redis.go): each of its *)
(* four keys has a time to live of its own, the scripts get the TTL in     *)
(* whole seconds, Rehydrate uses it as it is, and GetBossView reads the    *)
(* keys one after another while others write.                              *)
(*                                                                         *)
(* BossStore and DamageService take the keys for one thing that is there   *)
(* or not; OneBoss says when they may.  The writer is left out: a hit that *)
(* landed is stored or undone at any later time, or never.                 *)
(*                                                                         *)
(* Time passes in ticks (Tick), Second of them to the second.              *)
(***************************************************************************)
EXTENDS BossStore

CONSTANTS Hits,      \* the POST /damage requests
          Gets,      \* the GET /boss/{id} requests that may run at once
          TTLs,      \* values of config.RedisCacheTTL, in ticks; 0: none
          Second,
          Deadline   \* the router's timeout of a request, in ticks

ASSUME KeysAssumption ==
  /\ Players # {}
  /\ IsFiniteSet(Hits)
  /\ Hits \cap Gets = {}
  /\ TTLs \subseteq Nat
  /\ Second \in Nat \ {0}
  /\ Deadline \in Nat \ {0}

Requests == Hits \cup Gets

VARIABLES
  ttl,      \* RedisStore.ttl
  hp, maxhp, state, lb,   \* the keys of the boss
  ledger,   \* the boss in Postgres
  req,      \* where each request is, the ticks until its context is over, and
            \* whether it has rebuilt the boss already
  snap,     \* what its rebuild has read
  seen,     \* what the view of a GET has read
  player,   \* the player of a hit that landed, and its points
  applied

keys == <<hp, maxhp, state, lb>>
found == <<snap, seen>>
hits == <<player, applied>>
vars == <<ttl, keys, ledger, req, found, hits>>

(***************************************************************************)
(* A key: its value, and the ticks it has to live (0: for ever).  A key    *)
(* that is missing reads as its default: GetBossView's 0, "alive", empty.  *)
(***************************************************************************)
Missing(default) == [there |-> FALSE, val |-> default, life |-> 0]

Set(val, life) == [there |-> TRUE, val |-> val, life |-> life]

Expire(key, life) == IF key.there THEN [key EXCEPT !.life = life] ELSE key

\* A ZSET without members is no key; ZINCRBY and ZREM keep the key's life.
Scores(val, life) == IF val = NoDamage THEN Missing(NoDamage) ELSE Set(val, life)

Aged(key, default) ==
  IF key.life = 0 THEN key
  ELSE IF key.life = 1 THEN Missing(default)
  ELSE [key EXCEPT !.life = @ - 1]

\* int64(r.ttl / time.Second), in ticks.
ttlArg == Second * (ttl \div Second)

\* What the client makes of EXPIRE with r.ttl: whole seconds, but at least one.
expireArg == IF ttl \in 1 .. Second - 1 THEN Second ELSE ttlArg

\* EXPIRE of the scripts, which they skip when the TTL is 0.
Renewed(key) == IF ttlArg > 0 THEN Expire(key, ttlArg) ELSE key

\* The values the keys have, as one boss.
cacheOf == IF hp.there
             THEN [loaded |-> TRUE, hp |-> hp.val, state |-> state.val, lb |-> lb.val]
             ELSE Cold

(***************************************************************************)
(* The statements of Redis.  A script or MULTI/EXEC is one step.           *)
(***************************************************************************)
\* Mutant: SET without EX, which also clears the TTL the key had.
HitKeys_Persist(p, d) ==
  LET new == Hurt(cacheOf, p, d)
  IN  /\ hp' = Set(new.hp, 0)
      /\ lb' = Renewed(Scores(new.lb, lb.life))
      /\ state' = IF new.hp <= 0 THEN Set("defeated", ttlArg) ELSE Renewed(state)

\* Mutant: the EXPIRE of the leaderboard is forgotten.
HitKeys_KeepsBoard(p, d) ==
  LET new == Hurt(cacheOf, p, d)
  IN  /\ hp' = Set(new.hp, ttlArg)
      /\ lb' = Scores(new.lb, lb.life)
      /\ state' = IF new.hp <= 0 THEN Set("defeated", ttlArg) ELSE Renewed(state)

\* The writes of damageScript when d points land: SET drops a TTL it is given none for.
HitKeys(p, d) ==
  LET new == Hurt(cacheOf, p, d)
  IN  /\ hp' = Set(new.hp, ttlArg)
      /\ lb' = Renewed(Scores(new.lb, lb.life))
      /\ state' = IF new.hp <= 0 THEN Set("defeated", ttlArg) ELSE Renewed(state)

\* compensateScript on a boss whose hp is there.
UndoKeys(p, d) ==
  LET new == CompensateScript(cacheOf, p, d)
  IN  /\ hp' = Set(new.hp, ttlArg)
      /\ lb' = Renewed(Scores(new.lb, lb.life))
      /\ state' = IF new.hp > 0 THEN Set("alive", ttlArg) ELSE Renewed(state)

\* Mutants of Rehydrate: max_hp expires with the rest; a number of seconds is
\* passed where a time.Duration is expected.
RehydrateKeys_MaxExpires(s) ==
  /\ hp' = Set(s.hp, ttl)
  /\ maxhp' = Set(MaxHP, ttl)
  /\ state' = Set(s.state, ttl)
  /\ lb' = Scores(s.contrib, expireArg)

RehydrateKeys_Nanoseconds(s) ==
  /\ hp' = Set(s.hp, 1)
  /\ maxhp' = Set(MaxHP, 0)
  /\ state' = Set(s.state, 1)
  /\ lb' = Scores(s.contrib, expireArg)

RehydrateKeys(s) ==
  /\ hp' = Set(s.hp, ttl)
  /\ maxhp' = Set(MaxHP, 0)
  /\ state' = Set(s.state, ttl)
  /\ lb' = Scores(s.contrib, expireArg)

(***************************************************************************)
(* A request.  Any call may fail, the last one when the context is over;   *)
(* a request that fails is answered 500.  One that is over and has left    *)
(* nothing behind ("idle") gives its place to another.                     *)
(***************************************************************************)
Idle   == [at |-> "idle", left |-> 0, tried |-> FALSE]
NoSnap == [hp |-> 0, state |-> "alive", contrib |-> NoDamage]

NoView == [hp |-> 0, max |-> 0, state |-> "alive"]

Working == {"apply", "view", "viewmax", "viewstate", "readstate", "readcontribs", "write"}

Active(r) == req[r].at \in Working

\* Where a request begins, and where it goes on after its rebuild.
Entry(r) == IF r \in Hits THEN "apply" ELSE "view"

\* The cache is cold: the service is starting, or the boss has just been seeded.
Init ==
  /\ ttl \in TTLs
  /\ hp = Missing(0) /\ maxhp = Missing(0)
  /\ state = Missing("alive") /\ lb = Missing(NoDamage)
  /\ ledger = Untouched
  /\ req = [r \in Requests |-> Idle]
  /\ snap = [r \in Requests |-> NoSnap]
  /\ seen = [r \in Requests |-> NoView]
  /\ player = [r \in Hits |-> CHOOSE p \in Players : TRUE]
  /\ applied = [r \in Hits |-> 0]

Goto(r, step) ==
  req' = [req EXCEPT ![r] = IF step \in Working THEN [@ EXCEPT !.at = step]
                                                ELSE [Idle EXCEPT !.at = step]]

Arrive(r) ==
  /\ req[r].at \in {"idle", "shown"}
  /\ req' = [req EXCEPT ![r] = [at |-> Entry(r), left |-> Deadline, tried |-> FALSE]]
  /\ seen' = [seen EXCEPT ![r] = NoView]
  /\ UNCHANGED <<ttl, keys, ledger, snap, hits>>

Fail(r) ==
  /\ Active(r)
  /\ Goto(r, "idle")
  /\ snap' = [snap EXCEPT ![r] = NoSnap]
  /\ seen' = [seen EXCEPT ![r] = NoView]
  /\ UNCHANGED <<ttl, keys, ledger, hits>>

\* On a miss the boss is rebuilt, once; after that the answer is given.
Miss(r, answer) == Goto(r, IF req[r].tried THEN answer ELSE "readstate")

\* Mutant: a hit on a dead boss renews the keys.
Apply_RenewsDead(r, p, d) ==
  /\ req[r].at = "apply"
  /\ LET reply == DamageScript(cacheOf, p, d)
     IN  CASE reply.status = "notloaded" -> Miss(r, "404") /\ UNCHANGED <<keys, hits>>
           [] reply.status = "defeated" ->
                /\ Goto(r, "idle")
                /\ hp' = Renewed(hp) /\ state' = Renewed(state) /\ lb' = Renewed(lb)
                /\ UNCHANGED <<maxhp, hits>>
           [] OTHER ->
                /\ HitKeys(p, reply.applied)
                /\ player' = [player EXCEPT ![r] = p]
                /\ applied' = [applied EXCEPT ![r] = reply.applied]
                /\ Goto(r, "landed")
                /\ UNCHANGED maxhp
  /\ UNCHANGED <<ttl, ledger, found>>

\* ApplyDamage, in both places of applyWithRehydrate: a refused hit (409)
\* writes nothing, so it renews nothing either.
Apply(r, p, d) ==
  /\ req[r].at = "apply"
  /\ LET reply == DamageScript(cacheOf, p, d)
     IN  CASE reply.status = "notloaded" -> Miss(r, "404") /\ UNCHANGED <<keys, hits>>
           [] reply.status = "defeated"  -> Goto(r, "idle") /\ UNCHANGED <<keys, hits>>
           [] OTHER ->
                /\ HitKeys(p, reply.applied)
                /\ player' = [player EXCEPT ![r] = p]
                /\ applied' = [applied EXCEPT ![r] = reply.applied]
                /\ Goto(r, "landed")
                /\ UNCHANGED maxhp
  /\ UNCHANGED <<ttl, ledger, found>>

\* The script runs and its reply is lost: the client runs it once more, or the
\* request fails.  Nobody knows of these points, to store or to undo them.
Unheard(r, p, d) ==
  /\ req[r].at = "apply"
  /\ LET reply == DamageScript(cacheOf, p, d)
     IN  reply.status = "applied" /\ HitKeys(p, reply.applied)
  /\ UNCHANGED <<ttl, maxhp, ledger, req, found, hits>>

\* RehydrateBoss: two reads of Postgres, one write to Redis.
ReadState(r) ==
  /\ req[r].at = "readstate"
  /\ snap' = [snap EXCEPT ![r].hp = RecoveryHP(ledger), ![r].state = ledger.state]
  /\ Goto(r, "readcontribs")
  /\ UNCHANGED <<ttl, keys, ledger, seen, hits>>

ReadContribs(r) ==
  /\ req[r].at = "readcontribs"
  /\ snap' = [snap EXCEPT ![r].contrib = ledger.contrib]
  /\ Goto(r, "write")
  /\ UNCHANGED <<ttl, keys, ledger, seen, hits>>

WriteCache(r) ==
  /\ req[r].at = "write"
  /\ RehydrateKeys(snap[r])
  /\ snap' = [snap EXCEPT ![r] = NoSnap]
  /\ req' = [req EXCEPT ![r].at = Entry(r), ![r].tried = TRUE]
  /\ UNCHANGED <<ttl, ledger, seen, hits>>

\* Get: GetBossView's pipeline is no transaction.  When hp is missing after its
\* own rebuild, Get answers 200 with a view that nobody has filled in.
ReadHP(r) ==
  /\ req[r].at = "view"
  /\ IF hp.there
       THEN Goto(r, "viewmax") /\ seen' = [seen EXCEPT ![r].hp = hp.val]
       ELSE Miss(r, "blank") /\ UNCHANGED seen
  /\ UNCHANGED <<ttl, keys, ledger, snap, hits>>

ReadMax(r) ==
  /\ req[r].at = "viewmax"
  /\ Goto(r, "viewstate")
  /\ seen' = [seen EXCEPT ![r].max = maxhp.val]
  /\ UNCHANGED <<ttl, keys, ledger, snap, hits>>

\* A missing state is shown as "alive".  What the read of lb finds after that is
\* shown as it is.
ReadStateKey(r) ==
  /\ req[r].at = "viewstate"
  /\ Goto(r, "shown")
  /\ seen' = [seen EXCEPT ![r].state = state.val]
  /\ UNCHANGED <<ttl, keys, ledger, snap, hits>>

(***************************************************************************)
(* A hit that landed is stored with its batch, or undone.                  *)
(***************************************************************************)
Landeds == {r \in Hits : req[r].at = "landed"}

Store(B) ==
  /\ ledger' = CommitBatch(ledger, B, player, applied)
  /\ req' = [r \in Requests |-> IF r \in B THEN Idle ELSE req[r]]
  /\ applied' = [r \in Hits |-> IF r \in B THEN 0 ELSE applied[r]]
  /\ UNCHANGED <<ttl, keys, found, player>>

Undo(r) ==
  /\ r \in Landeds
  /\ IF hp.there THEN UndoKeys(player[r], applied[r]) ELSE UNCHANGED <<hp, state, lb>>
  /\ Goto(r, "idle")
  /\ applied' = [applied EXCEPT ![r] = 0]
  /\ UNCHANGED <<ttl, maxhp, ledger, found, player>>

\* Time does not pass a deadline while its request is still at work.
Tick ==
  /\ \A r \in Requests : Active(r) => req[r].left > 0
  /\ hp' = Aged(hp, 0) /\ maxhp' = Aged(maxhp, 0)
  /\ state' = Aged(state, "alive") /\ lb' = Aged(lb, NoDamage)
  /\ req' = [r \in Requests |-> IF Active(r) THEN [req[r] EXCEPT !.left = @ - 1] ELSE req[r]]
  /\ UNCHANGED <<ttl, ledger, found, hits>>

Step(r) == \/ ReadState(r) \/ ReadContribs(r) \/ WriteCache(r)
           \/ ReadHP(r) \/ ReadMax(r) \/ ReadStateKey(r) \/ Fail(r)
           \/ r \in Hits /\ \E p \in Players, d \in 1 .. MaxHP : Apply(r, p, d)

Next == \/ \E r \in Requests : Arrive(r) \/ Step(r)
        \/ \E r \in Hits : Undo(r) \/ \E p \in Players, d \in 1 .. MaxHP : Unheard(r, p, d)
        \/ \E B \in (SUBSET Landeds) \ {{}} : Store(B)
        \/ Tick

Spec == Init /\ [][Next]_vars

\* Time passes and a request at work goes on; nobody has to arrive, and no hit
\* has to be stored or undone.
FairSpec == Spec /\ WF_vars(Tick) /\ \A r \in Requests : WF_vars(Step(r))

(***************************************************************************)
(* Types.                                                                  *)
(***************************************************************************)
Key(V) == [there : BOOLEAN, val : V, life : Nat]

TypeOK ==
  /\ ttl \in TTLs
  /\ hp \in Key(Nat) /\ maxhp \in Key(Nat)
  /\ state \in Key(BossStates) /\ lb \in Key([Players -> Nat])
  /\ ledger \in Ledger
  /\ req \in [Requests -> [at : Working \cup {"idle", "landed", "404", "blank", "shown"},
                           left : 0 .. Deadline, tried : BOOLEAN]]
  /\ snap \in [Requests -> [hp : Nat, state : BossStates, contrib : [Players -> Nat]]]
  /\ seen \in [Requests -> [hp : Nat, max : Nat, state : BossStates]]
  /\ player \in [Hits -> Players] /\ applied \in [Hits -> Nat]

(***************************************************************************)
(* A TTL of whole seconds (or none) makes the keys one boss: every step of *)
(* the key-level cache is a step of BossCache.  With another TTL the       *)
(* leaderboard lapses before the HP (redis.go: Rehydrate, ttlArg).         *)
(***************************************************************************)
Whole == ttl % Second = 0

OneBoss == INSTANCE BossCache WITH
             cache <- cacheOf,
             Damages <- 1 .. MaxHP,
             reads <- {snap[r] : r \in {x \in Requests : req[x].at = "write"}}

KeysAreOneBoss == OneBoss!Init /\ [][Whole => OneBoss!Next]_cacheOf

(***************************************************************************)
(* The HP and the state of a view are read at different moments, and a     *)
(* missing state is shown as "alive" (GetBossView), so a view can show a   *)
(* boss with 0 HP alive, or one with HP defeated.  But only when the boss  *)
(* has moved on meanwhile: as long as it still has the HP that was read,   *)
(* whatever its TTL is, the state that is read agrees with it.             *)
(***************************************************************************)
ViewAgrees ==
  [][\A r \in Gets :
       req[r].at = "viewstate" /\ req'[r].at = "shown" /\ hp.there /\ hp.val = seen[r].hp
         => (seen'[r].state = "defeated" <=> seen'[r].hp = 0)]_vars

(***************************************************************************)
(* "max_hp stays persistent (no TTL) so an actively-hit boss never reads a *)
(* missing max" (Rehydrate): whatever hits, lapses and rebuilds come       *)
(* between the reads, a view that has HP has the maximum.                  *)
(***************************************************************************)
ViewHasMax == \A r \in Gets : req[r].at \in {"viewstate", "shown"} => seen[r].max = MaxHP

(***************************************************************************)
(* While a request is shorter than the TTL, the boss it has rebuilt cannot *)
(* lapse before it looks again: Get answers no blank view, Damage no 404   *)
(* to a boss that exists (applyWithRehydrate, Get).                        *)
(***************************************************************************)
FoundAfterRebuild ==
  (ttl = 0 \/ ttlArg > Deadline) => \A r \in Requests : req[r].at \notin {"404", "blank"}

(***************************************************************************)
(* The TTL is the backstop (reconcile.go): a boss dead in Redis and alive  *)
(* in Postgres lapses, however often it is hit (409) or looked at, and is  *)
(* then rebuilt from Postgres.  Below a second the backstop is gone.       *)
(***************************************************************************)
Zombie == hp.there /\ hp.val = 0 /\ ledger.state = "alive"

ZombieLapses == (ttl >= Second /\ Zombie) ~> ~ Zombie
=============================================================================
