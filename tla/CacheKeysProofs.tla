-------------------------- MODULE CacheKeysProofs --------------------------
(***************************************************************************)
(* Theorems about CacheKeys, for any number of hits and GETs, any players, *)
(* any max_hp, any TTLs and any deadline.                                  *)
(***************************************************************************)
EXTENDS CacheKeys, BossStoreTheorems

(***************************************************************************)
(* The three ways a TTL reaches the keys.                                  *)
(***************************************************************************)
LEMMA TTLArgs ==
  ASSUME ttl \in TTLs
  PROVE  /\ ttl \in Nat /\ ttlArg \in Nat /\ expireArg \in Nat
         /\ ttlArg <= ttl
         /\ Whole => ttlArg = ttl /\ expireArg = ttl
<1> DEFINE q == ttl \div Second
<1>1. ttl \in Nat /\ Second \in Nat /\ Second > 0
  BY KeysAssumption
<1>2. /\ q \in Int /\ ttl % Second \in 0 .. Second - 1
      /\ ttl = Second * q + (ttl % Second)
  BY <1>1
<1> HIDE DEF q
<1>3. q >= 0
  <2> SUFFICES ASSUME q <= -1 PROVE FALSE
    BY <1>2
  <2>1. Second * q <= Second * (-1) BY <1>1, <1>2
  <2> QED BY <1>1, <1>2, <2>1
<1>4. Second * q \in Nat /\ Second * q <= ttl
  BY <1>1, <1>2, <1>3
<1>5. ttlArg = Second * q BY DEF ttlArg, q
<1>6. expireArg \in Nat BY <1>1, <1>4, <1>5 DEF expireArg
<1>7. ASSUME Whole PROVE ttlArg = ttl /\ expireArg = ttl
  <2>1. ttlArg = ttl BY <1>1, <1>2, <1>4, <1>5, <1>7 DEF Whole
  <2>2. ttl \notin 1 .. Second - 1
    <3>1. CASE q = 0 BY <1>1, <1>5, <2>1, <3>1
    <3>2. CASE q >= 1
      <4>1. Second * q >= Second * 1 BY <1>1, <1>2, <3>2
      <4> QED BY <1>1, <1>5, <2>1, <4>1
    <3> QED BY <1>2, <1>3, <3>1, <3>2
  <2> QED BY <2>1, <2>2 DEF expireArg
<1> QED BY <1>1, <1>4, <1>5, <1>6, <1>7

(***************************************************************************)
(* The keys as one boss, and what each statement makes of it.              *)
(***************************************************************************)
LEMMA CacheType == TypeOK => cacheOf \in Cache
<1>1. Cold \in Cache BY ColdType
<1> QED BY <1>1 DEF TypeOK, cacheOf, Cache, Key, BossStates

\* A hit of which d points land.
Hurts(p, d) == /\ hp.there /\ 0 < d /\ d <= hp.val /\ d <= MaxHP
               /\ HitKeys(p, d) /\ UNCHANGED maxhp

\* The undo of d points.
Heals(p, d) == hp.there /\ 0 < d /\ d <= MaxHP /\ UndoKeys(p, d) /\ UNCHANGED maxhp

KeysTyped ==
  /\ hp \in Key(Nat) /\ maxhp \in Key(Nat)
  /\ state \in Key(BossStates) /\ lb \in Key([Players -> Nat])

LEMMA ScoresType ==
  ASSUME NEW val \in [Players -> Nat], NEW life \in Nat
  PROVE  Scores(val, life) \in Key([Players -> Nat]) /\ Scores(val, life).val = val
BY DEF Scores, Missing, Set, Key, NoDamage

LEMMA RenewedType ==
  ASSUME ttl \in TTLs, NEW V, NEW key \in Key(V)
  PROVE  /\ Renewed(key) \in Key(V)
         /\ Renewed(key).val = key.val /\ Renewed(key).there = key.there
         /\ ttlArg > 0 /\ key.there => Renewed(key).life = ttlArg
         /\ ttlArg = 0 => Renewed(key) = key
         /\ ~ key.there => Renewed(key) = key
BY TTLArgs DEF Renewed, Expire, Key

LEMMA HurtWrites ==
  ASSUME TypeOK, NEW p \in Players, NEW d \in Nat, Hurts(p, d)
  PROVE  /\ KeysTyped' /\ UNCHANGED maxhp
         /\ hp' = Set(hp.val - d, ttlArg)
         /\ cacheOf' = Hurt(cacheOf, p, d)
         /\ state' = IF hp.val = d THEN Set("defeated", ttlArg) ELSE Renewed(state)
         /\ lb' = Renewed(Scores(Hurt(cacheOf, p, d).lb, lb.life))
<1> DEFINE new == Hurt(cacheOf, p, d)
<1>1. cacheOf \in Cache /\ cacheOf = [loaded |-> TRUE, hp |-> hp.val, state |-> state.val, lb |-> lb.val]
  BY CacheType DEF Hurts, cacheOf
<1>2. hp.val \in Nat /\ d <= hp.val /\ lb.life \in Nat /\ state \in Key(BossStates) /\ ttl \in TTLs
  BY DEF Hurts, TypeOK, Key
<1>3. new \in Cache BY <1>1, <1>2, HurtType
<1>4. /\ new.hp = hp.val - d /\ new.loaded
      /\ new.state = IF hp.val - d <= 0 THEN "defeated" ELSE state.val
      /\ new.hp \in Nat /\ new.lb \in [Players -> Nat]
      /\ new = [loaded |-> new.loaded, hp |-> new.hp, state |-> new.state, lb |-> new.lb]
  BY <1>1, <1>2, <1>3 DEF Hurt, Cache
<1> HIDE DEF new
<1>5. /\ hp' = Set(new.hp, ttlArg) /\ lb' = Renewed(Scores(new.lb, lb.life))
      /\ state' = IF new.hp <= 0 THEN Set("defeated", ttlArg) ELSE Renewed(state)
      /\ maxhp' = maxhp
  BY DEF Hurts, HitKeys, new
<1>6. ttlArg \in Nat BY <1>2, TTLArgs
<1>7. lb' \in Key([Players -> Nat]) /\ lb'.val = new.lb
  BY <1>2, <1>4, <1>5, ScoresType, RenewedType
<1>8. /\ state' \in Key(BossStates)
      /\ state'.val = new.state
      /\ state' = IF hp.val = d THEN Set("defeated", ttlArg) ELSE Renewed(state)
  <2>1. Renewed(state) \in Key(BossStates) /\ Renewed(state).val = state.val
    BY <1>2, RenewedType
  <2> QED BY <1>2, <1>4, <1>5, <1>6, <2>1 DEF Set, Key, BossStates
<1>9. hp' \in Key(Nat) /\ hp'.there /\ hp'.val = new.hp /\ maxhp' \in Key(Nat)
  BY <1>4, <1>5, <1>6 DEF Set, Key, TypeOK
<1>10. cacheOf' = new
  BY <1>4, <1>7, <1>8, <1>9 DEF cacheOf
<1> QED BY <1>4, <1>5, <1>7, <1>8, <1>9, <1>10 DEF KeysTyped, new

LEMMA HealedIs ==
  ASSUME NEW c \in Cache, c.loaded, NEW p \in Players, NEW d \in Nat, d > 0
  PROVE  LET new == CompensateScript(c, p, d)
         IN  /\ new.hp = c.hp + d /\ new.loaded = TRUE /\ new.state = "alive"
             /\ new.hp \in Nat /\ new.lb \in [Players -> Nat]
             /\ new = [loaded |-> TRUE, hp |-> new.hp, state |-> "alive", lb |-> new.lb]
<1> DEFINE less == [c.lb EXCEPT ![p] = IF @ > d THEN @ - d ELSE 0]
<1>1. c.hp \in Nat /\ ~ (d <= 0) /\ c.hp + d > 0 /\ c.hp + d \in Nat BY DEF Cache
<1>2. less \in [Players -> Nat] BY DEF Cache
<1>3. CompensateScript(c, p, d) = [loaded |-> TRUE, hp |-> c.hp + d, state |-> "alive", lb |-> less]
  BY <1>1 DEF CompensateScript
<1> HIDE DEF less
<1> QED BY <1>1, <1>2, <1>3

LEMMA HealWrites ==
  ASSUME TypeOK, NEW p \in Players, NEW d \in Nat, Heals(p, d)
  PROVE  /\ KeysTyped' /\ UNCHANGED maxhp
         /\ hp' = Set(hp.val + d, ttlArg)
         /\ cacheOf' = CompensateScript(cacheOf, p, d)
         /\ state' = Set("alive", ttlArg)
         /\ \E val \in [Players -> Nat] : lb' = Renewed(Scores(val, lb.life))
<1> DEFINE new == CompensateScript(cacheOf, p, d)
<1>1. cacheOf \in Cache /\ cacheOf = [loaded |-> TRUE, hp |-> hp.val, state |-> state.val, lb |-> lb.val]
  BY CacheType DEF Heals, cacheOf
<1>2. hp.val \in Nat /\ d > 0 /\ lb.life \in Nat /\ ttl \in TTLs
  BY DEF Heals, TypeOK, Key
<1>3. new \in Cache BY <1>1, <1>2, CompensateType
<1>4. /\ new.hp = hp.val + d /\ new.loaded = TRUE /\ new.state = "alive"
      /\ new.hp \in Nat /\ new.lb \in [Players -> Nat]
      /\ new = [loaded |-> TRUE, hp |-> new.hp, state |-> "alive", lb |-> new.lb]
  BY <1>1, <1>2, <1>3, HealedIs
<1> HIDE DEF new
<1>5. /\ hp' = Set(new.hp, ttlArg) /\ lb' = Renewed(Scores(new.lb, lb.life))
      /\ state' = IF new.hp > 0 THEN Set("alive", ttlArg) ELSE Renewed(state)
      /\ maxhp' = maxhp
  BY DEF Heals, UndoKeys, new
<1>6. ttlArg \in Nat BY <1>2, TTLArgs
<1>7. lb' \in Key([Players -> Nat]) /\ lb'.val = new.lb
  BY <1>2, <1>4, <1>5, ScoresType, RenewedType
<1>8. state' = Set("alive", ttlArg) BY <1>2, <1>4, <1>5
<1>9. /\ hp' \in Key(Nat) /\ hp'.there /\ hp'.val = new.hp /\ maxhp' \in Key(Nat)
      /\ state' \in Key(BossStates) /\ state'.val = "alive"
  <2>1. maxhp \in Key(Nat) BY DEF TypeOK
  <2>2. hp' \in Key(Nat) /\ hp'.there /\ hp'.val = new.hp BY <1>4, <1>5, <1>6 DEF Set, Key
  <2>3. state' \in Key(BossStates) /\ state'.val = "alive"
    BY <1>6, <1>8 DEF Set, Key, BossStates
  <2> QED BY <1>5, <2>1, <2>2, <2>3
<1>10. cacheOf' = new
  BY <1>4, <1>7, <1>9 DEF cacheOf
<1> QED BY <1>4, <1>5, <1>7, <1>8, <1>9, <1>10 DEF KeysTyped, new

LEMMA RebuildWrites ==
  ASSUME TypeOK, NEW r \in Requests, RehydrateKeys(snap[r])
  PROVE  /\ KeysTyped'
         /\ cacheOf' = Rehydrate(snap[r].hp, snap[r].state, snap[r].contrib)
         /\ hp' = Set(snap[r].hp, ttl) /\ maxhp' = Set(MaxHP, 0)
         /\ state' = Set(snap[r].state, ttl) /\ lb' = Scores(snap[r].contrib, expireArg)
<1> DEFINE s == snap[r]
<1>1. s.hp \in Nat /\ s.state \in BossStates /\ s.contrib \in [Players -> Nat] /\ ttl \in TTLs
  BY DEF TypeOK
<1> HIDE DEF s
<1>2. ttl \in Nat /\ expireArg \in Nat BY <1>1, TTLArgs
<1>3. /\ hp' = Set(s.hp, ttl) /\ maxhp' = Set(MaxHP, 0)
      /\ state' = Set(s.state, ttl) /\ lb' = Scores(s.contrib, expireArg)
  BY DEF RehydrateKeys, s
<1>4. lb' \in Key([Players -> Nat]) /\ lb'.val = s.contrib
  BY <1>1, <1>2, <1>3, ScoresType
<1>5. /\ hp' \in Key(Nat) /\ hp'.there = TRUE /\ hp'.val = s.hp /\ maxhp' \in Key(Nat)
      /\ state' \in Key(BossStates) /\ state'.val = s.state
  BY <1>1, <1>2, <1>3, StoreAssumption DEF Set, Key
<1>6. cacheOf' = Rehydrate(s.hp, s.state, s.contrib)
  BY <1>4, <1>5 DEF cacheOf, Rehydrate
<1> QED BY <1>3, <1>4, <1>5, <1>6 DEF KeysTyped, s

Ages == /\ hp' = Aged(hp, 0) /\ maxhp' = Aged(maxhp, 0)
        /\ state' = Aged(state, "alive") /\ lb' = Aged(lb, NoDamage)

LEMMA AgedType ==
  ASSUME NEW V, NEW key \in Key(V), NEW default \in V
  PROVE  /\ Aged(key, default) \in Key(V)
         /\ key.life = 0 => Aged(key, default) = key
         /\ key.life = 1 => Aged(key, default) = Missing(default)
         /\ key.life > 1 => /\ Aged(key, default).there = key.there
                            /\ Aged(key, default).val = key.val
                            /\ Aged(key, default).life = key.life - 1
<1>1. key.life \in Nat BY DEF Key
<1>2. CASE key.life = 0 BY <1>2 DEF Aged
<1>3. CASE key.life = 1
  <2>1. Aged(key, default) = Missing(default) BY <1>3 DEF Aged
  <2>2. Missing(default) \in Key(V) BY DEF Missing, Key
  <2> QED BY <1>3, <2>1, <2>2
<1>4. CASE key.life > 1
  <2>1. Aged(key, default) = [key EXCEPT !.life = @ - 1] BY <1>1, <1>4 DEF Aged
  <2> QED BY <1>1, <1>4, <2>1 DEF Key
<1> QED BY <1>1, <1>2, <1>3, <1>4

LEMMA AgesType == ASSUME TypeOK, Ages PROVE KeysTyped'
<1>1. NoDamage \in [Players -> Nat] /\ "alive" \in BossStates /\ 0 \in Nat
  BY DEF NoDamage, BossStates
<1> QED BY <1>1, AgedType DEF Ages, TypeOK, KeysTyped

(***************************************************************************)
(* What a step may do to the keys: nothing, or one of the four statements. *)
(***************************************************************************)
\* A hit that landed has landed something, but no more than it asked for.
Landing == \A r \in Hits : req[r].at = "landed" => 0 < applied[r] /\ applied[r] <= MaxHP

LEMMA AppliedIs ==
  ASSUME TypeOK, NEW p \in Players, NEW a \in 1 .. MaxHP,
         DamageScript(cacheOf, p, a).status = "applied",
         NEW d, d = DamageScript(cacheOf, p, a).applied
  PROVE  /\ d \in Nat /\ 0 < d /\ d <= hp.val /\ d <= MaxHP /\ hp.there
         /\ DamageScript(cacheOf, p, a).cache = Hurt(cacheOf, p, d)
<1>1. cacheOf \in Cache BY CacheType
<1>2. cacheOf.hp \in Nat /\ a \in Nat /\ a > 0 BY <1>1, StoreAssumption DEF Cache
<1>3. cacheOf.loaded /\ cacheOf.hp > 0 BY <1>2 DEF DamageScript
<1>4. hp.there /\ cacheOf.hp = hp.val BY <1>3 DEF cacheOf, Cold
<1>5. DamageScript(cacheOf, p, a) = [status |-> "applied", applied |-> Landed(cacheOf, a),
                                     cache |-> Hurt(cacheOf, p, Landed(cacheOf, a))]
  BY <1>2, <1>3 DEF DamageScript
<1>6. Landed(cacheOf, a) \in Nat /\ 0 < Landed(cacheOf, a) /\ Landed(cacheOf, a) <= cacheOf.hp
      /\ Landed(cacheOf, a) <= MaxHP
  BY <1>2, StoreAssumption, <1>3 DEF Landed
<1> QED BY <1>4, <1>5, <1>6

LEMMA ApplyDoes ==
  ASSUME TypeOK, NEW r \in Hits, NEW p \in Players, NEW a \in 1 .. MaxHP, Apply(r, p, a)
  PROVE  /\ req[r].at = "apply" /\ UNCHANGED <<ttl, ledger, snap, seen>>
         /\ \/ \E d \in Nat : /\ Hurts(p, d) /\ Goto(r, "landed")
                              /\ player' = [player EXCEPT ![r] = p]
                              /\ applied' = [applied EXCEPT ![r] = d]
            \/ Goto(r, "idle") /\ UNCHANGED <<keys, hits>>
            \/ ~ hp.there /\ Miss(r, "404") /\ UNCHANGED <<keys, hits>>
<1> DEFINE reply == DamageScript(cacheOf, p, a)
<1>1. CASE reply.status = "notloaded"
  <2>1. ~ hp.there
    <3> SUFFICES ASSUME hp.there PROVE FALSE
      OBVIOUS
    <3>1. cacheOf.loaded BY DEF cacheOf
    <3> QED BY <1>1, <3>1 DEF DamageScript
  <2> QED BY <1>1, <2>1 DEF Apply, found
<1>2. CASE reply.status = "defeated" BY <1>2 DEF Apply, found
<1>3. CASE reply.status = "applied"
  <2>1. /\ reply.applied \in Nat /\ 0 < reply.applied /\ reply.applied <= hp.val
        /\ reply.applied <= MaxHP /\ hp.there
    BY <1>3, AppliedIs
  <2>2. /\ HitKeys(p, reply.applied) /\ UNCHANGED maxhp /\ Goto(r, "landed")
        /\ player' = [player EXCEPT ![r] = p]
        /\ applied' = [applied EXCEPT ![r] = reply.applied]
    BY <1>3 DEF Apply
  <2> QED BY <2>1, <2>2 DEF Hurts, Apply, found
<1>4. CASE reply.status = "invalid"
  <2>1. a > 0 BY StoreAssumption
  <2> QED BY <1>4, <2>1 DEF DamageScript
<1>5. cacheOf \in Cache /\ a \in Int BY CacheType, StoreAssumption
<1> QED BY <1>1, <1>2, <1>3, <1>4, <1>5, DamageScriptType

Writes ==
  \/ UNCHANGED keys
  \/ \E p \in Players, d \in Nat : Hurts(p, d) \/ Heals(p, d)
  \/ \E r \in Requests : req[r].at = "write" /\ RehydrateKeys(snap[r])

KeyStep == Writes \/ Ages

LEMMA KeySteps ==
  ASSUME TypeOK, Landing, [Next]_vars
  PROVE  UNCHANGED ttl /\ KeyStep /\ (Tick \/ Writes)
<1>1. ASSUME NEW r \in Requests, Arrive(r) \/ Step(r) PROVE UNCHANGED ttl /\ Writes
  <2>1. CASE Arrive(r) \/ Fail(r) \/ ReadState(r) \/ ReadContribs(r) \/ ReadHP(r)
            \/ ReadMax(r) \/ ReadStateKey(r)
    <3>1. UNCHANGED <<ttl, keys>>
      BY <2>1 DEF Arrive, Fail, ReadState, ReadContribs, ReadHP, ReadMax, ReadStateKey
    <3> QED BY <3>1 DEF Writes
  <2>2. CASE WriteCache(r) BY <2>2 DEF WriteCache, Writes
  <2>3. ASSUME r \in Hits, NEW p \in Players, NEW a \in 1 .. MaxHP, Apply(r, p, a)
        PROVE  UNCHANGED ttl /\ Writes
    BY <2>3, ApplyDoes DEF Writes
  <2> QED BY <1>1, <2>1, <2>2, <2>3 DEF Step
<1>2. ASSUME NEW r \in Hits, Undo(r) PROVE UNCHANGED ttl /\ Writes
  <2>1. /\ req[r].at = "landed" /\ player[r] \in Players /\ applied[r] \in Nat
        /\ 0 < applied[r] /\ applied[r] <= MaxHP
    BY <1>2 DEF Undo, Landeds, TypeOK, Landing
  <2>2. CASE hp.there
    <3>1. Heals(player[r], applied[r]) /\ UNCHANGED ttl BY <1>2, <2>1, <2>2 DEF Undo, Heals
    <3> QED BY <2>1, <3>1 DEF Writes
  <2>3. CASE ~ hp.there BY <1>2, <2>3 DEF Undo, Writes, keys
  <2> QED BY <2>2, <2>3
<1>3. ASSUME NEW r \in Hits, NEW p \in Players, NEW a \in 1 .. MaxHP, Unheard(r, p, a)
      PROVE  UNCHANGED ttl /\ Writes
  <2> DEFINE d == DamageScript(cacheOf, p, a).applied
  <2>1. DamageScript(cacheOf, p, a).status = "applied" /\ HitKeys(p, d) /\ UNCHANGED <<ttl, maxhp>>
    BY <1>3 DEF Unheard
  <2>2. d \in Nat /\ Hurts(p, d) BY <2>1, AppliedIs DEF Hurts
  <2> QED BY <2>1, <2>2 DEF Writes
<1>4. ASSUME NEW B, Store(B) PROVE UNCHANGED ttl /\ Writes
  BY <1>4 DEF Store, Writes
<1>5. ASSUME Tick PROVE UNCHANGED ttl /\ Ages
  BY <1>5 DEF Tick, Ages
<1>6. ASSUME UNCHANGED vars PROVE UNCHANGED ttl /\ Writes
  BY <1>6 DEF vars, Writes
<1> QED BY <1>1, <1>2, <1>3, <1>4, <1>5, <1>6 DEF Next, KeyStep

LEMMA KeyStepType == ASSUME TypeOK, KeyStep PROVE KeysTyped'
<1>1. CASE UNCHANGED keys BY <1>1 DEF keys, TypeOK, KeysTyped
<1> QED BY <1>1, HurtWrites, HealWrites, RebuildWrites, AgesType DEF KeyStep, Writes
(***************************************************************************)
(* What a step may do to the requests.                                     *)
(***************************************************************************)
Places == Working \cup {"idle", "landed", "404", "blank", "shown"}

ReqTyped == req \in [Requests -> [at : Places, left : 0 .. Deadline, tried : BOOLEAN]]

LEMMA GotoDoes ==
  ASSUME ReqTyped, NEW r \in Requests, NEW step \in Places, Goto(r, step)
  PROVE  /\ ReqTyped' /\ req'[r].at = step
         /\ step \in Working => req'[r].left = req[r].left /\ req'[r].tried = req[r].tried
         /\ step \notin Working => ~ req'[r].tried
         /\ \A x \in Requests : x # r => req'[x] = req[x]
<1> DEFINE new == IF step \in Working THEN [req[r] EXCEPT !.at = step] ELSE [Idle EXCEPT !.at = step]
<1>1. req' = [req EXCEPT ![r] = new] BY DEF Goto
<1>2. /\ new \in [at : Places, left : 0 .. Deadline, tried : BOOLEAN]
      /\ new.at = step
      /\ step \in Working => new.left = req[r].left /\ new.tried = req[r].tried
      /\ step \notin Working => ~ new.tried
  <2>1. req[r] \in [at : Places, left : 0 .. Deadline, tried : BOOLEAN] BY DEF ReqTyped
  <2>2. 0 \in 0 .. Deadline BY KeysAssumption
  <2>3. CASE step \in Working BY <2>1, <2>3
  <2>4. CASE step \notin Working BY <2>2, <2>4 DEF Idle
  <2> QED BY <2>3, <2>4
<1> HIDE DEF new
<1> QED BY <1>1, <1>2 DEF ReqTyped

\* What WriteCache does to its request, and Store to those of its batch.
LEMMA ReturnsDo ==
  ASSUME ReqTyped, NEW r \in Requests, WriteCache(r)
  PROVE  /\ ReqTyped' /\ req'[r].at = Entry(r) /\ req'[r].at \in {"apply", "view"}
         /\ req'[r].left = req[r].left /\ req'[r].tried
         /\ \A x \in Requests : x # r => req'[x] = req[x]
<1>1. req' = [req EXCEPT ![r].at = Entry(r), ![r].tried = TRUE] BY DEF WriteCache
<1>2. Entry(r) \in {"apply", "view"} BY DEF Entry
<1>3. Entry(r) \in Places BY <1>2 DEF Places, Working
<1> QED BY <1>1, <1>2, <1>3 DEF ReqTyped

LEMMA TickLeft ==
  ASSUME ReqTyped, Tick
  PROVE  /\ ReqTyped'
         /\ \A r \in Requests : /\ req'[r].at = req[r].at /\ req'[r].tried = req[r].tried
                                /\ Active(r) => req[r].left > 0 /\ req'[r].left = req[r].left - 1
<1>1. req' = [r \in Requests |-> IF Active(r) THEN [req[r] EXCEPT !.left = @ - 1] ELSE req[r]]
  BY DEF Tick
<1>2. ASSUME NEW r \in Requests
      PROVE  /\ req'[r] \in [at : Places, left : 0 .. Deadline, tried : BOOLEAN]
             /\ req'[r].at = req[r].at /\ req'[r].tried = req[r].tried
             /\ Active(r) => req[r].left > 0 /\ req'[r].left = req[r].left - 1
  <2>1. req[r] \in [at : Places, left : 0 .. Deadline, tried : BOOLEAN] BY DEF ReqTyped
  <2>2. Active(r) => req[r].left > 0 BY DEF Tick
  <2>3. CASE Active(r)
    <3>1. req'[r] = [req[r] EXCEPT !.left = @ - 1] BY <1>1, <2>3
    <3>2. req[r].left - 1 \in 0 .. Deadline BY <2>1, <2>2, <2>3, KeysAssumption
    <3> QED BY <2>1, <2>2, <3>1, <3>2
  <2>4. CASE ~ Active(r) BY <1>1, <2>1, <2>4
  <2> QED BY <2>3, <2>4
<1> QED BY <1>1, <1>2 DEF ReqTyped

LEMMA StoreDoes ==
  ASSUME ReqTyped, NEW B \in SUBSET Landeds, Store(B)
  PROVE  /\ ReqTyped'
         /\ \A r \in Requests : r \in B => req'[r] = Idle
         /\ \A r \in Requests : r \notin B => req'[r] = req[r]
<1>1. Idle \in [at : Places, left : 0 .. Deadline, tried : BOOLEAN]
  BY KeysAssumption DEF Idle, Places
<1> QED BY <1>1 DEF Store, ReqTyped

LEMMA ArriveDoes ==
  ASSUME ReqTyped, NEW r \in Requests, Arrive(r)
  PROVE  /\ ReqTyped' /\ req'[r].at \in {"apply", "view"} /\ ~ req'[r].tried
         /\ \A x \in Requests : x # r => req'[x] = req[x]
<1>1. Entry(r) \in {"apply", "view"} BY DEF Entry
<1>2. [at |-> Entry(r), left |-> Deadline, tried |-> FALSE]
        \in [at : Places, left : 0 .. Deadline, tried : BOOLEAN]
  BY <1>1, KeysAssumption DEF Places, Working
<1> QED BY <1>1, <1>2 DEF Arrive, ReqTyped
(***************************************************************************)
(* Types.                                                                  *)
(***************************************************************************)
HitsTyped ==
  /\ ledger \in Ledger
  /\ snap \in [Requests -> [hp : Nat, state : BossStates, contrib : [Players -> Nat]]]
  /\ seen \in [Requests -> [hp : Nat, max : Nat, state : BossStates]]
  /\ player \in [Hits -> Players] /\ applied \in [Hits -> Nat]

LEMMA TypedParts == TypeOK <=> ttl \in TTLs /\ KeysTyped /\ ReqTyped /\ HitsTyped
BY DEF TypeOK, KeysTyped, ReqTyped, HitsTyped, Places

LEMMA TypedPartsNext ==
  ASSUME (ttl \in TTLs)', KeysTyped', ReqTyped', HitsTyped'
  PROVE  TypeOK'
BY DEF TypeOK, KeysTyped, ReqTyped, HitsTyped, Places

LEMMA NoViewType == NoView \in [hp : Nat, max : Nat, state : BossStates]
BY DEF NoView, BossStates

LEMMA InitTyped == Init => TypeOK /\ Landing
<1> SUFFICES ASSUME Init PROVE TypeOK /\ Landing
  OBVIOUS
<1>1. NoDamage \in [Players -> Nat] /\ Untouched \in Ledger BY UntouchedType DEF NoDamage
<1>2. ttl \in TTLs BY DEF Init
<1>3. KeysTyped BY <1>1 DEF Init, KeysTyped, Missing, Key, BossStates
<1>4. Idle \in [at : Places, left : 0 .. Deadline, tried : BOOLEAN]
  BY KeysAssumption DEF Idle, Places
<1>5. ReqTyped BY <1>4 DEF Init, ReqTyped
<1>6. NoSnap \in [hp : Nat, state : BossStates, contrib : [Players -> Nat]]
  BY <1>1 DEF NoSnap, BossStates
<1>7. (CHOOSE p \in Players : TRUE) \in Players BY KeysAssumption
<1>8. HitsTyped BY <1>1, <1>6, <1>7, NoViewType DEF Init, HitsTyped
<1>9. Landing BY DEF Init, Landing, Idle, Requests
<1> QED BY <1>2, <1>3, <1>5, <1>8, <1>9, TypedParts

LEMMA BatchOfHits ==
  ASSUME NEW B \in SUBSET Landeds
  PROVE  B \subseteq Hits /\ IsFiniteSet(B) /\ B \subseteq Requests
<1>1. B \subseteq Hits BY DEF Landeds
<1> QED BY <1>1, KeysAssumption, FS_Subset DEF Requests

LEMMA NextTyped == TypeOK /\ Landing /\ [Next]_vars => (TypeOK /\ Landing)'
<1> SUFFICES ASSUME TypeOK, Landing, [Next]_vars
             PROVE  TypeOK' /\ Landing'
  OBVIOUS
<1> DEFINE Rest == ReqTyped' /\ HitsTyped' /\ Landing'
<1>1. (ttl \in TTLs)' /\ KeysTyped'
  BY KeySteps, KeyStepType DEF TypeOK
<1>2. ttl \in TTLs /\ KeysTyped /\ ReqTyped /\ HitsTyped /\ \A r \in Hits : r \in Requests
  BY TypedParts DEF Requests
<1>3. ASSUME NEW r \in Requests, NEW step \in Places, step # "landed", Goto(r, step),
             HitsTyped', UNCHANGED applied
      PROVE  Rest
  <2>1. ReqTyped' /\ req'[r].at = step /\ \A x \in Requests : x # r => req'[x] = req[x]
    BY <1>2, <1>3, GotoDoes
  <2>2. Landing' BY <1>2, <1>3, <2>1 DEF Landing
  <2> QED BY <1>3, <2>1, <2>2
<1>4. ASSUME NEW r \in Requests, Arrive(r) PROVE Rest
  <2>1. UNCHANGED <<ledger, snap, hits>> /\ seen' = [seen EXCEPT ![r] = NoView]
    BY <1>4 DEF Arrive
  <2>2. HitsTyped' BY <1>2, <2>1, NoViewType DEF HitsTyped, hits
  <2>3. /\ ReqTyped' /\ req'[r].at \in {"apply", "view"}
        /\ \A x \in Requests : x # r => req'[x] = req[x]
    BY <1>2, <1>4, ArriveDoes
  <2>4. Landing' BY <1>2, <2>1, <2>3 DEF Landing, hits
  <2> QED BY <2>2, <2>3, <2>4
<1>5. ASSUME NEW r \in Requests, Fail(r) PROVE Rest
  <2>1. /\ Goto(r, "idle") /\ UNCHANGED <<ledger, hits>>
        /\ snap' = [snap EXCEPT ![r] = NoSnap] /\ seen' = [seen EXCEPT ![r] = NoView]
    BY <1>5 DEF Fail
  <2>2. NoSnap \in [hp : Nat, state : BossStates, contrib : [Players -> Nat]]
    BY DEF NoSnap, BossStates, NoDamage
  <2>3. HitsTyped' /\ UNCHANGED applied
    BY <1>2, <2>1, <2>2, NoViewType DEF HitsTyped, hits
  <2>4. "idle" \in Places BY DEF Places
  <2> QED BY <1>3, <2>1, <2>3, <2>4
<1>6. ASSUME NEW r \in Requests, ReadState(r) PROVE Rest
  <2>1. /\ Goto(r, "readcontribs") /\ UNCHANGED <<ledger, seen, hits>>
        /\ snap' = [snap EXCEPT ![r].hp = RecoveryHP(ledger), ![r].state = ledger.state]
    BY <1>6 DEF ReadState
  <2>2. ledger \in Ledger /\ RecoveryHP(ledger) \in Nat /\ ledger.state \in BossStates
    BY <1>2, TotalDamageNat DEF HitsTyped, Ledger
  <2>3. HitsTyped' /\ UNCHANGED applied BY <1>2, <2>1, <2>2 DEF HitsTyped, hits
  <2>4. "readcontribs" \in Places BY DEF Places, Working
  <2> QED BY <1>3, <2>1, <2>3, <2>4
<1>7. ASSUME NEW r \in Requests, ReadContribs(r) PROVE Rest
  <2>1. /\ Goto(r, "write") /\ UNCHANGED <<ledger, seen, hits>>
        /\ snap' = [snap EXCEPT ![r].contrib = ledger.contrib]
    BY <1>7 DEF ReadContribs
  <2>2. ledger.contrib \in [Players -> Nat] BY <1>2 DEF HitsTyped, Ledger
  <2>3. HitsTyped' /\ UNCHANGED applied BY <1>2, <2>1, <2>2 DEF HitsTyped, hits
  <2>4. "write" \in Places BY DEF Places, Working
  <2> QED BY <1>3, <2>1, <2>3, <2>4
<1>8. ASSUME NEW r \in Requests, WriteCache(r) PROVE Rest
  <2>1. UNCHANGED <<ledger, seen, hits>> /\ snap' = [snap EXCEPT ![r] = NoSnap]
    BY <1>8 DEF WriteCache
  <2>2. NoSnap \in [hp : Nat, state : BossStates, contrib : [Players -> Nat]]
    BY DEF NoSnap, BossStates, NoDamage
  <2>3. HitsTyped' BY <1>2, <2>1, <2>2 DEF HitsTyped, hits
  <2>4. /\ ReqTyped' /\ req'[r].at \in {"apply", "view"}
        /\ \A x \in Requests : x # r => req'[x] = req[x]
    BY <1>2, <1>8, ReturnsDo
  <2>5. Landing' BY <1>2, <2>1, <2>4 DEF Landing, hits
  <2> QED BY <2>3, <2>4, <2>5
<1>9. ASSUME NEW r \in Requests, ReadHP(r) \/ ReadMax(r) \/ ReadStateKey(r) PROVE Rest
  <2>1. UNCHANGED <<ledger, snap, hits>> BY <1>9 DEF ReadHP, ReadMax, ReadStateKey
  <2>2. hp.val \in Nat /\ maxhp.val \in Nat /\ state.val \in BossStates
    BY <1>2 DEF KeysTyped, Key
  <2>3. \/ UNCHANGED seen
        \/ \E v \in Nat : seen' = [seen EXCEPT ![r].hp = v]
        \/ \E v \in Nat : seen' = [seen EXCEPT ![r].max = v]
        \/ \E v \in BossStates : seen' = [seen EXCEPT ![r].state = v]
    BY <1>9, <2>2 DEF ReadHP, ReadMax, ReadStateKey
  <2>4. seen' \in [Requests -> [hp : Nat, max : Nat, state : BossStates]]
    BY <1>2, <2>3 DEF HitsTyped
  <2>5. HitsTyped' /\ UNCHANGED applied BY <1>2, <2>1, <2>4 DEF HitsTyped, hits
  <2>6. PICK step \in {"viewmax", "viewstate", "shown", "readstate", "blank"} : Goto(r, step)
    BY <1>9 DEF ReadHP, ReadMax, ReadStateKey, Miss
  <2>7. step \in Places /\ step # "landed" BY DEF Places, Working
  <2> QED BY <1>3, <2>5, <2>6, <2>7
<1>10. ASSUME NEW r \in Hits, NEW p \in Players, NEW a \in 1 .. MaxHP, Apply(r, p, a)
       PROVE  Rest
  <2>1. UNCHANGED <<ledger, snap, seen>> BY <1>10, ApplyDoes
  <2>2. CASE UNCHANGED hits
    <3>1. HitsTyped' /\ UNCHANGED applied BY <1>2, <2>1, <2>2 DEF HitsTyped, hits
    <3>2. CASE Goto(r, "idle")
      <4>1. "idle" \in Places BY DEF Places
      <4> QED BY <1>2, <1>3, <3>1, <3>2, <4>1
    <3>3. CASE Miss(r, "404")
      <4>1. PICK step \in {"404", "readstate"} : Goto(r, step) BY <3>3 DEF Miss
      <4>2. step \in Places /\ step # "landed" BY DEF Places, Working
      <4> QED BY <1>2, <1>3, <3>1, <4>1, <4>2
    <3>4. CASE Goto(r, "landed") /\ \E d \in Nat : /\ Hurts(p, d)
                                                    /\ applied' = [applied EXCEPT ![r] = d]
      <4>1. PICK d \in Nat : Hurts(p, d) /\ applied' = [applied EXCEPT ![r] = d] BY <3>4
      <4>2. 0 < d /\ d <= MaxHP BY <4>1 DEF Hurts
      <4>3. "landed" \in Places BY DEF Places
      <4>4. ReqTyped' /\ \A x \in Requests : x # r => req'[x] = req[x]
        BY <1>2, <3>4, <4>3, GotoDoes
      <4>5. Landing' BY <1>2, <4>1, <4>2, <4>4 DEF Landing, HitsTyped
      <4> QED BY <3>1, <4>4, <4>5
    <3> QED BY <1>10, <3>2, <3>3, <3>4, ApplyDoes
  <2>3. ASSUME NEW d \in Nat, Hurts(p, d), Goto(r, "landed"),
               player' = [player EXCEPT ![r] = p], applied' = [applied EXCEPT ![r] = d]
        PROVE  Rest
    <3>1. 0 < d /\ d <= MaxHP BY <2>3 DEF Hurts
    <3>2. HitsTyped' BY <1>2, <2>1, <2>3 DEF HitsTyped
    <3>3. "landed" \in Places BY DEF Places
    <3>4. ReqTyped' /\ \A x \in Requests : x # r => req'[x] = req[x]
      BY <1>2, <2>3, <3>3, GotoDoes
    <3>5. Landing' BY <1>2, <2>3, <3>1, <3>4 DEF Landing, HitsTyped
    <3> QED BY <3>2, <3>4, <3>5
  <2> QED BY <1>10, <2>2, <2>3, ApplyDoes
<1>11. ASSUME NEW r \in Hits, NEW p \in Players, NEW a \in 1 .. MaxHP, Unheard(r, p, a)
       PROVE  Rest
  <2>1. UNCHANGED <<ledger, req, snap, seen, hits>> BY <1>11 DEF Unheard, found
  <2> QED BY <1>2, <2>1 DEF ReqTyped, HitsTyped, Landing, hits
<1>12. ASSUME NEW r \in Hits, Undo(r) PROVE Rest
  <2>1. /\ UNCHANGED <<ledger, snap, seen, player>> /\ Goto(r, "idle")
        /\ applied' = [applied EXCEPT ![r] = 0]
    BY <1>12 DEF Undo, found
  <2>2. HitsTyped' BY <1>2, <2>1 DEF HitsTyped
  <2>3. "idle" \in Places BY DEF Places
  <2>4. /\ ReqTyped' /\ req'[r].at = "idle"
        /\ \A x \in Requests : x # r => req'[x] = req[x]
    BY <1>2, <2>1, <2>3, GotoDoes
  <2>5. Landing' BY <1>2, <2>1, <2>4 DEF Landing, HitsTyped
  <2> QED BY <2>2, <2>4, <2>5
<1>13. ASSUME NEW B \in SUBSET Landeds, Store(B) PROVE Rest
  <2>1. B \subseteq Hits /\ IsFiniteSet(B) BY BatchOfHits
  <2>2. /\ ledger' = CommitBatch(ledger, B, player, applied) /\ UNCHANGED <<snap, seen, player>>
        /\ applied' = [r \in Hits |-> IF r \in B THEN 0 ELSE applied[r]]
    BY <1>13 DEF Store, found
  <2>3. ledger' \in Ledger
    BY <1>2, <2>1, <2>2, CommitBatchAgrees DEF HitsTyped
  <2>4. HitsTyped' BY <1>2, <2>2, <2>3 DEF HitsTyped
  <2>5. /\ ReqTyped' /\ \A r \in Requests : r \in B => req'[r] = Idle
        /\ \A r \in Requests : r \notin B => req'[r] = req[r]
    BY <1>2, <1>13, StoreDoes
  <2>6. Landing' BY <1>2, <2>2, <2>5 DEF Landing, Idle
  <2> QED BY <2>4, <2>5, <2>6
<1>14. ASSUME Tick PROVE Rest
  <2>1. UNCHANGED <<ledger, snap, seen, hits>> BY <1>14 DEF Tick, found
  <2>2. HitsTyped' BY <1>2, <2>1 DEF HitsTyped, hits
  <2>3. ReqTyped' /\ \A r \in Requests : req'[r].at = req[r].at BY <1>2, <1>14, TickLeft
  <2>4. Landing' BY <1>2, <2>1, <2>3 DEF Landing, hits
  <2> QED BY <2>2, <2>3, <2>4
<1>15. ASSUME UNCHANGED vars PROVE Rest
  <2>1. UNCHANGED <<ledger, req, snap, seen, hits>> BY <1>15 DEF vars, found
  <2> QED BY <1>2, <2>1 DEF ReqTyped, HitsTyped, Landing, hits
<1>16. Rest
  BY <1>4, <1>5, <1>6, <1>7, <1>8, <1>9, <1>10, <1>11, <1>12, <1>13, <1>14, <1>15 DEF Next, Step
<1> QED BY <1>1, <1>16, TypedPartsNext

(***************************************************************************)
(* Type correctness; a hit that waits for its batch has landed something.  *)
(***************************************************************************)
THEOREM KeysAreTyped == Spec => []TypeOK
<1>1. Spec => [](TypeOK /\ Landing)
  BY InitTyped, NextTyped, PTL DEF Spec
<1> QED BY <1>1, PTL

(***************************************************************************)
(* A state agrees with the HP beside it (Agrees).  A rebuild writes the    *)
(* state it has read, so what it holds must agree (Snapshots), and it does *)
(* because Postgres agrees at every commit; and at 0 HP the state must     *)
(* live as long as the HP does (StateLasts), or the boss would read as     *)
(* alive for the rest.                                                     *)
(***************************************************************************)
Snapshots ==
  /\ LedgerAgrees(ledger)
  /\ \A r \in Requests : req[r].at \in {"readcontribs", "write"}
                           => (snap[r].state = "defeated" <=> snap[r].hp = 0)

StateLasts == hp.there /\ hp.val = 0 => state.there /\ state.life = hp.life

LEMMA SnapshotsStay ==
  ASSUME TypeOK, Snapshots, [Next]_vars
  PROVE  Snapshots'
<1> DEFINE agrees(s) == s.state = "defeated" <=> s.hp = 0
<1>1. /\ ReqTyped /\ ledger \in Ledger /\ \A r \in Hits : r \in Requests
      /\ snap \in [Requests -> [hp : Nat, state : BossStates, contrib : [Players -> Nat]]]
  BY TypedParts DEF HitsTyped, Requests
<1>2. ASSUME UNCHANGED <<ledger, req, snap>> PROVE Snapshots'
  BY <1>2 DEF Snapshots
<1>3. ASSUME NEW r \in Requests, UNCHANGED ledger,
             \A x \in Requests : x # r => req'[x] = req[x] /\ snap'[x] = snap[x],
             req'[r].at \notin {"readcontribs", "write"}
      PROVE  Snapshots'
  BY <1>3 DEF Snapshots
<1>4. ASSUME NEW r \in Requests, NEW step \in Places \ {"readcontribs", "write"}, Goto(r, step),
             UNCHANGED <<ledger, snap>>
      PROVE  Snapshots'
  <2>1. req'[r].at = step /\ \A x \in Requests : x # r => req'[x] = req[x]
    BY <1>1, <1>4, GotoDoes
  <2> QED BY <1>3, <1>4, <2>1
<1>5. ASSUME NEW r \in Requests, Arrive(r) PROVE Snapshots'
  <2>1. req'[r].at \in {"apply", "view"} /\ \A x \in Requests : x # r => req'[x] = req[x]
    BY <1>1, <1>5, ArriveDoes
  <2>2. UNCHANGED <<ledger, snap>> BY <1>5 DEF Arrive
  <2> QED BY <1>3, <2>1, <2>2
<1>6. ASSUME NEW r \in Requests, Fail(r) PROVE Snapshots'
  <2>1. Goto(r, "idle") /\ UNCHANGED ledger /\ snap' = [snap EXCEPT ![r] = NoSnap]
    BY <1>6 DEF Fail
  <2>2. "idle" \in Places BY DEF Places
  <2>3. req'[r].at = "idle" /\ \A x \in Requests : x # r => req'[x] = req[x]
    BY <1>1, <2>1, <2>2, GotoDoes
  <2> QED BY <1>1, <1>3, <2>1, <2>3
<1>7. ASSUME NEW r \in Requests, ReadState(r) PROVE Snapshots'
  <2>1. /\ Goto(r, "readcontribs") /\ UNCHANGED ledger
        /\ snap' = [snap EXCEPT ![r].hp = RecoveryHP(ledger), ![r].state = ledger.state]
    BY <1>7 DEF ReadState
  <2>2. "readcontribs" \in Places BY DEF Places, Working
  <2>3. req'[r].at = "readcontribs" /\ \A x \in Requests : x # r => req'[x] = req[x]
    BY <1>1, <2>1, <2>2, GotoDoes
  <2>4. snap'[r].hp = RecoveryHP(ledger) /\ snap'[r].state = ledger.state
        /\ \A x \in Requests : x # r => snap'[x] = snap[x]
    BY <1>1, <2>1
  <2>5. agrees(snap'[r]) BY <2>4 DEF Snapshots, LedgerAgrees
  <2> QED BY <2>1, <2>3, <2>4, <2>5 DEF Snapshots
<1>8. ASSUME NEW r \in Requests, ReadContribs(r) PROVE Snapshots'
  <2>1. /\ req[r].at = "readcontribs" /\ Goto(r, "write") /\ UNCHANGED ledger
        /\ snap' = [snap EXCEPT ![r].contrib = ledger.contrib]
    BY <1>8 DEF ReadContribs
  <2>2. "write" \in Places BY DEF Places, Working
  <2>3. req'[r].at = "write" /\ \A x \in Requests : x # r => req'[x] = req[x]
    BY <1>1, <2>1, <2>2, GotoDoes
  <2>4. \A x \in Requests : snap'[x].hp = snap[x].hp /\ snap'[x].state = snap[x].state
    BY <1>1, <2>1
  <2> QED BY <2>1, <2>3, <2>4 DEF Snapshots
<1>9. ASSUME NEW r \in Requests, WriteCache(r) PROVE Snapshots'
  <2>1. UNCHANGED ledger /\ snap' = [snap EXCEPT ![r] = NoSnap] BY <1>9 DEF WriteCache
  <2>2. req'[r].at \in {"apply", "view"} /\ \A x \in Requests : x # r => req'[x] = req[x]
    BY <1>1, <1>9, ReturnsDo
  <2> QED BY <1>1, <1>3, <2>1, <2>2
<1>10. ASSUME NEW r \in Requests, ReadHP(r) \/ ReadMax(r) \/ ReadStateKey(r)
       PROVE  Snapshots'
  <2>1. UNCHANGED <<ledger, snap>> BY <1>10 DEF ReadHP, ReadMax, ReadStateKey
  <2>2. PICK step \in {"viewmax", "viewstate", "shown", "readstate", "blank"} : Goto(r, step)
    BY <1>10 DEF ReadHP, ReadMax, ReadStateKey, Miss
  <2>3. step \in Places \ {"readcontribs", "write"} BY DEF Places, Working
  <2> QED BY <1>4, <2>1, <2>2, <2>3
<1>11. ASSUME NEW r \in Hits, NEW p \in Players, NEW a \in 1 .. MaxHP, Apply(r, p, a)
       PROVE  Snapshots'
  <2>1. UNCHANGED <<ledger, snap>> BY <1>11, ApplyDoes
  <2>2. PICK step \in {"landed", "idle", "404", "readstate"} : Goto(r, step)
    BY <1>11, ApplyDoes DEF Miss
  <2>3. step \in Places \ {"readcontribs", "write"} BY DEF Places, Working
  <2> QED BY <1>1, <1>4, <2>1, <2>2, <2>3
<1>12. ASSUME NEW r \in Hits, Undo(r) PROVE Snapshots'
  <2>1. UNCHANGED <<ledger, snap>> /\ Goto(r, "idle") BY <1>12 DEF Undo, found
  <2>2. "idle" \in Places \ {"readcontribs", "write"} BY DEF Places
  <2> QED BY <1>1, <1>4, <2>1, <2>2
<1>13. ASSUME NEW B \in SUBSET Landeds, Store(B) PROVE Snapshots'
  <2>1. B \subseteq Hits /\ IsFiniteSet(B) BY BatchOfHits
  <2>2. ledger' = CommitBatch(ledger, B, player, applied) /\ UNCHANGED snap
    BY <1>13 DEF Store, found
  <2>3. LedgerAgrees(ledger')
    <3>1. \A h \in B : player[h] \in Players /\ applied[h] \in Nat BY <2>1 DEF TypeOK
    <3>2. LedgerAgrees(CommitBatch(ledger, B, player, applied))
      BY <1>1, <2>1, <3>1, CommitBatchAgrees DEF Snapshots
    <3> QED BY <2>2, <3>2
  <2>4. /\ \A r \in Requests : r \in B => req'[r] = Idle
        /\ \A r \in Requests : r \notin B => req'[r] = req[r]
    BY <1>1, <1>13, StoreDoes
  <2>5. LedgerAgrees(ledger)' BY <2>3 DEF LedgerAgrees, RecoveryHP, TotalDamage
  <2> QED BY <2>2, <2>4, <2>5 DEF Snapshots, Idle
<1>14. ASSUME Tick PROVE Snapshots'
  <2>1. UNCHANGED <<ledger, snap>> BY <1>14 DEF Tick, found
  <2>2. \A r \in Requests : req'[r].at = req[r].at BY <1>1, <1>14, TickLeft
  <2> QED BY <2>1, <2>2 DEF Snapshots
<1>15. ASSUME NEW r, NEW p, NEW a, Unheard(r, p, a) PROVE Snapshots'
  BY <1>2, <1>15 DEF Unheard, found
<1>16. ASSUME UNCHANGED vars PROVE Snapshots'
  BY <1>2, <1>16 DEF vars, found
<1> QED
  BY <1>5, <1>6, <1>7, <1>8, <1>9, <1>10, <1>11, <1>12, <1>13, <1>14, <1>15, <1>16
  DEF Next, Step

Agrees == CacheAgrees(cacheOf)

Shown == Snapshots /\ StateLasts /\ Agrees

LEMMA ShownStays ==
  ASSUME TypeOK, Shown, KeyStep
  PROVE  StateLasts' /\ Agrees'
<1>1. /\ hp \in Key(Nat) /\ state \in Key(BossStates) /\ lb \in Key([Players -> Nat])
      /\ ttl \in TTLs /\ hp.val \in Nat
  BY DEF TypeOK, Key
<1>2. CASE UNCHANGED keys
  BY <1>2 DEF Shown, StateLasts, Agrees, cacheOf, keys
<1>3. ASSUME NEW p \in Players, NEW d \in Nat, Hurts(p, d) PROVE StateLasts' /\ Agrees'
  <2>1. /\ hp' = Set(hp.val - d, ttlArg)
        /\ cacheOf' = Hurt(cacheOf, p, d)
        /\ state' = IF hp.val = d THEN Set("defeated", ttlArg) ELSE Renewed(state)
    BY <1>3, HurtWrites
  <2>2. StateLasts' BY <1>1, <1>3, <2>1 DEF StateLasts, Set, Hurts
  <2>3. cacheOf = [loaded |-> TRUE, hp |-> hp.val, state |-> state.val, lb |-> lb.val]
        /\ 0 < d /\ d <= hp.val
    BY <1>3 DEF Hurts, cacheOf
  <2>4. state.val # "defeated" BY <1>1, <2>3 DEF Shown, Agrees, CacheAgrees
  <2>5. CacheAgrees(Hurt(cacheOf, p, d))
    BY <1>1, <2>3, <2>4 DEF Hurt, CacheAgrees
  <2>6. Agrees' BY <2>1, <2>5 DEF Agrees, CacheAgrees
  <2> QED BY <2>2, <2>6
<1>4. ASSUME NEW p \in Players, NEW d \in Nat, Heals(p, d) PROVE StateLasts' /\ Agrees'
  <2>1. hp' = Set(hp.val + d, ttlArg) /\ state' = Set("alive", ttlArg) BY <1>4, HealWrites
  <2>2. hp.val + d # 0 BY <1>1, <1>4 DEF Heals
  <2> QED BY <2>1, <2>2 DEF StateLasts, Agrees, CacheAgrees, cacheOf, Set
<1>5. ASSUME NEW r \in Requests, req[r].at = "write", RehydrateKeys(snap[r])
      PROVE  StateLasts' /\ Agrees'
  <2>1. hp' = Set(snap[r].hp, ttl) /\ state' = Set(snap[r].state, ttl)
    BY <1>5, RebuildWrites
  <2>2. snap[r].state = "defeated" <=> snap[r].hp = 0
    BY <1>5 DEF Shown, Snapshots
  <2> QED BY <2>1, <2>2 DEF StateLasts, Agrees, CacheAgrees, cacheOf, Set
<1>6. ASSUME Ages PROVE StateLasts' /\ Agrees'
  <2>1. hp' = Aged(hp, 0) /\ state' = Aged(state, "alive") BY <1>6 DEF Ages
  <2>2. "alive" \in BossStates BY DEF BossStates
  <2>3. /\ hp.life \in Nat /\ state.life \in Nat /\ hp.there \in BOOLEAN /\ state.there \in BOOLEAN
    BY <1>1 DEF Key
  <2>4. hp'.there => hp.there /\ hp'.val = hp.val /\ hp.life # 1
        /\ hp'.life = IF hp.life = 0 THEN 0 ELSE hp.life - 1
    BY <1>1, <2>1, <2>3, AgedType DEF Missing
  <2>5. state.life # 1 => state'.val = state.val /\ state'.there = state.there
                          /\ state'.life = IF state.life = 0 THEN 0 ELSE state.life - 1
    BY <1>1, <2>1, <2>2, <2>3, AgedType
  <2>6. state.life = 1 => state'.val = "alive"
    BY <1>1, <2>1, <2>2, AgedType DEF Missing
  <2>7. hp.there /\ hp.val = 0 => state.there /\ state.life = hp.life /\ state.val = "defeated"
    BY DEF Shown, StateLasts, Agrees, CacheAgrees, cacheOf
  <2>8. hp.there /\ hp.val # 0 => state.val # "defeated"
    BY DEF Shown, Agrees, CacheAgrees, cacheOf
  <2>9. StateLasts' BY <2>3, <2>4, <2>5, <2>7 DEF StateLasts
  <2>10. hp'.there => (state'.val = "defeated" <=> hp'.val = 0)
    BY <2>3, <2>4, <2>5, <2>6, <2>7, <2>8
  <2>11. Agrees' BY <2>10 DEF Agrees, CacheAgrees, cacheOf, Cold
  <2> QED BY <2>9, <2>11
<1> QED BY <1>2, <1>3, <1>4, <1>5, <1>6 DEF KeyStep, Writes

\* Only the read of the state completes a view.
LEMMA ShowsOnly ==
  ASSUME TypeOK, [Next]_vars, NEW r \in Requests,
         req[r].at = "viewstate", req'[r].at = "shown"
  PROVE  ReadStateKey(r)
<1>1. ReqTyped /\ \A x \in Hits : x \in Requests BY TypedParts DEF Requests
<1>2. ASSUME req'[r] = req[r] PROVE FALSE BY <1>2
<1>3. ASSUME NEW x \in Requests, NEW step \in Places \ {"shown"}, Goto(x, step) PROVE FALSE
  <2>1. req'[x].at = step /\ \A y \in Requests : y # x => req'[y] = req[y]
    BY <1>1, <1>3, GotoDoes
  <2> QED BY <1>2, <1>3, <2>1
<1>4. ASSUME NEW x \in Requests, Arrive(x) \/ WriteCache(x) PROVE FALSE
  <2>1. req'[x].at \in {"apply", "view"} /\ \A y \in Requests : y # x => req'[y] = req[y]
    BY <1>1, <1>4, ArriveDoes, ReturnsDo
  <2> QED BY <1>2, <2>1
<1>5. ASSUME NEW x \in Requests,
             Fail(x) \/ ReadState(x) \/ ReadContribs(x) \/ ReadHP(x) \/ ReadMax(x)
      PROVE  FALSE
  <2>1. PICK step \in {"idle", "readcontribs", "write", "viewmax", "viewstate", "readstate",
                       "blank"} : Goto(x, step)
    BY <1>5 DEF Fail, ReadState, ReadContribs, ReadHP, ReadMax, Miss
  <2>2. step \in Places \ {"shown"} BY DEF Places, Working
  <2> QED BY <1>3, <2>1, <2>2
<1>6. ASSUME NEW x \in Requests, ReadStateKey(x), x # r PROVE FALSE
  <2>1. Goto(x, "shown") /\ "shown" \in Places BY <1>6 DEF ReadStateKey, Places
  <2>2. req'[r] = req[r] BY <1>1, <1>6, <2>1, GotoDoes
  <2> QED BY <1>2, <2>2
<1>7. ASSUME NEW x \in Hits, NEW p \in Players, NEW a \in 1 .. MaxHP, Apply(x, p, a)
      PROVE  FALSE
  <2>1. PICK step \in {"landed", "idle", "404", "readstate"} : Goto(x, step)
    BY <1>7, ApplyDoes DEF Miss
  <2>2. step \in Places \ {"shown"} BY DEF Places, Working
  <2> QED BY <1>1, <1>3, <2>1, <2>2
<1>8. ASSUME NEW x \in Hits, Undo(x) PROVE FALSE
  <2>1. Goto(x, "idle") /\ "idle" \in Places \ {"shown"} BY <1>8 DEF Undo, Places
  <2> QED BY <1>1, <1>3, <2>1
<1>9. ASSUME NEW B \in SUBSET Landeds, Store(B) PROVE FALSE
  <2>1. req'[r] = Idle \/ req'[r] = req[r] BY <1>1, <1>9, StoreDoes
  <2> QED BY <1>2, <2>1 DEF Idle
<1>10. ASSUME Tick PROVE FALSE
  <2>1. req'[r].at = req[r].at BY <1>1, <1>10, TickLeft
  <2> QED BY <2>1
<1>11. ASSUME NEW x, NEW p, NEW a, Unheard(x, p, a) PROVE FALSE
  BY <1>2, <1>11 DEF Unheard
<1>12. ASSUME UNCHANGED vars PROVE FALSE
  BY <1>2, <1>12 DEF vars
<1> QED
  BY <1>4, <1>5, <1>6, <1>7, <1>8, <1>9, <1>10, <1>11, <1>12 DEF Next, Step

(***************************************************************************)
(* GetBossView reads hp and state at different moments, and takes a state  *)
(* that is missing for "alive".  Still, whatever the TTL and whatever hits,*)
(* undos, lapses and rebuilds come between the two reads: if the boss has  *)
(* then the HP that was read, the state that is read agrees with it.       *)
(***************************************************************************)
THEOREM ViewsAgree == Spec => ViewAgrees
<1> DEFINE IInv == TypeOK /\ Landing /\ Shown
<1>1. Init => IInv
  <2> SUFFICES ASSUME Init PROVE IInv
    OBVIOUS
  <2>1. TypeOK /\ Landing BY InitTyped
  <2>2. Snapshots BY UntouchedType DEF Init, Snapshots, Idle
  <2>3. StateLasts /\ Agrees
    BY DEF Init, StateLasts, Agrees, CacheAgrees, cacheOf, Cold, Missing
  <2> QED BY <2>1, <2>2, <2>3 DEF Shown
<1>2. IInv /\ [Next]_vars => IInv'
  <2> SUFFICES ASSUME IInv, [Next]_vars PROVE IInv'
    OBVIOUS
  <2>1. TypeOK' /\ Landing' BY NextTyped
  <2>2. Snapshots' BY SnapshotsStay DEF Shown
  <2>3. StateLasts' /\ Agrees' BY KeySteps, ShownStays
  <2> QED BY <2>1, <2>2, <2>3 DEF Shown
<1> DEFINE Good(r) == seen'[r].state = "defeated" <=> seen'[r].hp = 0
<1> DEFINE AllAgree == \A r \in Gets :
                         req[r].at = "viewstate" /\ req'[r].at = "shown" /\ hp.there
                           /\ hp.val = seen[r].hp => Good(r)
<1>3. IInv /\ [Next]_vars => [AllAgree]_vars
  <2> SUFFICES ASSUME IInv, [Next]_vars, NEW r \in Gets,
                      req[r].at = "viewstate", req'[r].at = "shown",
                      hp.there, hp.val = seen[r].hp
               PROVE  Good(r)
    OBVIOUS
  <2>1. r \in Requests /\ seen \in [Requests -> [hp : Nat, max : Nat, state : BossStates]]
    BY TypedParts DEF HitsTyped, Requests
  <2>2. ReadStateKey(r) BY <2>1, ShowsOnly
  <2>3. seen' = [seen EXCEPT ![r].state = state.val] BY <2>2 DEF ReadStateKey
  <2>4. seen'[r].state = state.val /\ seen'[r].hp = hp.val BY <2>1, <2>3
  <2>5. state.val = "defeated" <=> hp.val = 0 BY DEF Shown, Agrees, CacheAgrees, cacheOf
  <2> QED BY <2>4, <2>5
<1> QED BY <1>1, <1>2, <1>3, PTL DEF Spec, ViewAgrees
(***************************************************************************)
(* max_hp is written with no TTL by the rebuild that writes the HP, so it  *)
(* outlives every HP there ever is.                                        *)
(***************************************************************************)
\* Where a view has got its maximum.
Filled == {"viewstate", "shown"}

MaxStays ==
  /\ maxhp.life = 0
  /\ hp.there => maxhp.there
  /\ maxhp.there => maxhp.val = MaxHP
  /\ \A r \in Requests : /\ req[r].at = "viewmax" => maxhp.there
                         /\ req[r].at \in Filled => seen[r].max = MaxHP

LEMMA MaxKeyStays ==
  ASSUME TypeOK, MaxStays, KeyStep
  PROVE  /\ maxhp'.life = 0 /\ (hp'.there => maxhp'.there)
         /\ maxhp'.there => maxhp'.val = MaxHP
         /\ maxhp.there => maxhp'.there
<1> DEFINE Goal == /\ maxhp'.life = 0 /\ (hp'.there => maxhp'.there)
                   /\ maxhp'.there => maxhp'.val = MaxHP
                   /\ maxhp.there => maxhp'.there
<1>1. ASSUME UNCHANGED keys PROVE Goal
  BY <1>1 DEF MaxStays, keys
<1>2. ASSUME NEW p \in Players, NEW d \in Nat, Hurts(p, d) \/ Heals(p, d) PROVE Goal
  BY <1>2 DEF MaxStays, Hurts, Heals
<1>3. ASSUME NEW r \in Requests, RehydrateKeys(snap[r]) PROVE Goal
  BY <1>3 DEF RehydrateKeys, Set
<1>4. ASSUME Ages PROVE Goal
  <2>1. hp \in Key(Nat) /\ maxhp \in Key(Nat) BY DEF TypeOK
  <2>2. maxhp' = maxhp BY <1>4, <2>1, AgedType DEF Ages, MaxStays
  <2>3. hp' = Aged(hp, 0) /\ hp.life \in Nat BY <1>4, <2>1 DEF Ages, Key
  <2>4. hp'.there => hp.there BY <2>1, <2>3, AgedType DEF Missing
  <2> QED BY <2>2, <2>4 DEF MaxStays
<1> QED BY <1>1, <1>2, <1>3, <1>4 DEF KeyStep, Writes

LEMMA MaxStaysNext ==
  ASSUME TypeOK, Landing, MaxStays, [Next]_vars
  PROVE  MaxStays'
<1>1. /\ maxhp'.life = 0 /\ (hp'.there => maxhp'.there)
      /\ maxhp'.there => maxhp'.val = MaxHP
      /\ maxhp.there => maxhp'.there
  BY KeySteps, MaxKeyStays
<1>2. /\ ReqTyped /\ \A r \in Hits : r \in Requests
      /\ seen \in [Requests -> [hp : Nat, max : Nat, state : BossStates]]
  BY TypedParts DEF HitsTyped, Requests
\* A request that goes to another place than these.
<1>3. ASSUME NEW r \in Requests, req'[r].at \notin {"viewmax"} \cup Filled,
             \A x \in Requests : x # r => req'[x] = req[x] /\ seen'[x] = seen[x]
      PROVE  MaxStays'
  BY <1>1, <1>3 DEF MaxStays, Filled
<1>4. ASSUME NEW r \in Requests, NEW step \in Places \ ({"viewmax"} \cup Filled), Goto(r, step),
             \A x \in Requests : x # r => seen'[x] = seen[x]
      PROVE  MaxStays'
  <2>1. req'[r].at = step /\ \A x \in Requests : x # r => req'[x] = req[x]
    BY <1>2, <1>4, GotoDoes
  <2> QED BY <1>3, <1>4, <2>1
<1>5. ASSUME NEW r \in Requests, Arrive(r) PROVE MaxStays'
  <2>1. req'[r].at \in {"apply", "view"} /\ \A x \in Requests : x # r => req'[x] = req[x]
    BY <1>2, <1>5, ArriveDoes
  <2>2. \A x \in Requests : x # r => seen'[x] = seen[x] BY <1>2, <1>5 DEF Arrive
  <2> QED BY <1>3, <2>1, <2>2 DEF Filled
<1>6. ASSUME NEW r \in Requests, Fail(r) \/ ReadState(r) \/ ReadContribs(r) PROVE MaxStays'
  <2>1. PICK step \in {"idle", "readcontribs", "write"} : Goto(r, step)
    BY <1>6 DEF Fail, ReadState, ReadContribs
  <2>2. step \in Places \ ({"viewmax"} \cup Filled) BY DEF Places, Working, Filled
  <2>3. \A x \in Requests : x # r => seen'[x] = seen[x]
    BY <1>2, <1>6 DEF Fail, ReadState, ReadContribs
  <2> QED BY <1>4, <2>1, <2>2, <2>3
<1>7. ASSUME NEW r \in Requests, WriteCache(r) PROVE MaxStays'
  <2>1. req'[r].at \in {"apply", "view"} /\ \A x \in Requests : x # r => req'[x] = req[x]
    BY <1>2, <1>7, ReturnsDo
  <2>2. UNCHANGED seen BY <1>7 DEF WriteCache
  <2> QED BY <1>3, <2>1, <2>2 DEF Filled
<1>8. ASSUME NEW r \in Requests, ReadHP(r) PROVE MaxStays'
  <2>1. CASE hp.there
    <3>1. /\ Goto(r, "viewmax") /\ UNCHANGED maxhp
          /\ seen' = [seen EXCEPT ![r].hp = hp.val]
      BY <1>8, <2>1 DEF ReadHP, keys
    <3>2. "viewmax" \in Places BY DEF Places, Working
    <3>3. req'[r].at = "viewmax" /\ \A x \in Requests : x # r => req'[x] = req[x]
      BY <1>2, <3>1, <3>2, GotoDoes
    <3>4. \A x \in Requests : x # r => seen'[x] = seen[x] BY <1>2, <3>1
    <3>5. maxhp'.there BY <2>1, <3>1 DEF MaxStays
    <3> QED BY <1>1, <3>3, <3>4, <3>5 DEF MaxStays, Filled
  <2>2. CASE ~ hp.there
    <3>1. PICK step \in {"blank", "readstate"} : Goto(r, step) BY <1>8, <2>2 DEF ReadHP, Miss
    <3>2. step \in Places \ ({"viewmax"} \cup Filled) BY DEF Places, Working, Filled
    <3>3. UNCHANGED seen BY <1>8, <2>2 DEF ReadHP
    <3> QED BY <1>4, <3>1, <3>2, <3>3
  <2> QED BY <2>1, <2>2
\* The maximum is there, and is read.
<1>9. ASSUME NEW r \in Requests, ReadMax(r) PROVE MaxStays'
  <2>1. /\ req[r].at = "viewmax" /\ Goto(r, "viewstate") /\ UNCHANGED keys
        /\ seen' = [seen EXCEPT ![r].max = maxhp.val]
    BY <1>9 DEF ReadMax
  <2>2. "viewstate" \in Places BY DEF Places, Working
  <2>3. req'[r].at = "viewstate" /\ \A x \in Requests : x # r => req'[x] = req[x]
    BY <1>2, <2>1, <2>2, GotoDoes
  <2>4. maxhp.there /\ maxhp.val = MaxHP BY <2>1 DEF MaxStays
  <2>5. seen'[r].max = MaxHP /\ \A x \in Requests : x # r => seen'[x] = seen[x]
    BY <1>2, <2>1, <2>4
  <2> QED BY <1>1, <2>3, <2>5 DEF MaxStays, Filled
<1>10. ASSUME NEW r \in Requests, ReadStateKey(r) PROVE MaxStays'
  <2>1. /\ req[r].at = "viewstate" /\ Goto(r, "shown")
        /\ seen' = [seen EXCEPT ![r].state = state.val]
    BY <1>10 DEF ReadStateKey
  <2>2. "shown" \in Places BY DEF Places
  <2>3. req'[r].at = "shown" /\ \A x \in Requests : x # r => req'[x] = req[x]
    BY <1>2, <2>1, <2>2, GotoDoes
  <2>4. \A x \in Requests : seen'[x].max = seen[x].max BY <1>2, <2>1
  <2> QED BY <1>1, <2>1, <2>3, <2>4 DEF MaxStays, Filled
<1>11. ASSUME NEW r \in Hits, NEW p \in Players, NEW a \in 1 .. MaxHP, Apply(r, p, a)
       PROVE  MaxStays'
  <2>1. UNCHANGED seen BY <1>11, ApplyDoes
  <2>2. PICK step \in {"landed", "idle", "404", "readstate"} : Goto(r, step)
    BY <1>11, ApplyDoes DEF Miss
  <2>3. step \in Places \ ({"viewmax"} \cup Filled) BY DEF Places, Working, Filled
  <2> QED BY <1>2, <1>4, <2>1, <2>2, <2>3
<1>12. ASSUME NEW r \in Hits, Undo(r) PROVE MaxStays'
  <2>1. Goto(r, "idle") /\ UNCHANGED seen BY <1>12 DEF Undo, found
  <2>2. "idle" \in Places \ ({"viewmax"} \cup Filled) BY DEF Places, Filled
  <2> QED BY <1>2, <1>4, <2>1, <2>2
<1>13. ASSUME NEW B \in SUBSET Landeds, Store(B) PROVE MaxStays'
  <2>1. \A r \in Requests : req'[r] = Idle \/ req'[r] = req[r] BY <1>2, <1>13, StoreDoes
  <2>2. UNCHANGED seen BY <1>13 DEF Store, found
  <2> QED BY <1>1, <2>1, <2>2 DEF MaxStays, Idle, Filled
<1>14. ASSUME Tick PROVE MaxStays'
  <2>1. \A r \in Requests : req'[r].at = req[r].at BY <1>2, <1>14, TickLeft
  <2>2. UNCHANGED seen BY <1>14 DEF Tick, found
  <2> QED BY <1>1, <2>1, <2>2 DEF MaxStays
<1>15. ASSUME UNCHANGED <<req, seen>> PROVE MaxStays'
  BY <1>1, <1>15 DEF MaxStays
<1>16. ASSUME NEW r, NEW p, NEW a, Unheard(r, p, a) PROVE MaxStays'
  BY <1>15, <1>16 DEF Unheard, found
<1>17. ASSUME UNCHANGED vars PROVE MaxStays'
  BY <1>15, <1>17 DEF vars, found
<1> QED
  BY <1>5, <1>6, <1>7, <1>8, <1>9, <1>10, <1>11, <1>12, <1>13, <1>14, <1>16, <1>17
  DEF Next, Step

(***************************************************************************)
(* "max_hp stays persistent" (Rehydrate): a view that has read an HP has   *)
(* the maximum too, whatever hits, rebuilds and lapses come between the    *)
(* two reads.                                                              *)
(***************************************************************************)
THEOREM ViewsAreWhole == Spec => []ViewHasMax
<1>1. Init => TypeOK /\ Landing /\ MaxStays
  <2> SUFFICES ASSUME Init PROVE MaxStays
    BY InitTyped
  <2> QED BY DEF Init, MaxStays, Missing, Idle, Filled
<1>2. TypeOK /\ Landing /\ MaxStays /\ [Next]_vars => (TypeOK /\ Landing /\ MaxStays)'
  BY NextTyped, MaxStaysNext
<1>3. MaxStays => ViewHasMax BY DEF MaxStays, ViewHasMax, Requests, Filled
<1> QED BY <1>1, <1>2, <1>3, PTL DEF Spec

(***************************************************************************)
(* A boss that a request has rebuilt outlives the request.                 *)
(***************************************************************************)
Lasting == ttl = 0 \/ ttlArg > Deadline

Found(r) ==
  /\ req[r].at \notin {"404", "blank"}
  /\ Active(r) /\ req[r].tried =>
       /\ req[r].at \in {"apply", "view", "viewmax", "viewstate"}
       /\ req[r].at \in {"apply", "view"} => hp.there /\ (hp.life = 0 \/ hp.life > req[r].left)

\* Whoever writes the HP gives it the TTL.
LEMMA LifeRenewed ==
  ASSUME TypeOK, Lasting, Writes
  PROVE  /\ hp'.life \in Nat
         /\ hp' = hp \/ (hp'.there /\ (hp'.life = 0 \/ hp'.life > Deadline))
<1>1. ttl \in Nat /\ ttlArg \in Nat /\ ttlArg <= ttl BY TTLArgs DEF TypeOK
<1>2. hp'.life \in Nat BY KeyStepType DEF KeyStep, KeysTyped, Key
<1>3. ttl = 0 => ttlArg = 0 BY <1>1
<1>4. Deadline \in Nat BY KeysAssumption
<1>5. CASE UNCHANGED keys BY <1>2, <1>5 DEF keys
<1>6. ASSUME NEW p \in Players, NEW d \in Nat, Hurts(p, d) \/ Heals(p, d)
      PROVE  hp'.there /\ hp'.life = ttlArg
  <2>1. hp' = Set(hp.val - d, ttlArg) \/ hp' = Set(hp.val + d, ttlArg)
    BY <1>6, HurtWrites, HealWrites
  <2> QED BY <2>1 DEF Set
<1>7. ASSUME NEW r \in Requests, RehydrateKeys(snap[r])
      PROVE  hp'.there /\ hp'.life = ttl
  BY <1>7, RebuildWrites DEF Set
<1> QED BY <1>1, <1>2, <1>3, <1>4, <1>5, <1>6, <1>7 DEF Writes, Lasting

\* What the other steps do to the keys disturbs no request that has rebuilt the boss.
LEMMA FoundByOthers ==
  ASSUME TypeOK, Lasting, Writes, NEW r \in Requests, Found(r), req'[r] = req[r]
  PROVE  Found(r)'
<1>1. req[r].left \in 0 .. Deadline BY DEF TypeOK
<1>2. Active(r)' <=> Active(r) BY DEF Active
<1>3. Deadline \in Nat BY KeysAssumption
<1> QED BY <1>1, <1>2, <1>3, LifeRenewed DEF Found
FoundAll == Lasting => \A r \in Requests : Found(r)

LEMMA FoundStays ==
  ASSUME TypeOK, Landing, FoundAll, [Next]_vars
  PROVE  FoundAll'
<1> DEFINE Goal == \A r \in Requests : Found(r)'
<1>1. UNCHANGED ttl /\ KeyStep /\ (Tick \/ Writes) BY KeySteps
<1>2. Lasting' <=> Lasting BY <1>1 DEF Lasting, ttlArg
<1> SUFFICES ASSUME Lasting PROVE Goal
  BY <1>2 DEF FoundAll
<1>3. /\ ReqTyped /\ \A r \in Requests : Found(r) /\ req[r].left \in 0 .. Deadline
      /\ \A r \in Hits : r \in Requests
  BY TypedParts DEF FoundAll, ReqTyped, Requests
<1>4. Deadline \in Nat \ {0} /\ ttl \in Nat /\ ttlArg \in Nat /\ ttlArg <= ttl
  BY TTLArgs, KeysAssumption DEF TypeOK
\* A request that has not rebuilt the boss, or is over.
<1>5. ASSUME NEW r \in Requests, Writes, req'[r].at \notin {"404", "blank"},
             req'[r].at \in Working => ~ req'[r].tried,
             \A x \in Requests : x # r => req'[x] = req[x]
      PROVE  Goal
  <2>1. Found(r)' BY <1>5 DEF Found, Active
  <2>2. \A x \in Requests : x # r => Found(x)' BY <1>3, <1>5, FoundByOthers
  <2> QED BY <2>1, <2>2
<1>6. ASSUME NEW r \in Requests, NEW step \in Places \ {"404", "blank"}, Goto(r, step), Writes,
             step \in Working => ~ req[r].tried
      PROVE  Goal
  <2>1. /\ req'[r].at = step /\ \A x \in Requests : x # r => req'[x] = req[x]
        /\ step \in Working => req'[r].tried = req[r].tried
    BY <1>3, <1>6, GotoDoes
  <2> QED BY <1>5, <1>6, <2>1
<1>7. ASSUME NEW r \in Requests, Arrive(r), Writes PROVE Goal
  <2>1. /\ req'[r].at \in {"apply", "view"} /\ ~ req'[r].tried
        /\ \A x \in Requests : x # r => req'[x] = req[x]
    BY <1>3, <1>7, ArriveDoes
  <2> QED BY <1>5, <1>7, <2>1
<1>8. ASSUME NEW r \in Requests, Fail(r), Writes PROVE Goal
  <2>1. Goto(r, "idle") /\ "idle" \in Places \ {"404", "blank"} /\ "idle" \notin Working
    BY <1>8 DEF Fail, Places, Working
  <2> QED BY <1>6, <1>8, <2>1
<1>9. ASSUME NEW r \in Requests, ReadState(r) \/ ReadContribs(r), Writes PROVE Goal
  <2>1. /\ req[r].at \in {"readstate", "readcontribs"}
        /\ \E step \in {"readcontribs", "write"} : Goto(r, step)
    BY <1>9 DEF ReadState, ReadContribs
  <2>2. PICK step \in {"readcontribs", "write"} : Goto(r, step) BY <2>1
  <2>3. step \in Places \ {"404", "blank"} BY DEF Places, Working
  <2>4. ~ req[r].tried BY <1>3, <2>1 DEF Found, Active, Working
  <2> QED BY <1>6, <1>9, <2>2, <2>3, <2>4
\* The rebuild gives the HP a life that is longer than what the request has left.
<1>10. ASSUME NEW r \in Requests, WriteCache(r), Writes PROVE Goal
  <2>1. /\ req'[r].at \in {"apply", "view"} /\ req'[r].left = req[r].left
        /\ \A x \in Requests : x # r => req'[x] = req[x]
    BY <1>3, <1>10, ReturnsDo
  <2>2. hp' = Set(snap[r].hp, ttl) BY <1>10, RebuildWrites DEF WriteCache
  <2>3. hp'.there /\ (hp'.life = 0 \/ hp'.life > req'[r].left)
    BY <1>3, <1>4, <2>1, <2>2 DEF Set, Lasting
  <2>4. Found(r)' BY <2>1, <2>3 DEF Found
  <2>5. \A x \in Requests : x # r => Found(x)' BY <1>3, <1>10, <2>1, FoundByOthers
  <2> QED BY <2>4, <2>5
<1>11. ASSUME NEW r \in Requests, ReadHP(r), Writes PROVE Goal
  <2>1. req[r].at = "view" /\ UNCHANGED keys BY <1>11 DEF ReadHP
  <2>2. "viewmax" \in Places /\ "viewmax" \in Working /\ "readstate" \in Places
        /\ "view" \in Working
    BY DEF Places, Working
  <2>3. CASE hp.there
    <3>1. Goto(r, "viewmax") BY <1>11, <2>3 DEF ReadHP
    <3>2. req'[r].at = "viewmax" /\ \A x \in Requests : x # r => req'[x] = req[x]
      BY <1>3, <2>2, <3>1, GotoDoes
    <3>3. Found(r)' BY <3>2 DEF Found
    <3>4. \A x \in Requests : x # r => Found(x)' BY <1>3, <1>11, <3>2, FoundByOthers
    <3> QED BY <3>3, <3>4
  <2>4. CASE ~ hp.there
    <3>1. ~ req[r].tried BY <1>3, <2>1, <2>2, <2>4 DEF Found, Active
    <3>2. Goto(r, "readstate") BY <1>11, <2>4, <3>1 DEF ReadHP, Miss
    <3> QED BY <1>6, <1>11, <2>2, <3>1, <3>2
  <2> QED BY <2>3, <2>4
<1>12. ASSUME NEW r \in Requests, ReadMax(r) \/ ReadStateKey(r), Writes PROVE Goal
  <2>1. PICK step \in {"viewstate", "shown"} : Goto(r, step)
    BY <1>12 DEF ReadMax, ReadStateKey
  <2>2. step \in Places BY DEF Places, Working
  <2>3. req'[r].at = step /\ \A x \in Requests : x # r => req'[x] = req[x]
    BY <1>3, <2>1, <2>2, GotoDoes
  <2>4. Found(r)' BY <2>3 DEF Found, Active, Working
  <2>5. \A x \in Requests : x # r => Found(x)' BY <1>3, <1>12, <2>3, FoundByOthers
  <2> QED BY <2>4, <2>5
<1>13. ASSUME NEW r \in Hits, NEW p \in Players, NEW a \in 1 .. MaxHP, Apply(r, p, a), Writes
       PROVE  Goal
  <2>1. r \in Requests /\ req[r].at = "apply" BY <1>3, <1>13, ApplyDoes
  <2>2. /\ "landed" \in Places /\ "idle" \in Places /\ "readstate" \in Places
        /\ "landed" \notin Working /\ "idle" \notin Working /\ "apply" \in Working
    BY DEF Places, Working
  <2>3. CASE Goto(r, "landed") \/ Goto(r, "idle") BY <1>6, <1>13, <2>1, <2>2, <2>3
  <2>4. CASE ~ hp.there /\ Miss(r, "404")
    <3>1. ~ req[r].tried BY <1>3, <2>1, <2>2, <2>4 DEF Found, Active
    <3>2. Goto(r, "readstate") BY <2>4, <3>1 DEF Miss
    <3> QED BY <1>6, <1>13, <2>1, <2>2, <3>1, <3>2
  <2> QED BY <1>13, <2>3, <2>4, ApplyDoes
<1>14. ASSUME NEW r \in Hits, Undo(r), Writes PROVE Goal
  <2>1. Goto(r, "idle") /\ "idle" \in Places \ {"404", "blank"} /\ "idle" \notin Working
    BY <1>14 DEF Undo, Places, Working
  <2> QED BY <1>3, <1>6, <1>14, <2>1
<1>15. ASSUME NEW B \in SUBSET Landeds, Store(B), Writes PROVE Goal
  <2>1. \A r \in Requests : req'[r] = Idle \/ req'[r] = req[r] BY <1>3, <1>15, StoreDoes
  <2>2. ASSUME NEW r \in Requests, req'[r] = Idle PROVE Found(r)'
    BY <2>2 DEF Found, Active, Idle, Working
  <2>3. \A r \in Requests : req'[r] = req[r] => Found(r)' BY <1>3, <1>15, FoundByOthers
  <2> QED BY <2>1, <2>2, <2>3
\* Time passes for the request and for the HP alike.
<1>16. ASSUME Tick PROVE Goal
  <2> SUFFICES ASSUME NEW r \in Requests PROVE Found(r)'
    OBVIOUS
  <2>1. /\ req'[r].at = req[r].at /\ req'[r].tried = req[r].tried
        /\ Active(r) => req[r].left > 0 /\ req'[r].left = req[r].left - 1
    BY <1>3, <1>16, TickLeft
  <2>2. hp \in Key(Nat) /\ hp' = Aged(hp, 0) /\ hp.life \in Nat
    BY <1>16 DEF Tick, TypeOK, Key
  <2>3. hp.life = 0 => hp' = hp BY <2>2, AgedType
  <2>4. hp.life > 1 => hp'.there = hp.there /\ hp'.life = hp.life - 1 BY <2>2, AgedType
  <2>5. Active(r)' <=> Active(r) BY <2>1 DEF Active
  <2>6. ASSUME Active(r), req[r].tried, req[r].at \in {"apply", "view"}
        PROVE  hp'.there /\ (hp'.life = 0 \/ hp'.life > req'[r].left)
    <3>1. hp.there /\ (hp.life = 0 \/ hp.life > req[r].left) BY <1>3, <2>6 DEF Found
    <3>2. /\ req[r].left \in Int /\ req[r].left > 0 /\ req'[r].left = req[r].left - 1
      BY <1>3, <1>4, <2>1, <2>6
    <3>3. CASE hp.life = 0 BY <2>3, <3>1, <3>3
    <3>4. CASE hp.life > req[r].left
      <4>1. hp.life > 1 BY <2>2, <3>2, <3>4
      <4>2. hp'.life > req'[r].left BY <2>2, <2>4, <3>2, <3>4, <4>1
      <4> QED BY <2>4, <3>1, <4>1, <4>2
    <3> QED BY <3>1, <3>3, <3>4
  <2> QED BY <1>3, <2>1, <2>5, <2>6 DEF Found
<1>17. ASSUME UNCHANGED req, Writes PROVE Goal
  BY <1>3, <1>17, FoundByOthers
<1>18. ASSUME NEW r, NEW p, NEW a, Unheard(r, p, a), Writes PROVE Goal
  BY <1>17, <1>18 DEF Unheard
<1>19. ASSUME UNCHANGED vars, Writes PROVE Goal
  BY <1>17, <1>19 DEF vars
<1> QED
  BY <1>1, <1>7, <1>8, <1>9, <1>10, <1>11, <1>12, <1>13, <1>14, <1>15, <1>16, <1>18, <1>19
  DEF Next, Step

(***************************************************************************)
(* With a TTL longer than the router's timeout, or none, a boss that a     *)
(* request has rebuilt is there when it looks again: no 404, no blank view *)
(* (applyWithRehydrate, Get), however many requests write the same keys.   *)
(***************************************************************************)
THEOREM RebuiltIsFound == Spec => []FoundAfterRebuild
<1>1. Init => TypeOK /\ Landing /\ FoundAll
  <2> SUFFICES ASSUME Init PROVE FoundAll
    BY InitTyped
  <2> QED BY DEF Init, FoundAll, Found, Active, Working, Idle
<1>2. TypeOK /\ Landing /\ FoundAll /\ [Next]_vars => (TypeOK /\ Landing /\ FoundAll)'
  BY NextTyped, FoundStays
<1>3. FoundAll => FoundAfterRebuild BY DEF FoundAll, Found, Lasting, FoundAfterRebuild
<1> QED BY <1>1, <1>2, <1>3, PTL DEF Spec
(***************************************************************************)
(* One boss.  Under a TTL of whole seconds the keys of a boss that is      *)
(* there live as long as its HP (LivesAgree): they lapse with it, and so   *)
(* every statement, and every tick, does to the keys what a step of        *)
(* BossCache does to its one boss.                                         *)
(***************************************************************************)
LivesAgree ==
  /\ hp.there => /\ state.there /\ state.life = hp.life
                 /\ lb.there => lb.life = hp.life
  /\ ~ lb.there => lb = Missing(NoDamage)
  /\ ttl = 0 => hp.life = 0

LEMMA ScoresLife ==
  ASSUME ttl \in TTLs, NEW val \in [Players -> Nat], NEW life \in Nat, ttlArg = 0 => life = 0
  PROVE  LET key == Renewed(Scores(val, life))
         IN  /\ key.there => key.life = ttlArg
             /\ ~ key.there => key = Missing(NoDamage)
BY TTLArgs DEF Scores, Renewed, Expire, Missing, Set

LEMMA LivesStay ==
  ASSUME TypeOK, Whole, LivesAgree, UNCHANGED ttl, KeyStep
  PROVE  LivesAgree'
<1>1. /\ hp \in Key(Nat) /\ state \in Key(BossStates) /\ lb \in Key([Players -> Nat])
      /\ hp.life \in Nat /\ state.life \in Nat /\ lb.life \in Nat /\ lb.there \in BOOLEAN
      /\ ttl \in TTLs
  BY DEF TypeOK, Key
<1>2. ttl \in Nat /\ ttlArg = ttl /\ expireArg = ttl BY <1>1, TTLArgs
<1>3. CASE UNCHANGED keys BY <1>3 DEF LivesAgree, keys
\* A script: what it does not SET it renews.
<1>4. ASSUME hp.there, hp'.there, hp'.life = ttlArg, NEW val \in [Players -> Nat],
             lb' = Renewed(Scores(val, lb.life)),
             state'.there, state'.life = ttlArg
      PROVE  LivesAgree'
  <2>1. ttlArg = 0 => lb.life = 0
    <3>1. CASE lb.there BY <1>2, <1>4, <3>1 DEF LivesAgree
    <3>2. CASE ~ lb.there BY <3>2 DEF LivesAgree, Missing
    <3> QED BY <3>1, <3>2
  <2>2. /\ lb'.there => lb'.life = ttlArg
        /\ ~ lb'.there => lb' = Missing(NoDamage)
    BY <1>1, <1>4, <2>1, ScoresLife
  <2>3. ttl' = 0 => hp'.life = 0 BY <1>2, <1>4
  <2> QED BY <1>4, <2>2, <2>3 DEF LivesAgree, Missing, NoDamage
<1>5. ASSUME NEW p \in Players, NEW d \in Nat, Hurts(p, d) PROVE LivesAgree'
  <2>1. /\ hp' = Set(hp.val - d, ttlArg)
        /\ state' = IF hp.val = d THEN Set("defeated", ttlArg) ELSE Renewed(state)
        /\ lb' = Renewed(Scores(Hurt(cacheOf, p, d).lb, lb.life))
        /\ cacheOf' = Hurt(cacheOf, p, d) /\ KeysTyped'
    BY <1>5, HurtWrites
  <2>2. hp.there /\ state.there /\ state.life = hp.life /\ (ttlArg = 0 => state.life = 0)
    BY <1>2, <1>5 DEF Hurts, LivesAgree
  <2>3. state'.there /\ state'.life = ttlArg
    BY <1>1, <1>2, <2>1, <2>2, RenewedType DEF Set
  <2>4. hp'.there /\ hp'.life = ttlArg BY <2>1 DEF Set
  <2>5. Hurt(cacheOf, p, d).lb \in [Players -> Nat]
    <3>1. cacheOf'.lb = lb'.val BY <2>4 DEF cacheOf
    <3> QED BY <2>1, <3>1 DEF KeysTyped, Key
  <2> QED BY <1>4, <2>1, <2>2, <2>3, <2>4, <2>5
<1>6. ASSUME NEW p \in Players, NEW d \in Nat, Heals(p, d) PROVE LivesAgree'
  <2>1. /\ hp' = Set(hp.val + d, ttlArg) /\ state' = Set("alive", ttlArg)
        /\ \E val \in [Players -> Nat] : lb' = Renewed(Scores(val, lb.life))
    BY <1>6, HealWrites
  <2>2. /\ hp'.there /\ hp'.life = ttlArg /\ state'.there /\ state'.life = ttlArg
        /\ hp.there
    BY <1>6, <2>1 DEF Set, Heals
  <2> QED BY <1>4, <2>1, <2>2
<1>7. ASSUME NEW r \in Requests, RehydrateKeys(snap[r]) PROVE LivesAgree'
  <2>1. /\ hp' = Set(snap[r].hp, ttl) /\ state' = Set(snap[r].state, ttl)
        /\ lb' = Scores(snap[r].contrib, ttl)
    BY <1>2, <1>7, RebuildWrites
  <2>2. /\ hp'.there /\ hp'.life = ttl /\ state'.there /\ state'.life = ttl
        /\ lb'.there => lb'.life = ttl
        /\ ~ lb'.there => lb' = Missing(NoDamage)
    BY <2>1 DEF Set, Scores, Missing
  <2> QED BY <2>2 DEF LivesAgree, Missing, NoDamage
<1>8. ASSUME Ages PROVE LivesAgree'
  <2>1. "alive" \in BossStates /\ NoDamage \in [Players -> Nat] BY DEF BossStates, NoDamage
  <2>2. hp' = Aged(hp, 0) /\ state' = Aged(state, "alive") /\ lb' = Aged(lb, NoDamage)
    BY <1>8 DEF Ages
  <2>3. /\ hp.life = 0 => hp' = hp
        /\ hp.life = 1 => hp' = Missing(0)
        /\ hp.life > 1 => hp'.there = hp.there /\ hp'.life = hp.life - 1
    BY <1>1, <2>2, AgedType
  <2>4. /\ state.life = 0 => state' = state
        /\ state.life > 1 => state'.there = state.there /\ state'.life = state.life - 1
    BY <1>1, <2>1, <2>2, AgedType
  <2>5. /\ lb.life = 0 => lb' = lb
        /\ lb.life = 1 => lb' = Missing(NoDamage)
        /\ lb.life > 1 => lb'.there = lb.there /\ lb'.life = lb.life - 1
    BY <1>1, <2>1, <2>2, AgedType
  <2>6. ~ lb.there => lb.life = 0 /\ lb = Missing(NoDamage) BY DEF LivesAgree, Missing
  <2>7. ~ lb'.there => lb' = Missing(NoDamage)
    BY <1>1, <2>5, <2>6
  <2>8. hp'.there => /\ hp.there
                     /\ \/ hp.life = 0 /\ hp'.life = 0
                        \/ hp.life > 1 /\ hp'.life = hp.life - 1
    <3>1. CASE hp.life = 0 BY <2>3, <3>1
    <3>2. CASE hp.life = 1 BY <2>3, <3>2 DEF Missing
    <3>3. CASE hp.life > 1 BY <2>3, <3>3
    <3> QED BY <1>1, <3>1, <3>2, <3>3
  <2>9. hp'.there => state'.there /\ state'.life = hp'.life
    BY <1>1, <2>4, <2>8 DEF LivesAgree
  <2>10. hp'.there /\ lb'.there => lb'.life = hp'.life
    <3> SUFFICES ASSUME hp'.there, lb'.there PROVE lb'.life = hp'.life
      OBVIOUS
    <3>1. lb.there
      <4> SUFFICES ASSUME ~ lb.there PROVE FALSE
        OBVIOUS
      <4>1. lb' = Missing(NoDamage) BY <2>5, <2>6
      <4> QED BY <4>1 DEF Missing
    <3>2. lb.life = hp.life BY <2>8, <3>1 DEF LivesAgree
    <3>3. CASE hp.life = 0 /\ hp'.life = 0 BY <2>5, <3>2, <3>3
    <3>4. CASE hp.life > 1 /\ hp'.life = hp.life - 1 BY <2>5, <3>2, <3>4
    <3> QED BY <2>8, <3>3, <3>4
  <2>11. ttl' = 0 => hp'.life = 0 BY <2>3 DEF LivesAgree
  <2> QED BY <2>7, <2>9, <2>10, <2>11 DEF LivesAgree, Missing, NoDamage
<1> QED BY <1>3, <1>5, <1>6, <1>7, <1>8 DEF KeyStep, Writes

(***************************************************************************)
(* BossCache's copies of the operators of BossStore.                       *)
(***************************************************************************)
LEMMA OneBossOps ==
  /\ OneBoss!Cold = Cold
  /\ \A c, p, d : OneBoss!DamageScript(c, p, d) = DamageScript(c, p, d)
  /\ \A c, p, d : OneBoss!CompensateScript(c, p, d) = CompensateScript(c, p, d)
  /\ \A h, s, b : OneBoss!Rehydrate(h, s, b) = Rehydrate(h, s, b)
BY DEF OneBoss!Cold, Cold, OneBoss!NoDamage, NoDamage,
       OneBoss!DamageScript, DamageScript, OneBoss!Landed, Landed, OneBoss!Hurt, Hurt,
       OneBoss!CompensateScript, CompensateScript, OneBoss!Rehydrate, Rehydrate

\* A hit of which all d points land.
LEMMA HurtIsHit ==
  ASSUME NEW c \in Cache, c.loaded, NEW p, NEW d \in Nat, 0 < d, d <= c.hp
  PROVE  DamageScript(c, p, d).cache = Hurt(c, p, d)
<1>1. c.hp \in Nat BY DEF Cache
<1>2. Landed(c, d) = d BY <1>1 DEF Landed
<1>3. DamageScript(c, p, d) = [status |-> "applied", applied |-> Landed(c, d),
                               cache |-> Hurt(c, p, Landed(c, d))]
  BY <1>1 DEF DamageScript
<1> QED BY <1>2, <1>3

LEMMA OneBossStep ==
  ASSUME TypeOK, Whole, LivesAgree, KeyStep
  PROVE  OneBoss!Next \/ UNCHANGED cacheOf
<1>1. /\ hp \in Key(Nat) /\ state \in Key(BossStates) /\ lb \in Key([Players -> Nat])
      /\ hp.life \in Nat /\ state.life \in Nat /\ lb.life \in Nat
      /\ hp.there \in BOOLEAN /\ hp.val \in Nat
  BY DEF TypeOK, Key
<1>2. CASE UNCHANGED keys BY <1>2 DEF keys, cacheOf
<1>3. ASSUME NEW p \in Players, NEW d \in Nat, Hurts(p, d) PROVE OneBoss!Next
  <2>1. /\ cacheOf' = Hurt(cacheOf, p, d) /\ d \in 1 .. MaxHP
        /\ 0 < d /\ d <= hp.val /\ hp.there
    BY <1>3, HurtWrites, StoreAssumption DEF Hurts
  <2>2. cacheOf \in Cache /\ cacheOf.loaded /\ cacheOf.hp = hp.val
    BY <2>1, CacheType DEF cacheOf
  <2>3. cacheOf' = DamageScript(cacheOf, p, d).cache BY <2>1, <2>2, HurtIsHit
  <2>4. OneBoss!Hit(p, d) BY <2>3, OneBossOps DEF OneBoss!Hit
  <2> QED BY <2>1, <2>4 DEF OneBoss!Next
<1>4. ASSUME NEW p \in Players, NEW d \in Nat, Heals(p, d) PROVE OneBoss!Next
  <2>1. cacheOf' = CompensateScript(cacheOf, p, d) /\ d \in 1 .. MaxHP
    BY <1>4, HealWrites, StoreAssumption DEF Heals
  <2>2. OneBoss!Undo(p, d) BY <2>1, OneBossOps DEF OneBoss!Undo
  <2> QED BY <2>1, <2>2 DEF OneBoss!Next
<1>5. ASSUME NEW r \in Requests, req[r].at = "write", RehydrateKeys(snap[r]) PROVE OneBoss!Next
  <2>1. cacheOf' = Rehydrate(snap[r].hp, snap[r].state, snap[r].contrib)
    BY <1>5, RebuildWrites
  <2>2. OneBoss!Rebuild(snap[r]) BY <2>1, OneBossOps DEF OneBoss!Rebuild
  <2>3. snap[r] \in {snap[x] : x \in {y \in Requests : req[y].at = "write"}} BY <1>5
  <2> QED BY <2>2, <2>3 DEF OneBoss!Next
<1>6. ASSUME Ages PROVE OneBoss!Next \/ UNCHANGED cacheOf
  <2>1. "alive" \in BossStates /\ NoDamage \in [Players -> Nat] BY DEF BossStates, NoDamage
  <2>2. hp' = Aged(hp, 0) /\ state' = Aged(state, "alive") /\ lb' = Aged(lb, NoDamage)
    BY <1>6 DEF Ages
  <2>3. CASE ~ hp'.there
    <3>1. cacheOf' = Cold BY <2>3 DEF cacheOf, Cold, NoDamage
    <3>2. OneBoss!Lapse BY <3>1, OneBossOps DEF OneBoss!Lapse
    <3> QED BY <3>2 DEF OneBoss!Next
  <2>4. CASE hp'.there
    <3>1. hp.there /\ hp.life # 1 /\ hp'.val = hp.val
      BY <1>1, <2>2, <2>4, AgedType DEF Missing
    <3>2. state.life # 1 /\ lb.life # 1 BY <3>1 DEF LivesAgree, Missing
    <3>3. state'.val = state.val BY <1>1, <2>1, <2>2, <3>2, AgedType
    <3>4. lb'.val = lb.val BY <1>1, <2>1, <2>2, <3>2, AgedType
    <3> QED BY <2>4, <3>1, <3>3, <3>4 DEF cacheOf
  <2> QED BY <2>3, <2>4
<1> QED BY <1>2, <1>3, <1>4, <1>5, <1>6 DEF KeyStep, Writes

(***************************************************************************)
(* With a TTL of whole seconds the four keys, each with a life of its own, *)
(* implement the one boss that BossStore and DamageService work on.        *)
(***************************************************************************)
THEOREM FourKeysOneBoss == Spec => KeysAreOneBoss
<1> DEFINE IInv == TypeOK /\ Landing /\ (Whole => LivesAgree)
<1>1. Init => IInv /\ OneBoss!Init
  <2> SUFFICES ASSUME Init PROVE IInv /\ OneBoss!Init
    OBVIOUS
  <2>1. TypeOK /\ Landing BY InitTyped
  <2>2. LivesAgree BY DEF Init, LivesAgree, Missing
  <2>3. cacheOf = Cold BY DEF Init, cacheOf, Missing
  <2>4. OneBoss!Init BY <2>3, OneBossOps DEF OneBoss!Init
  <2> QED BY <2>1, <2>2, <2>4
<1>2. IInv /\ [Next]_vars => IInv' /\ [Whole => OneBoss!Next]_cacheOf
  <2> SUFFICES ASSUME IInv, [Next]_vars PROVE IInv' /\ [Whole => OneBoss!Next]_cacheOf
    OBVIOUS
  <2>1. TypeOK' /\ Landing' BY NextTyped
  <2>2. UNCHANGED ttl /\ KeyStep BY KeySteps
  <2>3. Whole' <=> Whole BY <2>2 DEF Whole
  <2>4. Whole => LivesAgree' BY <2>2, LivesStay
  <2>5. Whole => OneBoss!Next \/ UNCHANGED cacheOf BY <2>2, OneBossStep
  <2> QED BY <2>1, <2>3, <2>4, <2>5
<1> QED BY <1>1, <1>2, PTL DEF Spec, KeysAreOneBoss
=============================================================================
