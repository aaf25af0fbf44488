------------------------ MODULE DamageLedgerProofs ------------------------
(***************************************************************************)
(* The durable side of DamageService: what the ledger holds under every    *)
(* fault, that the cache built from it never contradicts itself, and by    *)
(* how much the two may differ.                                            *)
(***************************************************************************)
EXTENDS DamageServiceProofs

(***************************************************************************)
(* A step either leaves the stored events, the ledger and the damage of    *)
(* the stored hits alone, or stores one batch that nobody had stored.      *)
(***************************************************************************)
Kept == /\ UNCHANGED <<ledger, events, player>>
        /\ \A h \in events : applied'[h] = applied[h]

Booked == \E B \in SUBSET Hits : /\ B \cap events = {}
                                 /\ Store(B)
                                 /\ UNCHANGED <<player, applied>>

LEMMA KeptOrBooked == Custody /\ [Next]_vars => Kept \/ Booked
<1> SUFFICES ASSUME Custody, [Next]_vars PROVE Kept \/ Booked
  OBVIOUS
<1> USE DEF request, durable, handler
<1>1. CASE \E h \in Hits : Handle(h)
  <2>1. PICK h \in Hits : Handle(h) BY <1>1
  <2>2. UNCHANGED <<ledger, events, player>>
    BY <2>1 DEF Handle, Arrive, Apply, Reapply, ApplyFails, Submit, Await, Cancelled, Undo,
                UndoFails
  <2>3. applied \in [Hits -> Nat] /\ events \subseteq Hits BY DEF Custody, TypeOK
  <2>4. CASE pc[h] \in {"apply", "reapply"}
    <3>1. h \notin events BY <2>4 DEF Custody, HandedOver, Handed
    <3>2. applied' = applied \/ \E d : applied' = [applied EXCEPT ![h] = d]
      BY <2>1 DEF Handle, Arrive, Apply, Reapply, ApplyFails, Submit, Await, Cancelled,
                  Undo, UndoFails
    <3> QED BY <2>2, <2>3, <3>1, <3>2 DEF Kept
  <2>5. CASE pc[h] \notin {"apply", "reapply"}
    BY <2>1, <2>2, <2>5 DEF Handle, Arrive, Apply, Reapply, ApplyFails, Submit, Await,
                            Cancelled, Undo, UndoFails, Kept
  <2> QED BY <2>4, <2>5
<1>2. CASE \E r \in Rebuilders : Rebuild(r)
  BY <1>2 DEF Rebuild, ReadState, ReadContribs, WriteCache, RebuildFails, Kept
<1>3. CASE \E w \in Committers : Commit(w)
  <2>1. PICK w \in Committers : Commit(w) BY <1>3
  <2>2. CASE CommitOK(w)
    <3>1. batch[w] \in SUBSET Hits /\ batch[w] \cap events = {}
      BY <2>2 DEF CommitOK, Custody, TypeOK, OneHome
    <3> QED BY <2>2, <3>1 DEF CommitOK, Booked
  <2>3. CASE ~ CommitOK(w)
    BY <2>1, <2>3 DEF Commit, Receive, Flush, CommitFails, CommitUnknown, Release, Kept
  <2> QED BY <2>2, <2>3
<1>4. CASE \E B \in limbo : LateCommit(B) \/ LateAbort(B)
  <2>1. PICK B \in limbo : LateCommit(B) \/ LateAbort(B) BY <1>4
  <2>2. B \in SUBSET Hits /\ B \cap events = {}
    BY DEF Custody, TypeOK, OneHome
  <2> QED BY <2>1, <2>2 DEF LateCommit, LateAbort, Booked, Kept
<1>5. CASE Expire \/ Seed \/ Crash \/ Restart
  BY <1>5 DEF Expire, Seed, Crash, Restart, Kept
<1>6. CASE \/ \E g \in Getters : Get(g)
           \/ \E k \in Workers : Heal(k)
           \/ UNCHANGED vars
  BY <1>6 DEF Get, Heal, TakeReconcile, Settle, vars, Kept
<1> QED BY <1>1, <1>2, <1>3, <1>4, <1>5, <1>6 DEF Next, Environment, Idle

(***************************************************************************)
(* contributions is the audit log by player; current_hp and state follow.  *)
(***************************************************************************)
LEMMA InitLedger == Init => LedgerConsistent
<1> SUFFICES ASSUME Init PROVE LedgerConsistent
  OBVIOUS
<1>1. \A p \in Players : Total(applied, {h \in {} : player[h] = p}) = 0
  <2> TAKE p \in Players
  <2>1. {h \in {} : player[h] = p} = {} OBVIOUS
  <2> QED BY <2>1, TotalEmpty
<1>2. TotalBy(applied, player, {}, Players) = NoDamage
  BY <1>1 DEF TotalBy, NoDamage
<1> QED BY <1>2, UntouchedType DEF Init, LedgerConsistent, Untouched

LEMMA NextLedger ==
  Custody /\ LedgerConsistent /\ [Next]_vars => LedgerConsistent'
<1> SUFFICES ASSUME Custody, LedgerConsistent, [Next]_vars PROVE LedgerConsistent'
  OBVIOUS
<1>1. /\ ledger \in Ledger
      /\ player \in [Hits -> Players] /\ applied \in [Hits -> Nat]
      /\ events \subseteq Hits
  BY DEF Custody, TypeOK
<1>2. CASE Kept
  <2>1. \A p \in Players : Total(applied', {h \in events : player[h] = p})
                             = Total(applied, {h \in events : player[h] = p})
    <3> TAKE p \in Players
    <3>1. \A h \in {x \in events : player[x] = p} : applied'[h] = applied[h]
      BY <1>2 DEF Kept
    <3> QED BY <3>1, TotalCong
  <2>2. TotalBy(applied', player, events, Players) = TotalBy(applied, player, events, Players)
    BY <2>1 DEF TotalBy
  <2>3. ledger.contrib = TotalBy(applied, player, events, Players) /\ LedgerAgrees(ledger)
    BY DEF LedgerConsistent
  <2>4. ledger' = ledger /\ events' = events /\ player' = player
    BY <1>2 DEF Kept
  <2>5. LedgerAgrees(ledger') BY <2>3, <2>4
  <2> QED BY <2>2, <2>3, <2>4, <2>5 DEF LedgerConsistent, LedgerAgrees
<1>3. CASE Booked
  <2>1. PICK B \in SUBSET Hits : /\ B \cap events = {}
                                 /\ Store(B)
                                 /\ UNCHANGED <<player, applied>>
    BY <1>3 DEF Booked
  <2>2. IsFiniteSet(B) /\ IsFiniteSet(events)
    BY <1>1, ServiceAssumption, FS_Subset
  <2>3. (\A h \in B : player[h] \in Players) /\ (\A h \in B : applied[h] \in Nat)
    BY <1>1
  <2>4. /\ ledger'.contrib = [p \in Players |->
             ledger.contrib[p] + TotalBy(applied, player, B, Players)[p]]
        /\ LedgerAgrees(ledger) => LedgerAgrees(ledger')
    <3> DEFINE m == CommitBatch(ledger, B, player, applied)
    <3>1. m.contrib = [p \in Players |->
               ledger.contrib[p] + TotalBy(applied, player, B, Players)[p]]
      BY DEF CommitBatch
    <3>2. LedgerAgrees(ledger) => LedgerAgrees(m)
      BY <1>1, <2>2, <2>3, CommitBatchAgrees
    <3>3. ledger' = m BY <2>1 DEF Store
    <3> HIDE DEF m
    <3> QED BY <3>1, <3>2, <3>3
  <2>5. events \cap B = {} /\ \A h \in events \cup B : applied[h] \in Nat
    BY <1>1, <2>1
  <2>6. TotalBy(applied, player, events \cup B, Players)
          = [p \in Players |-> TotalBy(applied, player, events, Players)[p]
                                 + TotalBy(applied, player, B, Players)[p]]
    BY <2>2, <2>5, TotalByUnion
  <2>7. events' = events \cup B /\ player' = player /\ applied' = applied
    BY <2>1 DEF Store
  <2>8. ledger'.contrib = TotalBy(applied', player', events', Players)
    BY <2>4, <2>6, <2>7 DEF LedgerConsistent
  <2>9. LedgerAgrees(ledger')
    BY <2>4 DEF LedgerConsistent
  <2> QED BY <2>8, <2>9 DEF LedgerConsistent, LedgerAgrees
<1> QED BY <1>2, <1>3, KeptOrBooked

(***************************************************************************)
(* Whatever fails, damage_events, contributions and bosses agree: this is  *)
(* what qa/durability/verify_invariant.sh asks of a stopped service.       *)
(***************************************************************************)
THEOREM BooksBalance == Spec => []LedgerConsistent
<1>1. Init => LedgerConsistent BY InitLedger
<1>2. Custody /\ LedgerConsistent /\ [Next]_vars => LedgerConsistent'
  BY NextLedger
<1> QED BY <1>1, <1>2, CustodyHolds, PTL DEF Spec

(***************************************************************************)
(* Stored events stay, totals grow, HP falls, and a defeated boss stays    *)
(* defeated.                                                               *)
(***************************************************************************)
THEOREM DurableOnlyGrows == Spec => DurableGrows
<1> DEFINE Grows == /\ events \subseteq events'
                    /\ \A p \in Players : ledger.contrib[p] <= ledger'.contrib[p]
                    /\ ledger'.hp <= ledger.hp
                    /\ ledger.state = "defeated" => ledger'.state = "defeated"
<1>1. Custody /\ [Next]_vars => [Grows]_vars
  <2> SUFFICES ASSUME Custody, [Next]_vars PROVE Grows
    OBVIOUS
  <2>1. /\ ledger \in Ledger
        /\ player \in [Hits -> Players] /\ applied \in [Hits -> Nat]
    BY DEF Custody, TypeOK
  <2>2. /\ ledger.hp \in Nat /\ \A p \in Players : ledger.contrib[p] \in Nat
    BY <2>1 DEF Ledger
  <2>3. CASE Kept BY <2>2, <2>3 DEF Kept
  <2>4. CASE Booked
    <3>1. PICK B \in SUBSET Hits : Store(B) BY <2>4 DEF Booked
    <3>2. IsFiniteSet(B) BY ServiceAssumption, FS_Subset
    <3>3. \A h \in B : applied[h] \in Nat BY <2>1
    <3>4. Total(applied, B) \in Nat
          /\ TotalBy(applied, player, B, Players) \in [Players -> Nat]
      BY <3>2, <3>3, TotalNat, TotalByType
    <3>5. /\ events' = events \cup B
          /\ ledger'.contrib = [p \in Players |->
               ledger.contrib[p] + TotalBy(applied, player, B, Players)[p]]
          /\ ledger'.hp = IF ledger.hp >= Total(applied, B)
                            THEN ledger.hp - Total(applied, B) ELSE 0
          /\ ledger'.state = IF ledger.hp - Total(applied, B) <= 0
                               THEN "defeated" ELSE ledger.state
      BY <3>1 DEF Store, CommitBatch
    <3> QED BY <2>2, <3>4, <3>5
  <2> QED BY <2>3, <2>4, KeptOrBooked
<1> QED BY <1>1, CustodyHolds, PTL DEF Spec, DurableGrows

(***************************************************************************)
(* The cache agrees with itself because what a rebuild has read does.      *)
(***************************************************************************)
SaneSnaps ==
  \A r \in Rebuilders :
    snap[r].step \in {"contribs", "write"} => (snap[r].state = "defeated" <=> snap[r].hp = 0)

Sane == Custody /\ LedgerConsistent /\ CacheSane /\ SaneSnaps

LEMMA InitSane == Init => CacheSane /\ SaneSnaps
BY DEF Init, CacheSane, CacheAgrees, Cold, SaneSnaps, NoSnap, Begun

LEMMA NextSane == Sane /\ [Next]_vars => CacheSane' /\ SaneSnaps'
<1> SUFFICES ASSUME Sane, [Next]_vars PROVE CacheSane' /\ SaneSnaps'
  OBVIOUS
<1> USE DEF handler
<1>1. /\ cache \in Cache /\ snap \in [Rebuilders -> Snap]
      /\ player \in [Hits -> Players] /\ amount \in [Hits -> Int]
      /\ applied \in [Hits -> Nat]
  BY ServiceAssumption DEF Sane, Custody, TypeOK
<1>2. CASE UNCHANGED snap /\ (cache' = cache \/ CacheAgrees(cache'))
  <2>1. SaneSnaps' BY <1>2 DEF Sane, SaneSnaps
  <2>2. CacheSane' BY <1>2 DEF Sane, CacheSane, CacheAgrees
  <2> QED BY <2>1, <2>2
<1>3. CASE /\ \E r \in Rebuilders, new \in {NoSnap, Begun} :
                   snap' = [snap EXCEPT ![r] = new]
           /\ cache' = cache \/ CacheAgrees(cache')
  <2>1. NoSnap.step = "idle" /\ Begun.step = "state"
    BY DEF NoSnap, Begun
  <2>2. SaneSnaps' BY <1>1, <1>3, <2>1 DEF Sane, SaneSnaps
  <2>3. CacheSane' BY <1>3 DEF Sane, CacheSane, CacheAgrees
  <2> QED BY <2>2, <2>3
<1>4. CASE \E h \in Hits : Handle(h)
  <2>1. PICK h \in Hits : Handle(h) BY <1>4
  <2>2. /\ CacheAgrees(DamageScript(cache, player[h], amount[h]).cache)
        /\ CacheAgrees(CompensateScript(cache, player[h], applied[h]))
    BY <1>1, ScriptsAgree DEF Sane, CacheSane
  <2>3. h \in Rebuilders BY DEF Rebuilders
  <2>4. CASE Apply(h)
    <3>1. CacheAgrees(cache') BY <2>2, <2>4 DEF Apply
    <3>2. UNCHANGED snap \/ snap' = [snap EXCEPT ![h] = Begun]
      BY <2>4 DEF Apply, Begun
    <3> QED BY <1>2, <1>3, <2>3, <3>1, <3>2
  <2>5. CASE ~ Apply(h)
    <3>1. UNCHANGED snap
      BY <2>1, <2>5 DEF Handle, Arrive, Reapply, ApplyFails, Submit, Await, Cancelled, Undo,
                        UndoFails
    <3>2. \/ cache' = cache
          \/ cache' = DamageScript(cache, player[h], amount[h]).cache
          \/ cache' = CompensateScript(cache, player[h], applied[h])
      BY <2>1, <2>5 DEF Handle, Arrive, Reapply, ApplyFails, Submit, Await, Cancelled, Undo,
                        UndoFails, Undone
    <3> QED BY <1>2, <2>2, <3>1, <3>2
  <2> QED BY <2>4, <2>5
<1>5. CASE \E r \in Rebuilders : Rebuild(r)
  <2>1. PICK r \in Rebuilders : Rebuild(r) BY <1>5
  <2>2. snap[r].step = "write" => CacheAgrees(Fetched(r))
    BY DEF Sane, SaneSnaps, Fetched, Rehydrate, CacheAgrees
  <2>3. CASE ReadState(r)
    <3>1. CASE seeded
      <4>1. snap'[r].state = ledger.state /\ snap'[r].hp = RecoveryHP(ledger)
            /\ \A q \in Rebuilders \ {r} : snap'[q] = snap[q]
        BY <1>1, <2>3, <3>1 DEF ReadState
      <4>2. ledger.state = "defeated" <=> RecoveryHP(ledger) = 0
        BY DEF Sane, LedgerConsistent, LedgerAgrees
      <4>3. SaneSnaps' BY <4>1, <4>2 DEF Sane, SaneSnaps
      <4>4. CacheSane' BY <2>3 DEF ReadState, Sane, CacheSane
      <4> QED BY <4>3, <4>4
    <3>2. CASE ~ seeded
      BY <1>3, <2>3, <3>2 DEF ReadState, Stop
    <3> QED BY <3>1, <3>2
  <2>4. CASE ReadContribs(r)
    <3>1. snap[r].step = "contribs" /\ snap'[r].state = snap[r].state
          /\ snap'[r].hp = snap[r].hp /\ \A q \in Rebuilders \ {r} : snap'[q] = snap[q]
      BY <1>1, <2>4 DEF ReadContribs, Snap
    <3>2. SaneSnaps' BY <3>1 DEF Sane, SaneSnaps
    <3>3. CacheSane' BY <2>4 DEF ReadContribs, Sane, CacheSane
    <3> QED BY <3>2, <3>3
  <2>5. CASE WriteCache(r)
    BY <1>3, <2>2, <2>5 DEF WriteCache, Stop
  <2>6. CASE RebuildFails(r)
    BY <1>3, <2>2, <2>6 DEF RebuildFails, Stop
  <2> QED BY <2>1, <2>3, <2>4, <2>5, <2>6 DEF Rebuild
<1>6. CASE \E w \in Committers : Commit(w)
  BY <1>2, <1>6 DEF Commit, Receive, Flush, CommitOK, CommitFails, CommitUnknown, Release
<1>7. CASE Environment
  <2>1. CASE Expire BY <1>2, <2>1 DEF Expire, CacheAgrees, Cold
  <2>2. CASE Seed BY <1>2, <2>2 DEF Seed
  <2>3. CASE Crash
    <3>1. SaneSnaps' BY <2>3 DEF Crash, SaneSnaps, NoSnap
    <3>2. CacheSane' BY <2>3 DEF Crash, Sane, CacheSane
    <3> QED BY <3>1, <3>2
  <2>4. CASE Restart
    BY <1>3, <2>4 DEF Restart, Start, Rebuilders
  <2>5. CASE \E B \in limbo : LateCommit(B) \/ LateAbort(B)
    BY <1>2, <2>5 DEF LateCommit, LateAbort
  <2> QED BY <1>7, <2>1, <2>2, <2>3, <2>4, <2>5 DEF Environment
<1>8. CASE \E g \in Getters : Get(g)
  BY <1>3, <1>8 DEF Get, Start, Rebuilders, Begun
<1>9. CASE \E k \in Workers : Heal(k)
  <2>1. PICK k \in Workers : Heal(k) BY <1>9
  <2>2. CASE TakeReconcile(k) BY <1>2, <2>2 DEF TakeReconcile
  <2>3. CASE Settle(k) BY <1>3, <2>3 DEF Settle, Start, Rebuilders, Begun
  <2> QED BY <2>1, <2>2, <2>3 DEF Heal
<1>10. CASE UNCHANGED vars BY <1>2, <1>10 DEF vars
<1> QED BY <1>4, <1>5, <1>6, <1>7, <1>8, <1>9, <1>10 DEF Next, Idle

(***************************************************************************)
(* A loaded boss is 'defeated' in Redis exactly at 0 HP, under every       *)
(* fault: no rebuild, undo or hit leaves a dead boss with HP, nor a live   *)
(* one without (the state a GET shows, and the 409 of a hit).              *)
(***************************************************************************)
THEOREM CacheStaysSane == Spec => []CacheSane
<1>1. Init => CacheSane /\ SaneSnaps BY InitSane
<1>2. Custody /\ LedgerConsistent /\ CacheSane /\ SaneSnaps /\ [Next]_vars
        => CacheSane' /\ SaneSnaps'
  BY NextSane DEF Sane
<1> QED BY <1>1, <1>2, CustodyHolds, BooksBalance, PTL DEF Spec

(***************************************************************************)
(* Redis against Postgres.  While no fault loses the cache, cuts a wait    *)
(* short or leaves a COMMIT in doubt, the two differ by the hits in flight *)
(* and by the points of lost Redis calls, and the boss dies of exactly     *)
(* MaxHP points (Steady).  Without lost Redis calls they differ by the     *)
(* hits in flight alone (Forgiving).                                       *)
(*                                                                         *)
(* The runs Overkill and CacheAboveMax show that a rebuild beside a hit    *)
(* breaks both; the invariant Calm says that under the faults of Steady    *)
(* the only rebuild is the startup's.                                      *)
(***************************************************************************)

Forgiving == Faults \subseteq {"commit", "drop", "rebuild"}

Steady == Faults \subseteq {"commit", "redis", "drop", "rebuild"}

\* The steps and answers that need no other fault.
Ordinary == {"idle", "apply", "submit", "wait", "undo_full", "undo_failed",
             "ok", "invalid", "defeated", "overloaded", "failed", "error"}

\* Before the service serves, nothing has happened.
Dawn ==
  /\ ~ cache.loaded /\ cache.hp = 0
  /\ ledger = Untouched
  /\ events = {}
  /\ \A h \in Hits : pc[h] = "idle"
  /\ \A w \in Committers : phase[w] = "collect"
  /\ snap[Boot].step \in {"contribs", "write"} => snap[Boot].hp = MaxHP
  /\ snap[Boot].step = "write" => snap[Boot].contribs = NoDamage

Calm ==
  /\ seeded
  /\ limbo = {}
  /\ ~ queued /\ ~ backlog /\ asleep = {}
  /\ \A h \in Hits : pc[h] \in Ordinary
  /\ \/ server = "starting" /\ Dawn
     \/ server = "up" /\ cache.loaded /\ snap[Boot].step = "idle"
  /\ \A r \in Rebuilders : r # Boot => snap[r].step = "idle"

LEMMA InitCalm == ASSUME Steady, Init PROVE Calm
<1>1. Boot \in Rebuilders BY DEF Rebuilders
<1>2. seeded BY DEF Init, Steady
<1>3. Dawn
  BY <1>1 DEF Init, Dawn, Cold, Begun, NoSnap
<1>4. \A r \in Rebuilders : r # Boot => snap[r].step = "idle"
  BY DEF Init, NoSnap
<1> QED BY <1>2, <1>3, <1>4 DEF Init, Calm, Ordinary

\* A committer's batch and the queue hold only hits that wait.
LEMMA HeldHitsWait ==
  ASSUME Custody, BadNews, Calm, NEW h \in Hits,
         \/ h \in queue
         \/ \E w \in Committers : phase[w] \in {"collect", "commit"} /\ h \in batch[w]
  PROVE  pc[h] = "wait" /\ h \notin events
<1>1. h \in Submitted BY DEF Submitted
<1>2. h \notin events BY DEF Custody, OneHome
<1>3. pc[h] \in Handed BY <1>1 DEF Custody, HandedOver
<1>4. pc[h] \notin {"undo_failed", "failed"} BY <1>1 DEF BadNews
<1>5. pc[h] # "ok" BY <1>2 DEF Custody, GoodNews, AckedIsDurable
<1>6. pc[h] \in Ordinary BY DEF Calm
<1> QED BY <1>2, <1>3, <1>4, <1>5, <1>6 DEF Handed, Ordinary

\* While the service serves, a hit finds the boss in the cache.
LEMMA HandleCalm ==
  ASSUME Steady, Custody, Calm, NEW h \in Hits, Handle(h)
  PROVE  Calm'
<1> USE DEF request, durable, handler, healing, Steady
<1>1. server = "up" /\ cache.loaded /\ snap[Boot].step = "idle"
  BY DEF Calm, Dawn, Handle, Arrive, Apply, Reapply, ApplyFails, Submit, Await, Cancelled,
         Undo, UndoFails, Undoing
<1>2. pc \in [Hits -> Steps \cup Answers] BY DEF Custody, TypeOK
<1>3. ~ Reapply(h) /\ ~ Cancelled(h) /\ ~ UndoFails(h)
  BY DEF Calm, Ordinary, Reapply, Cancelled, UndoFails
<1>4. DamageScript(cache, player[h], amount[h]).status \in {"applied", "defeated", "invalid"}
      /\ DamageScript(cache, player[h], amount[h]).cache.loaded
  BY <1>1 DEF DamageScript, Hurt
<1>5. Undone(h).loaded BY <1>1 DEF Undone, CompensateScript
<1>6. \E step \in Ordinary : Goto(h, step)
  BY <1>3, <1>4 DEF Handle, Arrive, Apply, ApplyFails, Submit, Await, Undo, Refused, Ordinary
<1>7. \A g \in Hits : pc'[g] \in Ordinary BY <1>2, <1>6 DEF Goto, Calm
<1>8. UNCHANGED <<server, seeded, limbo, queued, backlog, asleep, snap>>
  BY <1>3, <1>4 DEF Handle, Arrive, Apply, ApplyFails, Submit, Await, Undo
<1>9. cache'.loaded
  BY <1>1, <1>3, <1>4, <1>5 DEF Handle, Arrive, Apply, ApplyFails, Submit, Await, Undo
<1> QED BY <1>1, <1>7, <1>8, <1>9 DEF Calm

LEMMA RebuildCalm ==
  ASSUME Steady, Custody, Calm, NEW r \in Rebuilders, Rebuild(r)
  PROVE  Calm' /\ r = Boot /\ Dawn
<1> USE DEF request, durable, handler, healing, writer
<1>1. snap[r].step # "idle"
  BY DEF Rebuild, ReadState, ReadContribs, WriteCache, RebuildFails
<1>2. r = Boot /\ server = "starting" /\ Dawn BY <1>1 DEF Calm
<1>3. Boot \notin Hits BY ServiceAssumption
<1>4. snap \in [Rebuilders -> Snap] BY DEF Custody, TypeOK
<1>5. CASE ReadState(r)
  <2>1. RecoveryHP(ledger) = MaxHP
    BY <1>2, UntouchedType, StoreAssumption DEF Dawn, RecoveryHP
  <2>2. snap' = [snap EXCEPT ![Boot] =
                   [step |-> "contribs", hp |-> MaxHP, state |-> ledger.state,
                    contribs |-> NoDamage]]
        /\ UNCHANGED <<pc, server>>
    BY <1>2, <1>5, <2>1 DEF ReadState, Calm
  <2>3. Dawn' BY <1>2, <1>4, <1>5, <2>2 DEF Dawn, ReadState
  <2> QED BY <1>2, <1>4, <1>5, <2>2, <2>3 DEF Calm, ReadState
<1>6. CASE ReadContribs(r)
  <2>1. ledger.contrib = NoDamage BY <1>2 DEF Dawn, Untouched
  <2>2. Dawn' BY <1>2, <1>4, <1>6, <2>1 DEF Dawn, ReadContribs
  <2> QED BY <1>2, <1>4, <1>6, <2>2 DEF Calm, ReadContribs
<1>7. CASE WriteCache(r)
  <2>1. cache'.loaded BY <1>7 DEF WriteCache, Fetched, Rehydrate
  <2>2. server' = "up" /\ UNCHANGED pc BY <1>2, <1>3, <1>7 DEF WriteCache, Resume
  <2>3. snap' = [snap EXCEPT ![Boot] = NoSnap] BY <1>2, <1>7 DEF WriteCache, Stop
  <2> QED BY <1>2, <1>4, <1>7, <2>1, <2>2, <2>3 DEF Calm, WriteCache, NoSnap
<1> QED BY <1>2, <1>5, <1>6, <1>7 DEF Rebuild, RebuildFails

LEMMA CommitCalm ==
  ASSUME Steady, Custody, BadNews, Calm, NEW w \in Committers, Commit(w)
  PROVE  Calm' /\ server = "up"
<1> USE DEF request, durable, handler, healing
<1>1. queue \subseteq Hits /\ batch \in [Committers -> SUBSET Hits]
  BY DEF Custody, TypeOK
<1>2. server = "up"
  <2> SUFFICES ASSUME Dawn PROVE FALSE BY DEF Calm
  <2>1. queue = {} BY <1>1, HeldHitsWait DEF Dawn
  <2>2. batch[w] = {} BY <1>1, HeldHitsWait DEF Dawn
  <2> QED BY <2>1, <2>2 DEF Dawn, Commit, Receive, Flush, CommitOK, CommitFails,
                            CommitUnknown, Release
<1>3. ~ CommitUnknown(w) BY DEF CommitUnknown, Steady
<1>4. UNCHANGED <<server, seeded, limbo, queued, backlog, asleep, pc, cache, snap>>
  BY <1>3 DEF Commit, Receive, Flush, CommitOK, CommitFails, Release, Store
<1> QED BY <1>2, <1>4 DEF Calm

\* No other action has an occasion.
LEMMA OthersIdle ==
  ASSUME Steady, Custody, Calm,
         \/ \E g \in Getters : Get(g)
         \/ \E k \in Workers : Heal(k)
         \/ Environment
  PROVE  FALSE
<1>1. ASSUME NEW g \in Getters, Get(g) PROVE FALSE BY <1>1 DEF Get, Calm
<1>2. ASSUME NEW k \in Workers, Heal(k) PROVE FALSE
  BY <1>2 DEF Heal, TakeReconcile, Settle, Calm
<1>3. ASSUME Environment PROVE FALSE
  BY <1>3 DEF Environment, Expire, Seed, Crash, Restart, Calm, Steady
<1> QED BY <1>1, <1>2, <1>3

LEMMA NextCalm == ASSUME Steady, Custody, BadNews, Calm, [Next]_vars PROVE Calm'
<1>1. CASE UNCHANGED vars
  BY <1>1 DEF vars, request, durable, handler, healing, writer, Calm, Dawn
<1> QED BY <1>1, HandleCalm, RebuildCalm, CommitCalm, OthersIdle DEF Next, Idle

(***************************************************************************)
(* Conservation: what each step does to the hits in flight.                *)
(***************************************************************************)
Share(p) == {h \in InFlight : player[h] = p}

\* The books of the two stores, with what lost replies have cost: the points
\* lost to the boss, and those over in each player's score.
Balanced(lost, over) ==
  cache.loaded =>
    /\ cache.hp + TotalDamage(ledger) + Total(applied, InFlight) + lost = MaxHP
    /\ \A p \in Players :
         cache.lb[p] = ledger.contrib[p] + Total(applied, Share(p)) + over[p]

Covered == \E lost \in Nat, over \in [Players -> Nat] : Balanced(lost, over)

LEMMA FlightType ==
  ASSUME TypeOK
  PROVE  /\ InFlight \subseteq Hits /\ IsFiniteSet(InFlight)
         /\ \A h \in Hits : applied[h] \in Nat
         /\ TotalDamage(ledger) \in Nat
         /\ Total(applied, InFlight) \in Nat
         /\ \A p \in Players : IsFiniteSet(Share(p)) /\ Total(applied, Share(p)) \in Nat
<1>1. InFlight \subseteq Hits BY DEF InFlight
<1>2. IsFiniteSet(InFlight) BY <1>1, FS_Subset, ServiceAssumption
<1>3. \A h \in Hits : applied[h] \in Nat BY DEF TypeOK
<1>4. TotalDamage(ledger) \in Nat BY TotalDamageNat DEF TypeOK
<1>5. Total(applied, InFlight) \in Nat BY <1>1, <1>2, <1>3, TotalNat
<1>6. ASSUME NEW p \in Players
      PROVE  IsFiniteSet(Share(p)) /\ Total(applied, Share(p)) \in Nat
  <2>1. Share(p) \subseteq InFlight BY DEF Share
  <2>2. IsFiniteSet(Share(p)) BY <1>2, <2>1, FS_Subset
  <2> QED BY <1>1, <1>3, <2>1, <2>2, TotalNat
<1> QED BY <1>1, <1>2, <1>3, <1>4, <1>5, <1>6

LEMMA SameFlight ==
  ASSUME TypeOK, NEW lost \in Nat, NEW over \in [Players -> Nat], Balanced(lost, over),
         UNCHANGED <<cache, ledger, player, applied, InFlight>>
  PROVE  Balanced(lost, over)'
<1>1. \A p \in Players : Share(p)' = Share(p) BY DEF Share
<1> QED BY <1>1 DEF Balanced

\* A handler that moves without a store call keeps its hit where it is.
LEMMA MoveFlight ==
  ASSUME TypeOK, NEW h \in Hits, NEW step, Goto(h, step), UNCHANGED events,
         (h \in InFlight) <=>
           (step \in {"submit", "wait", "undo_full", "undo_failed"} /\ h \notin events)
  PROVE  InFlight' = InFlight
<1>1. pc \in [Hits -> Steps \cup Answers] BY DEF TypeOK
<1> QED BY <1>1 DEF InFlight, Goto

LEMMA ApplyConserves ==
  ASSUME TypeOK, NEW lost \in Nat, NEW over \in [Players -> Nat], Balanced(lost, over),
         cache.loaded, NEW h \in Hits, h \notin events, Apply(h)
  PROVE  Balanced(lost, over)'
<1> DEFINE p0  == player[h]
           res == DamageScript(cache, p0, amount[h])
           d   == Landed(cache, amount[h])
<1>1. /\ p0 \in Players /\ amount[h] \in Int /\ cache.hp \in Nat
      /\ cache.lb \in [Players -> Nat] /\ applied \in [Hits -> Nat]
      /\ pc \in [Hits -> Steps \cup Answers]
  BY ServiceAssumption DEF TypeOK, Cache
<1>2. h \notin InFlight BY DEF InFlight, Apply
<1>3. /\ UNCHANGED <<events, ledger, player>> /\ cache' = res.cache
      /\ applied' = [applied EXCEPT ![h] = res.applied]
  BY DEF Apply, durable, request
<1>4. \A g \in Hits \ {h} : applied'[g] = applied[g] BY <1>1, <1>3
<1>5. \A p \in Players : Total(applied', Share(p)) = Total(applied, Share(p))
  <2> TAKE p \in Players
  <2>1. \A g \in Share(p) : applied'[g] = applied[g]
    BY <1>2, <1>4, FlightType DEF Share
  <2> QED BY <2>1, TotalCong
<1>6. Total(applied', InFlight) = Total(applied, InFlight)
  <2>1. \A g \in InFlight : applied'[g] = applied[g] BY <1>2, <1>4, FlightType
  <2> QED BY <2>1, TotalCong
<1>7. CASE res.status = "applied"
  <2>1. /\ res.applied = d /\ res.cache = Hurt(cache, p0, d)
        /\ d \in Nat /\ d <= cache.hp
    BY <1>1, <1>7 DEF DamageScript, Landed
  <2>2. cache'.hp = cache.hp - d /\ cache'.lb = [cache.lb EXCEPT ![p0] = @ + d]
    BY <1>3, <2>1 DEF Hurt
  <2>3. applied'[h] = d /\ \A g \in Hits : applied'[g] \in Nat BY <1>1, <1>3, <2>1
  <2>4. pc' = [pc EXCEPT ![h] = "submit"] BY <1>7 DEF Apply, Goto
  <2>5. InFlight' = InFlight \cup {h} BY <1>1, <1>3, <2>4 DEF InFlight
  <2>6. Total(applied', InFlight') = Total(applied, InFlight) + d
    <3>1. IsFiniteSet(InFlight) /\ \A g \in InFlight \cup {h} : applied'[g] \in Nat
      BY <2>3, FlightType
    <3>2. Total(applied', InFlight \cup {h}) = Total(applied', InFlight) + applied'[h]
      BY <1>2, <3>1, TotalAdd
    <3> QED BY <1>6, <2>3, <2>5, <3>2
  <2>7. Share(p0)' = Share(p0) \cup {h} /\ \A p \in Players \ {p0} : Share(p)' = Share(p)
    BY <1>3, <2>5 DEF Share
  <2>8. Total(applied', Share(p0)') = Total(applied, Share(p0)) + d
    <3>1. h \notin Share(p0) /\ Share(p0) \subseteq Hits /\ IsFiniteSet(Share(p0))
      BY <1>1, <1>2, FlightType DEF Share
    <3>2. Total(applied', Share(p0) \cup {h}) = Total(applied', Share(p0)) + d
      BY <2>3, <3>1, TotalAdd
    <3> QED BY <1>1, <1>5, <2>7, <3>2
  <2>9. cache'.hp + TotalDamage(ledger') + Total(applied', InFlight') + lost = MaxHP
    BY <1>1, <1>3, <2>1, <2>2, <2>6, FlightType, StoreAssumption DEF Balanced
  <2>10. ASSUME NEW p \in Players
         PROVE  cache'.lb[p] = ledger'.contrib[p] + Total(applied', Share(p)') + over[p]
    <3>1. cache.lb[p] = ledger.contrib[p] + Total(applied, Share(p)) + over[p]
      BY DEF Balanced
    <3>2. ledger.contrib[p] \in Nat BY DEF TypeOK, Ledger
    <3>3. CASE p = p0
      <4>1. cache'.lb[p0] = cache.lb[p0] + d BY <1>1, <2>2
      <4>2. Total(applied, Share(p0)) \in Nat BY <1>1, FlightType
      <4> QED BY <1>3, <2>1, <2>8, <3>1, <3>2, <3>3, <4>1, <4>2
    <3>4. CASE p # p0
      BY <1>1, <1>3, <1>5, <2>2, <2>7, <3>1, <3>4
    <3> QED BY <3>3, <3>4
  <2> QED BY <2>9, <2>10 DEF Balanced
<1>8. CASE res.status # "applied"
  <2>1. res.cache = cache /\ res.status \in {"defeated", "invalid"}
    BY <1>8 DEF DamageScript
  <2>2. InFlight' = InFlight
    <3>1. Goto(h, res.status) BY <2>1 DEF Apply
    <3> QED BY <1>2, <1>3, <2>1, <3>1, MoveFlight
  <2>3. \A p \in Players : Share(p)' = Share(p) BY <1>3, <2>2 DEF Share
  <2> QED BY <1>3, <1>5, <1>6, <2>1, <2>2, <2>3 DEF Balanced
<1> QED BY <1>7, <1>8

LEMMA UndoConserves ==
  ASSUME TypeOK, NEW lost \in Nat, NEW over \in [Players -> Nat], Balanced(lost, over),
         cache.loaded, NEW h \in Hits, h \notin events, Undo(h)
  PROVE  Balanced(lost, over)'
<1> DEFINE p0 == player[h]
           d  == applied[h]
<1>1. /\ p0 \in Players /\ d \in Nat /\ cache.hp \in Nat
      /\ cache.lb \in [Players -> Nat] /\ pc \in [Hits -> Steps \cup Answers]
  BY DEF TypeOK, Cache
<1>2. /\ UNCHANGED <<events, ledger, player, applied>>
      /\ cache' = CompensateScript(cache, p0, d)
  BY DEF Undo, Undone, durable, request
<1>3. h \in InFlight BY DEF Undo, Undoing, InFlight
<1>4. InFlight' = InFlight \ {h}
  BY <1>1, <1>2 DEF Undo, Undoing, Refused, Goto, InFlight
<1>5. /\ Share(p0)' = Share(p0) \ {h} /\ h \in Share(p0)
      /\ \A p \in Players \ {p0} : Share(p)' = Share(p)
  BY <1>2, <1>3, <1>4 DEF Share
<1>6. ASSUME NEW S \in SUBSET Hits, h \in S
      PROVE  Total(applied, S) = Total(applied, S \ {h}) + d /\ Total(applied, S \ {h}) \in Nat
  <2>1. IsFiniteSet(S \ {h}) BY FS_Subset, ServiceAssumption
  <2>2. \A g \in Hits : applied[g] \in Nat BY DEF TypeOK
  <2>3. (S \ {h}) \cup {h} = S BY <1>6
  <2>4. Total(applied, (S \ {h}) \cup {h}) = Total(applied, S \ {h}) + applied[h]
    BY <2>1, <2>2, TotalAdd
  <2>5. Total(applied, S \ {h}) \in Nat BY <2>1, <2>2, TotalNat
  <2> QED BY <2>3, <2>4, <2>5
<1>7. Total(applied, InFlight) = Total(applied, InFlight') + d
      /\ Total(applied, InFlight') \in Nat
  BY <1>3, <1>4, <1>6, FlightType
<1>8. Total(applied, Share(p0)) = Total(applied, Share(p0)') + d
      /\ Total(applied, Share(p0)') \in Nat
  <2>1. Share(p0) \in SUBSET Hits BY FlightType DEF Share
  <2> QED BY <1>5, <1>6, <2>1
\* The score the undo takes from holds at least the points it takes.
<1>9. /\ cache'.hp = cache.hp + d
      /\ cache'.lb[p0] = cache.lb[p0] - d
      /\ \A p \in Players \ {p0} : cache'.lb[p] = cache.lb[p]
  <2>1. cache.lb[p0] >= d
    <3>1. cache.lb[p0] = ledger.contrib[p0] + Total(applied, Share(p0)) + over[p0]
      BY <1>1 DEF Balanced
    <3>2. ledger.contrib[p0] \in Nat BY <1>1 DEF TypeOK, Ledger
    <3> QED BY <1>1, <1>8, <3>1, <3>2
  <2>2. CASE d = 0 BY <1>1, <1>2, <2>2 DEF CompensateScript
  <2>3. CASE d > 0 BY <1>1, <1>2, <2>1, <2>3 DEF CompensateScript
  <2> QED BY <1>1, <2>2, <2>3
<1>10. cache'.hp + TotalDamage(ledger') + Total(applied', InFlight') + lost = MaxHP
  BY <1>1, <1>2, <1>7, <1>9, FlightType, StoreAssumption DEF Balanced
<1>11. ASSUME NEW p \in Players
       PROVE  cache'.lb[p] = ledger'.contrib[p] + Total(applied', Share(p)') + over[p]
  <2>1. cache.lb[p] = ledger.contrib[p] + Total(applied, Share(p)) + over[p]
    BY DEF Balanced
  <2>2. ledger.contrib[p] \in Nat BY DEF TypeOK, Ledger
  <2>3. CASE p = p0 BY <1>1, <1>2, <1>8, <1>9, <2>1, <2>2, <2>3
  <2>4. CASE p # p0 BY <1>2, <1>5, <1>9, <2>1, <2>4
  <2> QED BY <2>3, <2>4
<1> QED BY <1>10, <1>11 DEF Balanced

LEMMA CommitConserves ==
  ASSUME Custody, BadNews, Calm,
         NEW lost \in Nat, NEW over \in [Players -> Nat], Balanced(lost, over),
         cache.loaded, NEW w \in Committers, CommitOK(w)
  PROVE  Balanced(lost, over)'
<1> DEFINE B == batch[w]
           by == TotalBy(applied, player, B, Players)
<1>1. /\ TypeOK /\ B \subseteq Hits /\ IsFiniteSet(B) /\ ledger \in Ledger
      /\ \A h \in Hits : applied[h] \in Nat /\ player[h] \in Players
      /\ cache.hp \in Nat
  BY FS_Subset, ServiceAssumption DEF Custody, TypeOK, Cache
<1>2. /\ ledger' = CommitBatch(ledger, B, player, applied) /\ events' = events \cup B
      /\ UNCHANGED <<cache, player, applied, pc>>
  BY DEF CommitOK, Store, request, handler
<1>3. B \subseteq InFlight
  BY <1>1, HeldHitsWait DEF CommitOK, InFlight
<1>4. InFlight' = InFlight \ B BY <1>2 DEF InFlight
<1>5. ASSUME NEW S \in SUBSET Hits, NEW T \in SUBSET S
      PROVE  /\ Total(applied, S) = Total(applied, T) + Total(applied, S \ T)
             /\ Total(applied, T) \in Nat /\ Total(applied, S \ T) \in Nat
  <2>1. IsFiniteSet(T) /\ IsFiniteSet(S \ T) BY FS_Subset, ServiceAssumption
  <2>2. T \cup (S \ T) = S /\ T \cap (S \ T) = {} BY <1>5
  <2>3. Total(applied, T \cup (S \ T)) = Total(applied, T) + Total(applied, S \ T)
    BY <1>1, <2>1, <2>2, TotalUnion
  <2> QED BY <1>1, <2>1, <2>2, <2>3, TotalNat
<1>6. Total(applied, InFlight) = Total(applied, B) + Total(applied, InFlight')
      /\ Total(applied, B) \in Nat /\ Total(applied, InFlight') \in Nat
  BY <1>1, <1>3, <1>4, <1>5, FlightType
<1>7. TotalDamage(ledger') = TotalDamage(ledger) + Total(applied, B)
  BY <1>1, <1>2, CommitBatchAgrees
<1>8. cache'.hp + TotalDamage(ledger') + Total(applied', InFlight') + lost = MaxHP
  BY <1>1, <1>2, <1>6, <1>7, FlightType, StoreAssumption DEF Balanced
<1>9. ASSUME NEW p \in Players
      PROVE  cache'.lb[p] = ledger'.contrib[p] + Total(applied', Share(p)') + over[p]
  <2> DEFINE Bp == {h \in B : player[h] = p}
  <2>1. Share(p) \in SUBSET Hits /\ Bp \in SUBSET Share(p)
    BY <1>1, <1>3, FlightType DEF Share
  <2>2. Share(p)' = Share(p) \ Bp BY <1>2, <1>4 DEF Share
  <2>3. Total(applied, Share(p)) = Total(applied, Bp) + Total(applied, Share(p)')
        /\ Total(applied, Bp) \in Nat /\ Total(applied, Share(p)') \in Nat
    BY <1>5, <2>1, <2>2
  <2>4. ledger'.contrib[p] = ledger.contrib[p] + Total(applied, Bp)
    BY <1>2 DEF CommitBatch, TotalBy
  <2>5. cache.lb[p] = ledger.contrib[p] + Total(applied, Share(p)) + over[p]
    BY DEF Balanced
  <2>6. ledger.contrib[p] \in Nat BY <1>1 DEF Ledger
  <2> HIDE DEF Bp
  <2> QED BY <1>2, <2>3, <2>4, <2>5, <2>6
<1> QED BY <1>8, <1>9 DEF Balanced

\* Only a hit past its send can be stored; one that is being undone is not.
LEMMA UnstoredFlight ==
  ASSUME Custody, BadNews, NEW h \in Hits, pc[h] \notin {"wait", "ok", "cancelled", "lost"}
  PROVE  h \notin events
BY DEF Custody, HandedOver, Handed, BadNews

LEMMA HandleConserves ==
  ASSUME Steady, Custody, BadNews, Calm,
         NEW lost \in Nat, NEW over \in [Players -> Nat], Balanced(lost, over),
         NEW h \in Hits, Handle(h), ~ ApplyFails(h)
  PROVE  Balanced(lost, over)'
<1> USE DEF request, durable, handler, writer
<1>1. TypeOK BY DEF Custody
<1>2. ~ Reapply(h) /\ ~ Cancelled(h) /\ ~ UndoFails(h)
  BY DEF Calm, Ordinary, Reapply, Cancelled, UndoFails, Steady
<1>3. pc[h] # "idle" => cache.loaded BY DEF Calm, Dawn
<1>4. CASE Apply(h)
  <2>1. h \notin events BY <1>4, UnstoredFlight DEF Apply
  <2> QED BY <1>1, <1>3, <1>4, <2>1, ApplyConserves DEF Apply
<1>5. CASE Undo(h)
  <2>1. h \notin events BY <1>5, UnstoredFlight DEF Undo, Undoing
  <2> QED BY <1>1, <1>3, <1>5, <2>1, UndoConserves DEF Undo, Undoing
<1>6. CASE Arrive(h) \/ Submit(h) \/ Await(h)
  <2>1. UNCHANGED <<cache, ledger, player, applied, events>>
    BY <1>6 DEF Arrive, Submit, Await
  <2>2. pc[h] \in {"idle", "submit"} => h \notin events BY UnstoredFlight
  <2>3. reply[h] = "nil" => h \in events BY DEF Custody, GoodNews
  <2>4. reply[h] = "failed" => h \notin events BY DEF BadNews
  <2>5. reply[h] \in {"none", "nil", "failed"} BY <1>1 DEF TypeOK
  <2>6. \E step : /\ Goto(h, step)
                  /\ (h \in InFlight) <=>
                       (/\ step \in {"submit", "wait", "undo_full", "undo_failed"}
                        /\ h \notin events)
    <3>1. CASE Arrive(h) BY <3>1 DEF Arrive, InFlight
    <3>2. CASE Submit(h) BY <2>2, <3>2 DEF Submit, InFlight
    <3>3. CASE Await(h) BY <2>3, <2>4, <2>5, <3>3 DEF Await, InFlight
    <3> QED BY <1>6, <3>1, <3>2, <3>3
  <2>7. InFlight' = InFlight BY <1>1, <2>1, <2>6, MoveFlight
  <2> QED BY <1>1, <2>1, <2>7, SameFlight
<1> QED BY <1>2, <1>4, <1>5, <1>6 DEF Handle

\* A call whose reply is lost: if the script has run, its points are nobody's.
LEMMA LostReply ==
  ASSUME TypeOK, NEW lost \in Nat, NEW over \in [Players -> Nat], Balanced(lost, over),
         cache.loaded, NEW h \in Hits, ApplyFails(h)
  PROVE  Covered'
<1>1. /\ player[h] \in Players /\ amount[h] \in Int /\ cache.hp \in Nat
      /\ cache.lb \in [Players -> Nat] /\ ledger.contrib \in [Players -> Nat]
  BY ServiceAssumption DEF TypeOK, Cache, Ledger
<1>2. UNCHANGED <<events, ledger, player, applied>> BY DEF ApplyFails, durable, request
<1>3. InFlight' = InFlight
  <2>1. h \notin InFlight /\ Goto(h, "error") BY DEF ApplyFails, InFlight
  <2> QED BY <1>2, <2>1, MoveFlight
<1>4. \A p \in Players : Share(p)' = Share(p) BY <1>2, <1>3 DEF Share
<1>5. CASE cache' = cache
  BY <1>2, <1>3, <1>4, <1>5 DEF Covered, Balanced
<1>6. CASE cache' # cache
  <2>1. PICK p0 \in Players, d \in Nat : cache' = Hurt(cache, p0, d) /\ d <= cache.hp
    BY <1>1, <1>6 DEF ApplyFails, DamageScript, Landed
  <2>2. cache'.hp = cache.hp - d /\ cache'.lb = [cache.lb EXCEPT ![p0] = @ + d]
    BY <2>1 DEF Hurt
  <2> DEFINE more == [over EXCEPT ![p0] = @ + d]
  <2>3. lost + d \in Nat /\ more \in [Players -> Nat] OBVIOUS
  <2>4. cache'.hp + TotalDamage(ledger') + Total(applied', InFlight') + (lost + d) = MaxHP
    BY <1>1, <1>2, <1>3, <2>1, <2>2, FlightType, StoreAssumption DEF Balanced
  <2>5. ASSUME NEW p \in Players
        PROVE  cache'.lb[p] = ledger'.contrib[p] + Total(applied', Share(p)') + more[p]
    <3>1. cache.lb[p] = ledger.contrib[p] + Total(applied, Share(p)) + over[p]
      BY DEF Balanced
    <3>2. /\ ledger.contrib[p] \in Nat /\ Total(applied, Share(p)) \in Nat
          /\ over[p] \in Nat
      BY <1>1, FlightType
    <3>3. CASE p = p0
      <4>1. cache'.lb[p] = cache.lb[p] + d /\ more[p] = over[p] + d BY <1>1, <2>2, <3>3
      <4> HIDE DEF more
      <4> QED BY <1>2, <1>4, <2>1, <3>1, <3>2, <4>1
    <3>4. CASE p # p0
      <4>1. cache'.lb[p] = cache.lb[p] /\ more[p] = over[p] BY <1>1, <2>2, <3>4
      <4> QED BY <1>2, <1>4, <3>1, <4>1
    <3> QED BY <3>3, <3>4
  <2>6. Balanced(lost + d, more)' BY <2>4, <2>5 DEF Balanced
  <2> QED BY <2>3, <2>6 DEF Covered
<1> QED BY <1>5, <1>6

LEMMA NoDamageType == NoDamage \in [Players -> Nat]
BY DEF NoDamage

\* The start-up's rebuild begins the books afresh.
LEMMA RebuildConserves ==
  ASSUME Steady, Custody, Calm, NEW r \in Rebuilders, Rebuild(r)
  PROVE  Balanced(0, NoDamage)'
<1> USE DEF request, durable, handler
<1>1. r = Boot /\ Dawn BY RebuildCalm
<1>2. CASE WriteCache(r)
  <2>1. /\ UNCHANGED <<ledger, events, player, applied>>
        /\ cache' = Rehydrate(MaxHP, snap[r].state, NoDamage)
    BY <1>1, <1>2 DEF WriteCache, Fetched, Dawn
  <2>2. cache'.hp = MaxHP /\ cache'.lb = NoDamage BY <2>1 DEF Rehydrate
  <2>3. Boot \notin Hits BY ServiceAssumption
  <2>4. pc' = pc BY <1>1, <1>2, <2>3 DEF WriteCache, Resume
  <2>5. InFlight' = {} BY <1>1, <2>4 DEF InFlight, Dawn
  <2>6. \A p \in Players : Share(p)' = {} BY <2>5 DEF Share
  <2>7. Total(applied', InFlight') = 0 /\ \A p \in Players : Total(applied', Share(p)') = 0
    BY <2>5, <2>6, TotalEmpty
  <2>8. TotalDamage(ledger') = 0 /\ ledger'.contrib = NoDamage
    BY <1>1, <2>1, UntouchedType DEF Dawn, Untouched
  <2> QED BY <2>2, <2>7, <2>8, StoreAssumption DEF Balanced, NoDamage
<1>3. CASE ReadState(r) \/ ReadContribs(r)
  <2>1. ~ cache'.loaded BY <1>1, <1>3 DEF ReadState, ReadContribs, Dawn
  <2> QED BY <2>1 DEF Balanced
<1> QED BY <1>1, <1>2, <1>3 DEF Rebuild, RebuildFails

LEMMA NextConserves ==
  ASSUME Steady, Custody, BadNews, Calm,
         NEW lost \in Nat, NEW over \in [Players -> Nat], Balanced(lost, over),
         [Next]_vars
  PROVE  \/ Balanced(lost, over)'
         \/ Balanced(0, NoDamage)'
         \/ \E h \in Hits : ApplyFails(h) /\ Covered'
<1> USE DEF request, durable, handler
<1>1. TypeOK BY DEF Custody
<1>2. ASSUME NEW w \in Committers, Commit(w) PROVE Balanced(lost, over)'
  <2>1. cache.loaded BY <1>2, CommitCalm DEF Calm, Dawn
  <2>2. CASE CommitOK(w) BY <2>1, <2>2, CommitConserves
  <2>3. CASE ~ CommitOK(w)
    <3>1. UNCHANGED <<cache, ledger, player, applied, pc, events>>
      BY <1>2, <2>3 DEF Commit, Receive, Flush, CommitFails, CommitUnknown, Release
    <3>2. InFlight' = InFlight BY <3>1 DEF InFlight
    <3> QED BY <1>1, <3>1, <3>2, SameFlight
  <2> QED BY <2>2, <2>3
<1>3. CASE UNCHANGED vars
  <2>1. UNCHANGED <<cache, ledger, player, applied, pc, events>> BY <1>3 DEF vars
  <2>2. InFlight' = InFlight BY <2>1 DEF InFlight
  <2> QED BY <1>1, <2>1, <2>2, SameFlight
<1>4. ASSUME NEW h \in Hits, ApplyFails(h) PROVE Covered'
  <2>1. cache.loaded BY <1>4 DEF ApplyFails, Calm, Dawn
  <2> QED BY <1>1, <1>4, <2>1, LostReply
<1>5. ASSUME NEW h \in Hits, Handle(h), ~ ApplyFails(h) PROVE Balanced(lost, over)'
  BY <1>5, HandleConserves
<1> QED BY <1>2, <1>3, <1>4, <1>5, RebuildConserves, OthersIdle DEF Next, Idle

LEMMA ConservationIsBalance ==
  ASSUME TypeOK PROVE Conservation <=> Balanced(0, NoDamage)
<1>1. \A p \in Players : /\ ledger.contrib[p] \in Nat
                         /\ Total(applied, {h \in InFlight : player[h] = p}) \in Nat
  BY FlightType DEF Share, TypeOK, Ledger
<1>2. cache.hp \in Nat BY DEF TypeOK, Cache
<1> QED BY <1>1, <1>2, FlightType DEF Conservation, Balanced, Share, NoDamage

\* A rebuilt cache, nothing lost yet, is a covered one.
LEMMA NextCovered == ASSUME Steady, Custody, BadNews, Calm, Covered, [Next]_vars PROVE Covered'
<1>1. PICK lost \in Nat, over \in [Players -> Nat] : Balanced(lost, over) BY DEF Covered
<1>2. CASE Balanced(lost, over)' BY <1>2 DEF Covered
<1>3. CASE Balanced(0, NoDamage)' BY <1>3, NoDamageType DEF Covered
<1> QED BY <1>1, <1>2, <1>3, NextConserves

LEMMA NextConservation ==
  ASSUME Forgiving, Custody, BadNews, Calm, Conservation, [Next]_vars
  PROVE  Conservation'
<1>1. Steady /\ TypeOK BY DEF Forgiving, Steady, Custody
<1>2. TypeOK' BY NextType, <1>1
<1>3. \A h \in Hits : ~ ApplyFails(h) BY DEF ApplyFails, Forgiving
<1>4. Balanced(0, NoDamage) BY <1>1, ConservationIsBalance
<1>5. Balanced(0, NoDamage)' BY <1>1, <1>3, <1>4, NoDamageType, NextConserves
<1>6. Conservation' <=> Balanced(0, NoDamage)' BY <1>2, ConservationIsBalance, PTL
<1> QED BY <1>5, <1>6

LEMMA InitCovered == Init => Conservation /\ Covered
<1> SUFFICES ASSUME Init PROVE ~ cache.loaded
  BY NoDamageType DEF Conservation, Covered, Balanced
<1> QED BY DEF Init, Cold

LEMMA CoveredHolds ==
  ASSUME Steady
  PROVE  Spec => [](BadNews /\ Calm /\ Covered)
<1>1. Init => BadNews /\ Calm /\ Covered BY InitBadNews, InitCalm, InitCovered
<1>2. Custody /\ BadNews /\ [Next]_vars => BadNews'
  <2>1. "ambiguous" \notin Faults BY DEF Steady
  <2> QED BY <2>1, NextBadNews
<1>3. Custody /\ BadNews /\ Calm /\ Covered /\ [Next]_vars => Calm' /\ Covered'
  BY NextCalm, NextCovered
<1> QED BY <1>1, <1>2, <1>3, CustodyHolds, PTL DEF Spec

(***************************************************************************)
(* While the one thing that fails is a batch, by rolling back (drop and    *)
(* rebuild have no occasion then), Redis holds what Postgres               *)
(* holds plus the hits in flight, point for point and player for player:   *)
(* every refused or failed hit is taken back, once, whatever lands beside  *)
(* it (reconcileFailedWrite, the two scripts, CommitBatch).                *)
(***************************************************************************)
THEOREM StoresBalance ==
  ASSUME Forgiving
  PROVE  Spec => []Conservation
<1>1. Spec => [](BadNews /\ Calm /\ Covered)
  BY CoveredHolds DEF Forgiving, Steady
<1>2. Init => Conservation BY InitCovered
<1>3. Custody /\ BadNews /\ Calm /\ Conservation /\ [Next]_vars => Conservation'
  BY NextConservation
<1> QED BY <1>1, <1>2, <1>3, CustodyHolds, PTL DEF Spec

\* A covered boss has dealt no point twice.
LEMMA CoveredTotal ==
  ASSUME Custody, Calm, Covered
  PROVE  TotalDamage(ledger) <= MaxHP /\ cache.hp <= MaxHP
<1>1. TypeOK /\ cache.hp \in Nat BY DEF Custody, TypeOK, Cache
<1>2. CASE cache.loaded
  <2>1. PICK lost \in Nat, over \in [Players -> Nat] : Balanced(lost, over) BY DEF Covered
  <2> QED BY <1>1, <1>2, <2>1, FlightType, StoreAssumption DEF Balanced
<1>3. CASE ~ cache.loaded
  BY <1>3, UntouchedType, StoreAssumption DEF Calm, Dawn
<1> QED BY <1>2, <1>3

(***************************************************************************)
(* "total applied damage equals exactly max_hp once defeated"              *)
(* (ARCHITECT.md): the promise of min(hp, damage) holds for the stored     *)
(* total as long as no rebuild runs beside a hit and every COMMIT is       *)
(* answered, even if replies of Redis are lost (points are then missing    *)
(* from the cache, never dealt twice).                                     *)
(***************************************************************************)
THEOREM KillIsExact ==
  ASSUME Steady
  PROVE  Spec => []ExactKill
<1>1. Custody /\ Calm /\ Covered /\ LedgerConsistent => ExactKill
  <2> SUFFICES ASSUME Custody, Calm, Covered, LedgerConsistent PROVE ExactKill
    OBVIOUS
  <2>1. TypeOK BY DEF Custody
  <2>2. TotalDamage(ledger) <= MaxHP BY CoveredTotal
  <2>3. ledger.state = "defeated" => RecoveryHP(ledger) = 0
    BY DEF LedgerConsistent, LedgerAgrees
  <2> QED BY <2>1, <2>2, <2>3, FlightType, StoreAssumption DEF ExactKill, RecoveryHP
<1> QED BY <1>1, CoveredHolds, CustodyHolds, BooksBalance, PTL

(***************************************************************************)
(* ... and under the same faults reconcileFailedWrite "keeps the cache     *)
(* consistent": an undo never lifts the boss above its maximum.            *)
(***************************************************************************)
THEOREM CacheStaysWithinMax ==
  ASSUME Steady
  PROVE  Spec => []CacheWithinMax
<1>1. Custody /\ Calm /\ Covered => CacheWithinMax
  BY CoveredTotal DEF CacheWithinMax
<1> QED BY <1>1, CoveredHolds, CustodyHolds, PTL
=============================================================================
