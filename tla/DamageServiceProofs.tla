------------------------ MODULE DamageServiceProofs ------------------------
(***************************************************************************)
(* Theorems about DamageService, for any number of hits, players,          *)
(* committers, workers and GETs, any HP and any set of faults.             *)
(***************************************************************************)
EXTENDS DamageService, BossStoreTheorems

(***************************************************************************)
(* Types.                                                                  *)
(***************************************************************************)
LEMMA SnapType == NoSnap \in Snap /\ Begun \in Snap
<1>1. NoDamage \in [Players -> Nat] BY DEF NoDamage
<1>2. NoSnap \in Snap BY <1>1 DEF NoSnap, Snap, BossStates
<1> QED BY <1>2 DEF Begun, NoSnap, Snap

LEMMA InitType == Init => TypeOK
<1> SUFFICES ASSUME Init PROVE TypeOK
  OBVIOUS
<1>1. ledger \in Ledger BY UntouchedType DEF Init
<1>2. cache \in Cache BY ColdType DEF Init
<1>3. snap \in [Rebuilders -> Snap] BY SnapType DEF Init
<1> QED BY <1>1, <1>2, <1>3 DEF Init, TypeOK, Steps, Answers

LEMMA EnqueueType ==
  TypeOK /\ Enqueue => queued' \in BOOLEAN /\ backlog' \in BOOLEAN /\ asleep' \subseteq Workers
BY DEF TypeOK, Enqueue, healing

LEMMA StoreType ==
  ASSUME TypeOK, NEW B \in SUBSET Hits, Store(B)
  PROVE  ledger' \in Ledger /\ events' \subseteq Hits
<1>1. IsFiniteSet(B) BY ServiceAssumption, FS_Subset
<1>2. /\ ledger \in Ledger
      /\ \A h \in B : player[h] \in Players
      /\ \A h \in B : applied[h] \in Nat
  BY DEF TypeOK
<1>3. CommitBatch(ledger, B, player, applied) \in Ledger
  BY <1>1, <1>2, CommitBatchAgrees
<1> QED BY <1>3 DEF Store, TypeOK

LEMMA HandleType ==
  ASSUME TypeOK, NEW h \in Hits, Handle(h)
  PROVE  TypeOK'
<1> USE DEF TypeOK, Goto, handler, writer, durable, healing, request, Steps, Answers
<1> DEFINE res == DamageScript(cache, player[h], amount[h])
<1>1. /\ res.cache \in Cache /\ res.applied \in Nat
      /\ res.status \in {"applied", "defeated", "notloaded", "invalid"}
  BY DamageScriptType, ServiceAssumption
<1>2. CompensateScript(cache, player[h], applied[h]) \in Cache
  BY CompensateType
<1> HIDE DEF res
<1>3. CASE Arrive(h) BY <1>3 DEF Arrive
<1>4. CASE Apply(h)
  <2>1. [snap EXCEPT ![h] = Begun] \in [Rebuilders -> Snap]
    BY SnapType
  <2>2. snap' \in [Rebuilders -> Snap]
    BY <1>4, <2>1 DEF Apply
  <2>3. pc' \in [Hits -> Steps \cup Answers]
    BY <1>1, <1>4 DEF Apply, res
  <2> QED BY <1>1, <1>4, <2>2, <2>3 DEF Apply, res
<1>5. CASE Reapply(h)
  <2>1. pc' \in [Hits -> Steps \cup Answers]
    BY <1>1, <1>5 DEF Reapply, res
  <2> QED BY <1>1, <1>5, <2>1 DEF Reapply, res
<1>6. CASE ApplyFails(h) BY <1>1, <1>6 DEF ApplyFails, res
<1>7. CASE Submit(h) BY <1>7 DEF Submit
<1>8. CASE Await(h) BY <1>8 DEF Await
<1>9. CASE Cancelled(h) BY <1>9, EnqueueType DEF Cancelled
<1>10. CASE Undo(h) BY <1>2, <1>10 DEF Undo, Undoing, Undone, Refused
<1>11. CASE UndoFails(h)
  BY <1>2, <1>11, EnqueueType DEF UndoFails, Undoing, Undone, Refused
<1> QED BY <1>3, <1>4, <1>5, <1>6, <1>7, <1>8, <1>9, <1>10, <1>11 DEF Handle

LEMMA RebuildType ==
  ASSUME TypeOK, NEW r \in Rebuilders, Rebuild(r)
  PROVE  TypeOK'
<1> USE DEF TypeOK, handler, writer, durable, healing, request
<1>1. [snap EXCEPT ![r] = NoSnap] \in [Rebuilders -> Snap]
  BY SnapType
<1>2. \A step \in {"reapply", "notfound", "error"} :
        Resume(r, step) => /\ pc' \in [Hits -> Steps \cup Answers]
                           /\ server' \in {"starting", "up", "down"}
  BY DEF Resume, Steps, Answers
<1>3. Fetched(r) \in Cache
  BY DEF Fetched, Rehydrate, Cache, Snap
<1>4. CASE ReadState(r)
  <2>1. RecoveryHP(ledger) \in Nat /\ ledger.state \in BossStates
    BY TotalDamageNat DEF Ledger
  <2>2. [step |-> "contribs", hp |-> RecoveryHP(ledger),
         state |-> ledger.state, contribs |-> NoDamage] \in Snap
    BY <2>1 DEF Snap, NoDamage
  <2> QED BY <1>1, <1>2, <1>4, <2>2 DEF ReadState, Stop
<1>5. CASE ReadContribs(r)
  <2>1. ledger.contrib \in [Players -> Nat] BY DEF Ledger
  <2>2. [snap EXCEPT ![r].step = "write", ![r].contribs = ledger.contrib]
          \in [Rebuilders -> Snap]
    BY <2>1 DEF Snap
  <2> QED BY <1>5, <2>2 DEF ReadContribs
<1>6. CASE WriteCache(r) BY <1>1, <1>2, <1>3, <1>6 DEF WriteCache, Stop
<1>7. CASE RebuildFails(r) BY <1>1, <1>2, <1>3, <1>7 DEF RebuildFails, Stop
<1> QED BY <1>4, <1>5, <1>6, <1>7 DEF Rebuild

LEMMA CommitType ==
  ASSUME TypeOK, NEW w \in Committers, Commit(w)
  PROVE  TypeOK'
<1> USE DEF TypeOK, handler, writer, durable, healing, request
<1>1. CASE Receive(w) BY <1>1 DEF Receive
<1>2. CASE Flush(w) BY <1>2 DEF Flush
<1>3. CASE CommitOK(w)
  <2>1. ledger' \in Ledger /\ events' \subseteq Hits
    BY <1>3, StoreType DEF CommitOK
  <2> QED BY <1>3, <2>1 DEF CommitOK
<1>4. CASE CommitFails(w) BY <1>4 DEF CommitFails
<1>5. CASE CommitUnknown(w) BY <1>5 DEF CommitUnknown
<1>6. CASE Release(w) BY <1>6 DEF Release
<1> QED BY <1>1, <1>2, <1>3, <1>4, <1>5, <1>6 DEF Commit

LEMMA EnvironmentType == TypeOK /\ Environment => TypeOK'
<1> SUFFICES ASSUME TypeOK, Environment PROVE TypeOK'
  OBVIOUS
<1> USE DEF TypeOK, handler, writer, durable, healing, request
<1>1. CASE Expire BY <1>1, ColdType DEF Expire
<1>2. CASE Seed BY <1>2 DEF Seed
<1>3. CASE Crash
  <2>1. snap' \in [Rebuilders -> Snap] BY <1>3, SnapType DEF Crash
  <2>2. limbo' \subseteq SUBSET Hits BY <1>3 DEF Crash
  <2>3. pc' \in [Hits -> Steps \cup Answers] BY <1>3 DEF Crash, Steps, Answers
  <2> QED BY <1>3, <2>1, <2>2, <2>3 DEF Crash
<1>4. CASE Restart BY <1>4, SnapType DEF Restart, Start
<1>5. CASE \E B \in limbo : LateCommit(B) \/ LateAbort(B)
  <2>1. PICK B \in limbo : LateCommit(B) \/ LateAbort(B) BY <1>5
  <2>2. CASE LateCommit(B)
    <3>1. ledger' \in Ledger /\ events' \subseteq Hits
      BY <2>2, StoreType DEF LateCommit
    <3> QED BY <2>2, <3>1 DEF LateCommit
  <2>3. CASE LateAbort(B) BY <2>3 DEF LateAbort
  <2> QED BY <2>1, <2>2, <2>3
<1> QED BY <1>1, <1>2, <1>3, <1>4, <1>5 DEF Environment

LEMMA NextType == TypeOK /\ [Next]_vars => TypeOK'
<1> SUFFICES ASSUME TypeOK, [Next]_vars PROVE TypeOK'
  OBVIOUS
<1> USE DEF TypeOK, handler, writer, durable, healing, request
<1>1. CASE \E g \in Getters : Get(g)
  BY <1>1, SnapType DEF Get, Start, Rebuilders
<1>2. CASE \E k \in Workers : Heal(k)
  <2>1. PICK k \in Workers : Heal(k) BY <1>2
  <2>2. CASE TakeReconcile(k) BY <2>2 DEF TakeReconcile
  <2>3. CASE Settle(k) BY <2>3, SnapType DEF Settle, Start, Rebuilders
  <2> QED BY <2>1, <2>2, <2>3 DEF Heal
<1>3. CASE UNCHANGED vars BY <1>3 DEF vars
<1> QED
  BY <1>1, <1>2, <1>3, HandleType, RebuildType, CommitType, EnvironmentType DEF Next, Idle

(***************************************************************************)
(* The state of the service stays well formed; in particular no HP, score  *)
(* or total ever goes negative.                                            *)
(***************************************************************************)
THEOREM TypeCorrect == Spec => []TypeOK
<1>1. Init => TypeOK BY InitType
<1>2. TypeOK /\ [Next]_vars => TypeOK' BY NextType
<1> QED BY <1>1, <1>2, PTL DEF Spec

(***************************************************************************)
(* Custody: who holds a hit, and what its handler may then be doing.  None *)
(* of OneHome, AckedIsDurable and OverloadedIsNotStored is inductive: each *)
(* needs to know that only a handler past its send has a hit out of hand,  *)
(* and that good news follows the commit through phase, reply and pc.      *)
(***************************************************************************)
Handed == {"wait", "ok", "undo_failed", "failed", "cancelled", "lost"}

HandedOver == \A h \in Submitted \cup events : pc[h] \in Handed

GoodNews ==
  /\ \A w \in Committers : phase[w] = "nil" => batch[w] \subseteq events
  /\ \A h \in Hits : reply[h] = "nil" => h \in events
  /\ AckedIsDurable

OwnRebuild == \A h \in Hits : snap[h].step # "idle" => pc[h] = "rebuild"

Custody == TypeOK /\ HandedOver /\ OneHome /\ GoodNews /\ OwnRebuild

LEMMA SubmittedHits ==
  \A h : h \in Submitted <=> \/ h \in queue
                             \/ \E w \in Committers : h \in batch[w]
                             \/ \E B \in limbo : h \in B
BY DEF Submitted

LEMMA SameSubmitted ==
  ASSUME queue' = queue, batch' = batch, limbo' = limbo
  PROVE  Submitted' = Submitted
BY DEF Submitted

LEMMA InitCustody == Init => Custody
<1> SUFFICES ASSUME Init PROVE Custody
  OBVIOUS
<1>1. TypeOK BY InitType
<1>2. Submitted = {} BY DEF Init, Submitted
<1>3. HandedOver BY <1>2 DEF Init, HandedOver
<1>4. OneHome BY DEF Init, OneHome
<1>5. GoodNews BY DEF Init, GoodNews, AckedIsDurable
<1>6. OwnRebuild
  BY ServiceAssumption DEF Init, OwnRebuild, NoSnap, Rebuilders
<1> QED BY <1>1, <1>3, <1>4, <1>5, <1>6 DEF Custody

\* What the writer, the audit log and the waiters' channels hold.
Hands == <<writer, events, limbo, reply>>

(***************************************************************************)
(* A handler that moves on its own keeps custody, provided that it does    *)
(* not take a hit back out of hand and that it says ok to a stored one.    *)
(***************************************************************************)
LEMMA HandlerMoves ==
  ASSUME Custody, NEW h \in Hits, NEW step, Goto(h, step), UNCHANGED Hands,
         pc[h] \in Handed => step \in Handed,
         step = "ok" => h \in events
  PROVE  HandedOver' /\ OneHome' /\ GoodNews'
<1>1. /\ UNCHANGED <<queue, batch, phase, events, limbo, reply>>
      /\ pc \in [Hits -> Steps \cup Answers]
      /\ pc' = [pc EXCEPT ![h] = step]
      /\ events \subseteq Hits
  BY DEF Hands, writer, Goto, Custody, TypeOK
<1>2. Submitted' = Submitted BY <1>1, SameSubmitted
<1>3. Submitted \subseteq Hits BY DEF Submitted, Custody, TypeOK
<1>4. HandedOver'
  BY <1>1, <1>2, <1>3 DEF HandedOver, Custody
<1>5. OneHome' BY <1>1 DEF OneHome, Custody
<1>6. GoodNews' BY <1>1 DEF GoodNews, AckedIsDurable, Custody
<1> QED BY <1>4, <1>5, <1>6

LEMMA HandleCustody ==
  ASSUME Custody, TypeOK', NEW h \in Hits, Handle(h)
  PROVE  Custody'
<1>1. CASE Submit(h)
  <2>1. /\ pc \in [Hits -> Steps \cup Answers] /\ pc[h] = "submit"
        /\ UNCHANGED <<batch, phase, events, limbo, reply, snap>>
    BY <1>1 DEF Submit, Custody, TypeOK, durable
  <2>2. h \notin Submitted \cup events
    BY <2>1 DEF Custody, HandedOver, Handed
  <2>3. Submitted \subseteq Hits /\ events \subseteq Hits
    BY DEF Submitted, Custody, TypeOK
  <2>4. CASE queue' = queue \cup {h} /\ Goto(h, "wait")
    <3>1. \A g : g \in Submitted' <=> g \in Submitted \cup {h}
      <4>1. UNCHANGED <<batch, limbo>> BY <2>1
      <4>2. \A g : g \in Submitted' <=> \/ g \in queue'
                                        \/ \E w \in Committers : g \in batch'[w]
                                        \/ \E B \in limbo' : g \in B
        BY DEF Submitted
      <4> QED BY <2>4, <4>1, <4>2, SubmittedHits
    <3>2. HandedOver'
      BY <2>1, <2>2, <2>3, <2>4, <3>1 DEF HandedOver, Handed, Goto, Custody
    <3>3. OneHome'
      <4>1. h \notin events /\ h \notin UNION limbo /\ \A w \in Committers : h \notin batch[w]
        BY <2>2, SubmittedHits
      <4> QED BY <2>1, <2>4, <4>1 DEF OneHome, Custody
    <3>4. GoodNews'
      BY <2>1, <2>4 DEF GoodNews, AckedIsDurable, Goto, Custody
    <3>5. OwnRebuild'
      BY <2>1, <2>4 DEF OwnRebuild, Goto, Custody
    <3> QED BY <3>2, <3>3, <3>4, <3>5 DEF Custody
  <2>5. CASE Goto(h, "undo_full") /\ UNCHANGED queue
    <3>1. UNCHANGED Hands BY <2>1, <2>5 DEF Hands, writer
    <3>2. HandedOver' /\ OneHome' /\ GoodNews'
      BY <2>1, <2>5, <3>1, HandlerMoves DEF Handed
    <3>3. OwnRebuild'
      BY <2>1, <2>5 DEF OwnRebuild, Goto, Custody
    <3> QED BY <3>2, <3>3 DEF Custody
  <2> QED BY <1>1, <2>4, <2>5 DEF Submit
<1>2. CASE ~ Submit(h)
  <2>1. UNCHANGED Hands
    BY <1>2 DEF Handle, Arrive, Apply, Reapply, ApplyFails, Await, Cancelled, Undo,
                UndoFails, Hands, durable, writer
  <2>2. \E step : /\ Goto(h, step)
                  /\ pc[h] \in Handed => step \in Handed
                  /\ step = "ok" => h \in events
    <3>1. CASE Arrive(h) BY <3>1 DEF Arrive, Handed
    <3>2. DamageScript(cache, player[h], amount[h]).status
            \in {"applied", "defeated", "notloaded", "invalid"}
      BY DamageScriptType, ServiceAssumption DEF Custody, TypeOK
    <3>3. CASE Apply(h) BY <3>2, <3>3 DEF Apply, Handed
    <3>4. CASE Reapply(h) BY <3>2, <3>4 DEF Reapply, Handed
    <3>5. CASE ApplyFails(h) BY <3>5 DEF ApplyFails, Handed
    <3>6. CASE Await(h)
      BY <3>6 DEF Await, Handed, Custody, GoodNews
    <3>7. CASE Cancelled(h) BY <3>7 DEF Cancelled, Handed
    <3>8. CASE Undo(h) BY <3>8 DEF Undo, Undoing, Refused, Handed
    <3>9. CASE UndoFails(h) BY <3>9 DEF UndoFails, Undoing, Refused, Handed
    <3> QED BY <1>2, <3>1, <3>3, <3>4, <3>5, <3>6, <3>7, <3>8, <3>9 DEF Handle
  <2>3. HandedOver' /\ OneHome' /\ GoodNews'
    BY <2>1, <2>2, HandlerMoves
  <2>4. OwnRebuild'
    <3>1. pc \in [Hits -> Steps \cup Answers] /\ snap \in [Rebuilders -> Snap]
          /\ Hits \subseteq Rebuilders
      BY DEF Custody, TypeOK, Rebuilders
    <3>2. CASE Apply(h)
      BY <3>1, <3>2 DEF Apply, OwnRebuild, Goto, Custody
    <3>3. CASE ~ Apply(h)
      <4>1. UNCHANGED snap /\ pc[h] # "rebuild"
        BY <1>2, <3>3 DEF Handle, Arrive, Reapply, ApplyFails, Await, Cancelled, Undo,
                          UndoFails, Undoing
      <4> QED BY <2>2, <3>1, <4>1 DEF OwnRebuild, Goto, Custody
    <3> QED BY <3>2, <3>3
  <2> QED BY <2>3, <2>4 DEF Custody
<1> QED BY <1>1, <1>2

LEMMA RebuildCustody ==
  ASSUME Custody, TypeOK', NEW r \in Rebuilders, Rebuild(r)
  PROVE  Custody'
<1>1. UNCHANGED Hands
  BY DEF Rebuild, ReadState, ReadContribs, WriteCache, RebuildFails, Hands, durable, writer
<1>2. /\ UNCHANGED <<queue, batch, phase, events, limbo, reply>>
      /\ pc \in [Hits -> Steps \cup Answers] /\ snap \in [Rebuilders -> Snap]
      /\ Hits \subseteq Rebuilders /\ snap[r].step # "idle"
  BY <1>1 DEF Hands, writer, Custody, TypeOK, Rebuilders, Rebuild, ReadState, ReadContribs,
              WriteCache, RebuildFails
<1>3. CASE UNCHANGED pc /\ snap' = [snap EXCEPT ![r] = snap'[r]]
  <2>1. Submitted' = Submitted BY <1>2, SameSubmitted
  <2>2. HandedOver' /\ OneHome' /\ GoodNews'
    BY <1>2, <1>3, <2>1 DEF Custody, HandedOver, OneHome, GoodNews, AckedIsDurable
  <2>3. OwnRebuild' BY <1>2, <1>3 DEF Custody, OwnRebuild
  <2> QED BY <2>2, <2>3 DEF Custody
<1>4. CASE r \in Hits /\ \E step \in {"reapply", "notfound", "error"} : Goto(r, step) /\ Stop(r)
  <2>1. PICK step \in {"reapply", "notfound", "error"} : Goto(r, step) /\ Stop(r) BY <1>4
  <2>2. pc[r] = "rebuild" BY <1>2, <1>4 DEF Custody, OwnRebuild
  <2>3. HandedOver' /\ OneHome' /\ GoodNews'
    BY <1>1, <1>4, <2>1, <2>2, HandlerMoves DEF Handed
  <2>4. OwnRebuild'
    BY <1>2, <1>4, <2>1 DEF Custody, OwnRebuild, Stop, NoSnap, Goto
  <2> QED BY <2>3, <2>4 DEF Custody
<1>5. \A step : Stop(r) /\ Resume(r, step) /\ r \notin Hits
                  => UNCHANGED pc /\ snap' = [snap EXCEPT ![r] = snap'[r]]
  BY <1>2 DEF Stop, Resume
<1>6. \A step : Stop(r) /\ Resume(r, step) /\ r \in Hits => Goto(r, step)
  BY DEF Resume, Goto
<1>7. CASE ReadState(r)
  BY <1>2, <1>3, <1>4, <1>5, <1>6, <1>7 DEF ReadState
<1>8. CASE ReadContribs(r)
  <2>1. UNCHANGED pc BY <1>8 DEF ReadContribs, handler
  <2>2. snap' = [snap EXCEPT ![r] = snap'[r]]
    BY <1>2, <1>8 DEF ReadContribs
  <2> QED BY <1>3, <2>1, <2>2
<1>9. CASE WriteCache(r)
  BY <1>3, <1>4, <1>5, <1>6, <1>9 DEF WriteCache
<1>10. CASE RebuildFails(r)
  BY <1>3, <1>4, <1>5, <1>6, <1>10 DEF RebuildFails
<1> QED BY <1>7, <1>8, <1>9, <1>10 DEF Rebuild

LEMMA CommitCustody ==
  ASSUME Custody, TypeOK', NEW w \in Committers, Commit(w)
  PROVE  Custody'
<1> USE DEF writer, durable, handler, Custody
<1>1. /\ UNCHANGED <<pc, snap>>
      /\ batch \in [Committers -> SUBSET Hits]
      /\ phase \in [Committers -> {"collect", "commit", "nil", "failed"}]
      /\ reply \in [Hits -> {"none", "nil", "failed"}]
  BY DEF Commit, Receive, Flush, CommitOK, CommitFails, CommitUnknown, Release, TypeOK
<1>2. OwnRebuild' BY <1>1 DEF OwnRebuild
<1>3. \A g : g \in Submitted' <=> \/ g \in queue'
                                  \/ \E x \in Committers : g \in batch'[x]
                                  \/ \E B \in limbo' : g \in B
  BY DEF Submitted
<1>4. (Submitted' \cup events') \subseteq (Submitted \cup events) => HandedOver'
  BY <1>1 DEF HandedOver
<1>5. CASE Receive(w)
  <2>1. PICK h \in queue : /\ queue' = queue \ {h}
                           /\ batch' = [batch EXCEPT ![w] = @ \cup {h}]
    BY <1>5 DEF Receive
  <2>2. /\ UNCHANGED <<limbo, events, reply>>
        /\ phase[w] = "collect"
        /\ \E step \in {"commit", "collect"} : phase' = [phase EXCEPT ![w] = step]
    BY <1>1, <1>5 DEF Receive
  <2>3. (Submitted' \cup events') \subseteq (Submitted \cup events)
    BY <1>1, <1>3, <2>1, <2>2, SubmittedHits
  <2>4. OneHome' BY <1>1, <2>1, <2>2 DEF OneHome
  <2>5. GoodNews' BY <1>1, <2>1, <2>2 DEF GoodNews, AckedIsDurable
  <2> QED BY <1>2, <1>4, <2>3, <2>4, <2>5
<1>6. CASE Flush(w)
  <2>1. /\ UNCHANGED <<limbo, events, reply, queue, batch>>
        /\ phase[w] = "collect"
        /\ phase' = [phase EXCEPT ![w] = "commit"]
    BY <1>6 DEF Flush
  <2>2. Submitted' = Submitted BY <2>1, SameSubmitted
  <2>3. OneHome' BY <1>1, <2>1 DEF OneHome
  <2>4. GoodNews' BY <1>1, <2>1 DEF GoodNews, AckedIsDurable
  <2> QED BY <1>2, <1>4, <2>1, <2>2, <2>3, <2>4
<1>7. CASE CommitOK(w)
  <2>1. /\ UNCHANGED <<limbo, reply, queue, batch>>
        /\ phase[w] = "commit"
        /\ phase' = [phase EXCEPT ![w] = "nil"]
        /\ events' = events \cup batch[w]
    BY <1>7 DEF CommitOK, Store
  <2>2. (Submitted' \cup events') \subseteq (Submitted \cup events)
    BY <2>1, SameSubmitted, SubmittedHits
  <2>3. OneHome' BY <1>1, <2>1 DEF OneHome
  <2>4. GoodNews' BY <1>1, <2>1 DEF GoodNews, AckedIsDurable
  <2> QED BY <1>2, <1>4, <2>2, <2>3, <2>4
<1>8. CASE CommitFails(w) \/ CommitUnknown(w)
  <2>1. /\ UNCHANGED <<events, reply, queue, batch>>
        /\ phase[w] = "commit"
        /\ phase' = [phase EXCEPT ![w] = "failed"]
        /\ limbo' = limbo \/ limbo' = limbo \cup {batch[w]}
    BY <1>8 DEF CommitFails, CommitUnknown
  <2>2. (Submitted' \cup events') \subseteq (Submitted \cup events)
    BY <1>3, <2>1, SubmittedHits
  <2>3. OneHome' BY <1>1, <2>1 DEF OneHome
  <2>4. GoodNews' BY <1>1, <2>1 DEF GoodNews, AckedIsDurable
  <2> QED BY <1>2, <1>4, <2>2, <2>3, <2>4
<1>9. CASE Release(w)
  <2>1. /\ UNCHANGED <<events, limbo, queue>>
        /\ phase[w] \in {"nil", "failed"}
        /\ reply' = [h \in Hits |-> IF h \in batch[w] THEN phase[w] ELSE reply[h]]
        /\ batch' = [batch EXCEPT ![w] = {}]
        /\ phase' = [phase EXCEPT ![w] = "collect"]
    BY <1>9 DEF Release
  <2>2. (Submitted' \cup events') \subseteq (Submitted \cup events)
    BY <1>1, <1>3, <2>1, SubmittedHits
  <2>3. OneHome' BY <1>1, <2>1 DEF OneHome
  <2>4. GoodNews' BY <1>1, <2>1 DEF GoodNews, AckedIsDurable
  <2> QED BY <1>2, <1>4, <2>2, <2>3, <2>4
<1> QED BY <1>5, <1>6, <1>7, <1>8, <1>9 DEF Commit

LEMMA EnvironmentCustody ==
  ASSUME Custody, TypeOK', Environment
  PROVE  Custody'
<1> USE DEF writer, durable, handler, request, Custody
<1>1. \A g : g \in Submitted' <=> \/ g \in queue'
                                  \/ \E x \in Committers : g \in batch'[x]
                                  \/ \E B \in limbo' : g \in B
  BY DEF Submitted
<1>2. CASE Expire \/ Seed
  <2>1. UNCHANGED <<queue, batch, phase, events, limbo, reply, pc, snap>>
    BY <1>2 DEF Expire, Seed
  <2>2. Submitted' = Submitted BY <2>1, SameSubmitted
  <2> QED
    BY <2>1, <2>2 DEF HandedOver, OneHome, GoodNews, AckedIsDurable, OwnRebuild
<1>3. CASE Crash
  <2>1. /\ batch \in [Committers -> SUBSET Hits]
        /\ pc \in [Hits -> Steps \cup Answers]
        /\ UNCHANGED events
        /\ limbo' = limbo \cup {batch[x] : x \in {y \in Committers : phase[y] = "commit"}}
        /\ pc' = [h \in Hits |-> IF pc[h] \in Answers \cup {"idle"} THEN pc[h] ELSE "lost"]
        /\ reply' = [h \in Hits |-> "none"]
        /\ queue' = {}
        /\ batch' = [x \in Committers |-> {}]
        /\ phase' = [x \in Committers |-> "collect"]
        /\ snap' = [r \in Rebuilders |-> NoSnap]
        /\ events \subseteq Hits
    BY <1>3 DEF Crash, TypeOK
  <2>2. (Submitted' \cup events') \subseteq (Submitted \cup events)
    BY <1>1, <2>1, SubmittedHits
  <2>3. \A h \in Submitted \cup events : h \in Hits
    BY DEF TypeOK, Submitted
  <2>4. HandedOver'
    BY <2>1, <2>2, <2>3 DEF HandedOver, Handed
  <2>5. OneHome'
    <3>1. (UNION limbo') \cap events' = {}
      BY <2>1 DEF OneHome
    <3>2. \A B, C \in limbo' : B # C => B \cap C = {}
      BY <2>1 DEF OneHome
    <3> QED BY <2>1, <3>1, <3>2 DEF OneHome
  <2>6. GoodNews' BY <2>1 DEF GoodNews, AckedIsDurable
  <2>7. OwnRebuild' BY <2>1 DEF OwnRebuild, NoSnap, Rebuilders
  <2> QED BY <2>4, <2>5, <2>6, <2>7
<1>4. CASE Restart
  <2>1. UNCHANGED <<queue, batch, phase, events, limbo, reply, pc>>
    BY <1>4 DEF Restart
  <2>2. Submitted' = Submitted BY <2>1, SameSubmitted
  <2>3. \A h \in Hits : snap'[h] = snap[h]
    BY <1>4, ServiceAssumption DEF Restart, Start, Rebuilders, TypeOK
  <2> QED
    BY <2>1, <2>2, <2>3 DEF HandedOver, OneHome, GoodNews, AckedIsDurable, OwnRebuild
<1>5. CASE \E B \in limbo : LateCommit(B) \/ LateAbort(B)
  <2>1. PICK B \in limbo : LateCommit(B) \/ LateAbort(B) BY <1>5
  <2>2. /\ UNCHANGED <<queue, batch, phase, reply, pc, snap>>
        /\ limbo' = limbo \ {B}
        /\ events' = events \/ events' = events \cup B
    BY <2>1 DEF LateCommit, LateAbort, Store
  <2>3. (Submitted' \cup events') \subseteq (Submitted \cup events)
    BY <1>1, <2>1, <2>2, SubmittedHits
  <2>4. HandedOver' BY <2>2, <2>3 DEF HandedOver
  <2>5. OneHome' BY <2>1, <2>2 DEF OneHome
  <2>6. GoodNews' BY <2>2 DEF GoodNews, AckedIsDurable
  <2>7. OwnRebuild' BY <2>2 DEF OwnRebuild
  <2> QED BY <2>4, <2>5, <2>6, <2>7
<1> QED BY <1>2, <1>3, <1>4, <1>5 DEF Environment

LEMMA NextCustody == Custody /\ [Next]_vars => Custody'
<1> SUFFICES ASSUME Custody, [Next]_vars PROVE Custody'
  OBVIOUS
<1>1. TypeOK' BY NextType DEF Custody
<1>2. CASE \/ \E g \in Getters : Get(g)
           \/ \E k \in Workers : Heal(k)
           \/ UNCHANGED vars
  <2> USE DEF writer, durable, handler, Custody
  <2>1. UNCHANGED <<queue, batch, phase, events, limbo, reply, pc>>
    BY <1>2 DEF Get, Heal, TakeReconcile, Settle, vars
  <2>2. Submitted' = Submitted BY <2>1, SameSubmitted
  <2>3. \A h \in Hits : snap'[h] = snap[h]
    BY <1>2, ServiceAssumption
    DEF Get, Heal, TakeReconcile, Settle, vars, Start, Rebuilders, TypeOK
  <2> QED
    BY <1>1, <2>1, <2>2, <2>3 DEF HandedOver, OneHome, GoodNews, AckedIsDurable, OwnRebuild
<1> QED
  BY <1>1, <1>2, HandleCustody, RebuildCustody, CommitCustody, EnvironmentCustody
  DEF Next, Idle

THEOREM CustodyHolds == Spec => []Custody
<1>1. Init => Custody BY InitCustody
<1>2. Custody /\ [Next]_vars => Custody' BY NextCustody
<1> QED BY <1>1, <1>2, PTL DEF Spec

(***************************************************************************)
(* A 200 means stored: under every fault of AllFaults, crashes and lost    *)
(* commits included (the promise of POST /damage).                         *)
(***************************************************************************)
THEOREM NoFalseAck == Spec => []AckedIsDurable
<1>1. Custody => AckedIsDurable BY DEF Custody, GoodNews
<1> QED BY <1>1, CustodyHolds, PTL

(***************************************************************************)
(* A 503 means not stored, now and ever: a retry cannot count twice.       *)
(***************************************************************************)
THEOREM OverloadedMayRetry == Spec => []OverloadedIsNotStored
<1>1. Custody => OverloadedIsNotStored
  BY DEF Custody, HandedOver, OverloadedIsNotStored, Handed
<1> QED BY <1>1, CustodyHolds, PTL

(***************************************************************************)
(* No event is ever in two batches, nor stored twice.                      *)
(***************************************************************************)
THEOREM StoredOnce == Spec => []OneHome
<1>1. Custody => OneHome BY DEF Custody
<1> QED BY <1>1, CustodyHolds, PTL

(***************************************************************************)
(* Bad news: when the outcome of a COMMIT is never in doubt, a batch that  *)
(* is reported failed, and each of its waiters, has no event left anywhere.*)
(***************************************************************************)
BadNews ==
  /\ \A w \in Committers : phase[w] = "failed" => batch[w] \cap (events \cup (UNION limbo)) = {}
  /\ \A h \in Hits : reply[h] # "none" => pc[h] \in Handed
  /\ \A h \in Hits : reply[h] = "failed" \/ pc[h] \in {"undo_failed", "failed"}
                       => h \notin Submitted \cup events

\* Only Submit hands the writer a hit it did not have.
LEMMA Handover ==
  ASSUME Custody, [Next]_vars
  PROVE  \A h : h \in Submitted' \cup events' =>
           h \in Submitted \cup events \/ (h \in Hits /\ pc[h] = "submit")
<1> SUFFICES ASSUME NEW h, h \in Submitted' \cup events', h \notin Submitted \cup events
             PROVE  h \in Hits /\ pc[h] = "submit"
  OBVIOUS
<1> USE DEF writer, durable, handler
<1>1. /\ h \in events' \/ h \in queue' \/ (\E x \in Committers : h \in batch'[x])
           \/ \E B \in limbo' : h \in B
      /\ h \notin events /\ h \notin queue /\ (\A x \in Committers : h \notin batch[x])
           /\ \A B \in limbo : h \notin B
  BY DEF Submitted
<1>2. batch \in [Committers -> SUBSET Hits] BY DEF Custody, TypeOK
<1>3. CASE \E g \in Hits : Handle(g)
  <2>1. PICK g \in Hits : Handle(g) BY <1>3
  <2>2. CASE Submit(g) BY <1>1, <2>2 DEF Submit
  <2>3. CASE ~ Submit(g)
    BY <1>1, <2>1, <2>3 DEF Handle, Arrive, Apply, Reapply, ApplyFails, Await, Cancelled, Undo,
                            UndoFails
  <2> QED BY <2>2, <2>3
<1>4. CASE \E r \in Rebuilders : Rebuild(r)
  BY <1>1, <1>4 DEF Rebuild, ReadState, ReadContribs, WriteCache, RebuildFails
<1>5. CASE \E w \in Committers : Commit(w)
  BY <1>1, <1>2, <1>5 DEF Commit, Receive, Flush, CommitOK, CommitFails, CommitUnknown,
                          Release, Store
<1>6. CASE Environment
  BY <1>1, <1>2, <1>6 DEF Environment, Expire, Seed, Crash, Restart, LateCommit, LateAbort, Store
<1>7. CASE \/ \E g \in Getters : Get(g)
           \/ \E k \in Workers : Heal(k)
           \/ UNCHANGED vars
  BY <1>1, <1>7 DEF Get, Heal, TakeReconcile, Settle, vars
<1> QED BY <1>3, <1>4, <1>5, <1>6, <1>7 DEF Next, Idle

LEMMA InitBadNews == Init => BadNews
BY DEF Init, BadNews

LEMMA NextBadNews ==
  ASSUME "ambiguous" \notin Faults, Custody, BadNews, [Next]_vars
  PROVE  BadNews'
<1> USE DEF writer, durable, handler
<1>1. \A h : h \in Submitted' \cup events' =>
           h \in Submitted \cup events \/ (h \in Hits /\ pc[h] = "submit")
  BY Handover
<1>2. /\ batch \in [Committers -> SUBSET Hits] /\ pc \in [Hits -> Steps \cup Answers]
      /\ phase \in [Committers -> {"collect", "commit", "nil", "failed"}]
      /\ reply \in [Hits -> {"none", "nil", "failed"}]
  BY DEF Custody, TypeOK
\* A waiter with bad news has handed its hit over.
<1>3. \A h \in Hits : pc[h] = "submit" => reply[h] = "none"
  BY DEF BadNews, Handed
<1>4. ASSUME UNCHANGED <<batch, phase, events, limbo, reply>>, NEW h \in Hits, NEW step,
             Goto(h, step), pc[h] \in Handed => step \in Handed,
             step \in {"undo_failed", "failed"}
               => reply[h] = "failed" \/ pc[h] \in {"undo_failed", "failed"}
      PROVE  BadNews'
  <2>1. \A g \in Hits : pc'[g] \in {"undo_failed", "failed"} /\ reply'[g] = reply[g]
          => reply[g] = "failed" \/ pc[g] \in {"undo_failed", "failed"}
    BY <1>2, <1>4 DEF Goto
  <2>2. \A g \in Hits : reply'[g] = "failed" \/ pc'[g] \in {"undo_failed", "failed"}
          => g \notin Submitted' \cup events'
    BY <1>1, <1>2, <1>3, <1>4, <2>1 DEF BadNews
  <2> QED BY <1>2, <1>4, <2>2 DEF BadNews, Goto
<1>5. CASE \E h \in Hits : Handle(h)
  <2>1. PICK h \in Hits : Handle(h) BY <1>5
  <2>2. UNCHANGED <<batch, phase, events, limbo, reply>>
    BY <2>1 DEF Handle, Arrive, Apply, Reapply, ApplyFails, Submit, Await, Cancelled, Undo,
                UndoFails
  <2>3. \E step : /\ Goto(h, step)
                  /\ pc[h] \in Handed => step \in Handed
                  /\ step \in {"undo_failed", "failed"}
                       => reply[h] = "failed" \/ pc[h] \in {"undo_failed", "failed"}
    <3>1. CASE Arrive(h) BY <3>1 DEF Arrive, Handed
    <3>2. DamageScript(cache, player[h], amount[h]).status
            \in {"applied", "defeated", "notloaded", "invalid"}
      BY DamageScriptType, ServiceAssumption DEF Custody, TypeOK
    <3>3. CASE Apply(h) BY <3>2, <3>3 DEF Apply, Handed
    <3>4. CASE Reapply(h) BY <3>2, <3>4 DEF Reapply, Handed
    <3>5. CASE ApplyFails(h) BY <3>5 DEF ApplyFails, Handed
    <3>6. CASE Submit(h) BY <3>6 DEF Submit, Handed
    <3>7. CASE Await(h) BY <1>2, <3>7 DEF Await, Handed
    <3>8. CASE Cancelled(h) BY <3>8 DEF Cancelled, Handed
    <3>9. CASE Undo(h) BY <3>9 DEF Undo, Undoing, Refused, Handed
    <3>10. CASE UndoFails(h) BY <3>10 DEF UndoFails, Undoing, Refused, Handed
    <3> QED
      BY <2>1, <3>1, <3>3, <3>4, <3>5, <3>6, <3>7, <3>8, <3>9, <3>10 DEF Handle
  <2> QED BY <1>4, <2>2, <2>3
<1>6. CASE \E r \in Rebuilders : Rebuild(r)
  <2>1. PICK r \in Rebuilders : Rebuild(r) BY <1>6
  <2>2. UNCHANGED <<batch, phase, events, limbo, reply>>
    BY <2>1 DEF Rebuild, ReadState, ReadContribs, WriteCache, RebuildFails
  <2>3. \/ UNCHANGED pc
        \/ r \in Hits /\ \E step \in {"reapply", "notfound", "error"} : Goto(r, step)
    BY <2>1 DEF Rebuild, ReadState, ReadContribs, WriteCache, RebuildFails, Resume, Goto
  <2>4. CASE UNCHANGED pc
    BY <1>1, <1>3, <2>2, <2>4 DEF BadNews
  <2>5. CASE r \in Hits /\ \E step \in {"reapply", "notfound", "error"} : Goto(r, step)
    <3>1. pc[r] = "rebuild"
      BY <2>1, <2>5 DEF Custody, OwnRebuild, Rebuild, ReadState, ReadContribs, WriteCache,
                        RebuildFails
    <3> QED BY <1>4, <2>2, <2>5, <3>1 DEF Handed
  <2> QED BY <2>3, <2>4, <2>5
<1>7. CASE \E w \in Committers : Commit(w)
  <2>1. PICK w \in Committers : Commit(w) BY <1>7
  <2>2. UNCHANGED pc
    BY <2>1 DEF Commit, Receive, Flush, CommitOK, CommitFails, CommitUnknown, Release
  <2>3. ~ CommitUnknown(w) BY DEF CommitUnknown
  <2>4. CASE Release(w)
    <3>1. /\ reply' = [h \in Hits |-> IF h \in batch[w] THEN phase[w] ELSE reply[h]]
          /\ phase[w] \in {"nil", "failed"}
          /\ batch' = [batch EXCEPT ![w] = {}]
          /\ phase' = [phase EXCEPT ![w] = "collect"]
          /\ UNCHANGED <<queue, events, limbo>>
      BY <2>4 DEF Release
    <3>2. ASSUME NEW h \in batch[w], phase[w] = "failed"
          PROVE  h \notin Submitted' \cup events'
      <4>1. /\ h \notin queue /\ h \notin events /\ h \notin UNION limbo
            /\ \A x \in Committers \ {w} : h \notin batch[x]
        BY <3>2 DEF Custody, OneHome, BadNews
      <4> QED BY <1>2, <3>1, <4>1 DEF Submitted
    <3>3. \A h \in batch[w] : pc[h] \in Handed
      BY SubmittedHits DEF Custody, HandedOver
    <3> QED BY <1>1, <1>2, <1>3, <2>2, <3>1, <3>2, <3>3 DEF BadNews
  <2>5. CASE ~ Release(w)
    <3>1. reply' = reply
      BY <2>1, <2>5 DEF Commit, Receive, Flush, CommitOK, CommitFails, CommitUnknown
    <3>2. \A x \in Committers : phase'[x] = "failed"
            => batch'[x] \cap (events' \cup (UNION limbo')) = {}
      <4>1. CASE Receive(w) BY <1>2, <4>1 DEF Receive, BadNews
      <4>2. CASE Flush(w) BY <1>2, <4>2 DEF Flush, BadNews
      <4>3. CASE CommitOK(w)
        BY <1>2, <4>3 DEF CommitOK, Store, BadNews, Custody, OneHome
      <4>4. CASE CommitFails(w)
        BY <1>2, <4>4 DEF CommitFails, BadNews, Custody, OneHome
      <4> QED BY <2>1, <2>3, <2>5, <4>1, <4>2, <4>3, <4>4 DEF Commit
    <3> QED BY <1>1, <1>3, <2>2, <3>1, <3>2 DEF BadNews
  <2> QED BY <2>4, <2>5
<1>8. CASE Crash
  <2>1. /\ pc' = [h \in Hits |-> IF pc[h] \in Answers \cup {"idle"} THEN pc[h] ELSE "lost"]
        /\ reply' = [h \in Hits |-> "none"]
        /\ phase' = [x \in Committers |-> "collect"]
    BY <1>8 DEF Crash
  <2> QED BY <1>1, <1>3, <2>1 DEF BadNews
<1>9. CASE Environment /\ ~ Crash
  <2>1. UNCHANGED <<pc, batch, phase, reply>>
    BY <1>9 DEF Environment, Expire, Seed, Restart, LateCommit, LateAbort, request
  <2>2. (events' \cup (UNION limbo')) \subseteq (events \cup (UNION limbo))
    BY <1>9 DEF Environment, Expire, Seed, Restart, LateCommit, LateAbort, request, Store
  <2> QED BY <1>1, <1>3, <2>1, <2>2 DEF BadNews
<1>10. CASE \/ \E g \in Getters : Get(g)
            \/ \E k \in Workers : Heal(k)
            \/ UNCHANGED vars
  <2>1. UNCHANGED <<pc, batch, phase, reply, events, limbo>>
    BY <1>10 DEF Get, Heal, TakeReconcile, Settle, vars
  <2> QED BY <1>1, <1>3, <2>1 DEF BadNews
<1> QED BY <1>5, <1>6, <1>7, <1>8, <1>9, <1>10 DEF Next, Environment, Idle

(***************************************************************************)
(* ErrCommitFailed means what store.go says of it, "the event did not      *)
(* persist and won't be retried", as long as Postgres answers every COMMIT *)
(* (no "ambiguous" fault): with crashes, cancelled clients, lost Redis     *)
(* calls and any number of committers.                                     *)
(***************************************************************************)
THEOREM FailedMeansNotStored ==
  ASSUME "ambiguous" \notin Faults
  PROVE  Spec => []FailedIsNotStored
<1>1. Init => BadNews BY InitBadNews
<1>2. Custody /\ BadNews /\ [Next]_vars => BadNews' BY NextBadNews
<1>3. BadNews => FailedIsNotStored BY DEF BadNews, FailedIsNotStored
<1> QED BY <1>1, <1>2, <1>3, CustodyHolds, PTL DEF Spec

(***************************************************************************)
(* The writer in here is the one of GroupWriter with the order of the      *)
(* channel, the timer and Stop left out.  It keeps the same promise: while *)
(* the process lives and Postgres answers every COMMIT, the handlers see a *)
(* DurableWriter that loses no answer (Submit and commit).  After a crash  *)
(* writer.go promises nothing, and what it does promise of a COMMIT in     *)
(* doubt is with GroupWriter (LostAnswers).                                *)
(***************************************************************************)
Pending ==
  queue \cup (UNION {batch[w] : w \in {x \in Committers : phase[x] \in {"collect", "commit"}}})

\* What the handler's place tells of a hit that is neither stored nor pending ...
FateAt(step) == IF step \in {"undo_full", "overloaded"} THEN "refused"
                ELSE IF step \in Handed THEN "lost"
                ELSE "new"

\* ... and of what Submit has returned.
AnswerAt(step) == IF step = "ok" THEN "nil"
                  ELSE IF step \in {"undo_failed", "failed"} THEN "failed"
                  ELSE IF step \in {"undo_full", "overloaded"} THEN "refused"
                  ELSE IF step \in {"cancelled", "lost"} THEN "gone"
                  ELSE "none"

fateOf == [h \in Hits |-> IF h \in events THEN "stored"
                          ELSE IF h \in Pending THEN "accepted"
                          ELSE FateAt(pc[h])]

answerOf == [h \in Hits |-> AnswerAt(pc[h])]

Promise == INSTANCE DurableWriter WITH
             Reqs <- Hits, LostAnswers <- FALSE, fate <- fateOf, answer <- answerOf

Reliable == Faults \cap {"ambiguous", "crash"} = {}

\* Nothing is stored behind the writer's back.
InControl == Custody /\ BadNews /\ limbo = {}

LEMMA PendingIs ==
  /\ \A h : h \in Pending <=> \/ h \in queue
                              \/ \E w \in Committers : /\ phase[w] \in {"collect", "commit"}
                                                       /\ h \in batch[w]
  /\ \A h : h \in Pending' <=> \/ h \in queue'
                               \/ \E w \in Committers : /\ phase'[w] \in {"collect", "commit"}
                                                        /\ h \in batch'[w]
  /\ \A h \in Pending : h \in Submitted
<1>1. \A h : h \in Pending <=> \/ h \in queue
                               \/ \E w \in Committers : /\ phase[w] \in {"collect", "commit"}
                                                        /\ h \in batch[w]
  BY DEF Pending
<1>2. \A h : h \in Pending' <=> \/ h \in queue'
                                \/ \E w \in Committers : /\ phase'[w] \in {"collect", "commit"}
                                                         /\ h \in batch'[w]
  BY DEF Pending
<1> QED BY <1>1, <1>2, SubmittedHits

LEMMA SameView ==
  ASSUME UNCHANGED <<pc, events>>, \A h \in Hits : h \in Pending' <=> h \in Pending
  PROVE  UNCHANGED Promise!vars
<1>1. fateOf' = fateOf BY DEF fateOf
<1>2. answerOf' = answerOf BY DEF answerOf
<1> QED BY <1>1, <1>2 DEF Promise!vars

\* A handler moves, and the writer does not.
LEMMA HandlerView ==
  ASSUME InControl, NEW h \in Hits, NEW step, Goto(h, step),
         UNCHANGED <<queue, batch, phase, events>>
  PROVE  /\ h \in events \/ h \in Pending \/ FateAt(step) = FateAt(pc[h]) => UNCHANGED fateOf
         /\ answerOf' = [answerOf EXCEPT ![h] = AnswerAt(step)]
<1>1. pc \in [Hits -> Steps \cup Answers] BY DEF InControl, Custody, TypeOK
<1>2. pc' = [pc EXCEPT ![h] = step] BY DEF Goto
<1>3. Pending' = Pending BY DEF Pending
<1>4. ASSUME h \in events \/ h \in Pending \/ FateAt(step) = FateAt(pc[h])
      PROVE  UNCHANGED fateOf
  BY <1>1, <1>2, <1>3, <1>4 DEF fateOf
<1>5. answerOf' = [answerOf EXCEPT ![h] = AnswerAt(step)] BY <1>1, <1>2 DEF answerOf
<1> QED BY <1>4, <1>5

\* ... and neither has anything to do with Submit.
LEMMA HandlerStutters ==
  ASSUME InControl, NEW h \in Hits, NEW step, Goto(h, step),
         UNCHANGED <<queue, batch, phase, events>>,
         FateAt(step) = FateAt(pc[h]), AnswerAt(step) = AnswerAt(pc[h])
  PROVE  UNCHANGED Promise!vars
<1>1. UNCHANGED fateOf /\ answerOf' = [answerOf EXCEPT ![h] = AnswerAt(step)]
  BY HandlerView
<1>2. answerOf[h] = AnswerAt(step) BY DEF answerOf
<1>3. answerOf' = answerOf BY <1>1, <1>2 DEF answerOf
<1> QED BY <1>1, <1>3 DEF Promise!vars

LEMMA HandleKeepsPromise ==
  ASSUME InControl, NEW h \in Hits, Handle(h)
  PROVE  Promise!Next \/ UNCHANGED Promise!vars
<1> USE DEF handler, writer, durable
<1>1. /\ pc \in [Hits -> Steps \cup Answers] /\ reply[h] \in {"none", "nil", "failed"}
      /\ DamageScript(cache, player[h], amount[h]).status
           \in {"applied", "defeated", "notloaded", "invalid"}
  BY DamageScriptType, ServiceAssumption DEF InControl, Custody, TypeOK
<1>2. CASE Arrive(h) \/ Apply(h) \/ Reapply(h) \/ ApplyFails(h)
  <2>1. /\ UNCHANGED <<queue, batch, phase, events>>
        /\ pc[h] \in {"idle", "apply", "reapply"}
        /\ \E step \in {"invalid", "apply", "submit", "rebuild", "notfound", "defeated", "error"} :
             Goto(h, step)
    BY <1>1, <1>2 DEF Arrive, Apply, Reapply, ApplyFails
  <2>2. PICK step \in {"invalid", "apply", "submit", "rebuild", "notfound", "defeated", "error"} :
          Goto(h, step)
    BY <2>1
  <2>3. FateAt(step) = FateAt(pc[h]) /\ AnswerAt(step) = AnswerAt(pc[h])
    BY <2>1 DEF FateAt, AnswerAt, Handed
  <2> QED BY <2>1, <2>2, <2>3, HandlerStutters
<1>3. CASE Undo(h) \/ UndoFails(h)
  <2>1. /\ UNCHANGED <<queue, batch, phase, events>>
        /\ Undoing(h) /\ Goto(h, Refused(h))
    BY <1>3 DEF Undo, UndoFails
  <2>2. FateAt(Refused(h)) = FateAt(pc[h]) /\ AnswerAt(Refused(h)) = AnswerAt(pc[h])
    BY <2>1 DEF FateAt, AnswerAt, Handed, Undoing, Refused
  <2> QED BY <2>1, <2>2, HandlerStutters
<1>4. CASE Submit(h)
  <2>1. pc[h] = "submit" /\ UNCHANGED <<batch, phase, events>> BY <1>4 DEF Submit
  <2>2. h \notin Submitted \cup events
    BY <2>1 DEF InControl, Custody, HandedOver, Handed
  <2>3. fateOf[h] = "new" /\ answerOf[h] = "none" /\ h \notin Pending
    BY <2>1, <2>2, PendingIs DEF fateOf, answerOf, FateAt, AnswerAt, Handed
  <2>4. CASE queue' = queue \cup {h} /\ Goto(h, "wait")
    <3>1. \A g \in Hits : g \in Pending' <=> g = h \/ g \in Pending BY <2>1, <2>4, PendingIs
    <3>2. pc' = [pc EXCEPT ![h] = "wait"] BY <2>4 DEF Goto
    <3>3. fateOf' = [fateOf EXCEPT ![h] = "accepted"]
      BY <1>1, <2>1, <2>2, <3>1, <3>2 DEF fateOf
    <3>4. answerOf' = answerOf
      BY <1>1, <2>1, <3>2 DEF answerOf, AnswerAt
    <3>5. Promise!Accept(h) BY <2>3, <3>3, <3>4 DEF Promise!Accept
    <3> QED BY <3>5 DEF Promise!Next
  <2>5. CASE Goto(h, "undo_full") /\ UNCHANGED queue
    <3>1. answerOf' = [answerOf EXCEPT ![h] = "refused"]
      BY <2>1, <2>5, HandlerView DEF AnswerAt
    <3>2. pc' = [pc EXCEPT ![h] = "undo_full"] /\ Pending' = Pending
      BY <2>1, <2>5 DEF Goto, Pending
    <3>3. fateOf' = [fateOf EXCEPT ![h] = "refused"]
      BY <1>1, <2>1, <2>2, <2>3, <3>2 DEF fateOf, FateAt
    <3>4. Promise!Refuse(h) BY <2>3, <3>1, <3>3 DEF Promise!Refuse
    <3> QED BY <3>4 DEF Promise!Next
  <2> QED BY <1>4, <2>4, <2>5 DEF Submit
<1>5. CASE Await(h)
  <2>1. /\ pc[h] = "wait" /\ UNCHANGED <<queue, batch, phase, events>>
        /\ answerOf[h] = "none"
    BY <1>5 DEF Await, answerOf, AnswerAt
  <2>2. CASE reply[h] = "nil"
    <3>1. h \in events /\ Goto(h, "ok")
      BY <1>5, <2>2 DEF Await, InControl, Custody, GoodNews
    <3>2. UNCHANGED fateOf /\ answerOf' = [answerOf EXCEPT ![h] = "nil"]
      BY <2>1, <3>1, HandlerView DEF AnswerAt
    <3>3. fateOf[h] = "stored" BY <3>1 DEF fateOf
    <3>4. Promise!Answer(h) BY <2>1, <3>2, <3>3 DEF Promise!Answer
    <3> QED BY <3>4 DEF Promise!Next
  <2>3. CASE reply[h] = "failed"
    <3>1. Goto(h, "undo_failed") BY <1>5, <2>3 DEF Await
    <3>2. h \notin Submitted \cup events BY <2>3 DEF InControl, BadNews
    <3>3. FateAt("undo_failed") = "lost" /\ FateAt(pc[h]) = "lost"
      BY <2>1 DEF FateAt, Handed
    <3>4. UNCHANGED fateOf /\ answerOf' = [answerOf EXCEPT ![h] = "failed"]
      BY <2>1, <3>1, <3>3, HandlerView DEF AnswerAt
    <3>5. fateOf[h] = "lost" BY <3>2, <3>3, PendingIs DEF fateOf
    <3>6. Promise!Answer(h) BY <2>1, <3>4, <3>5 DEF Promise!Answer
    <3> QED BY <3>6 DEF Promise!Next
  <2> QED BY <1>1, <1>5, <2>2, <2>3 DEF Await
<1>6. CASE Cancelled(h)
  <2>1. /\ pc[h] = "wait" /\ UNCHANGED <<queue, batch, phase, events>>
        /\ Goto(h, "cancelled")
    BY <1>6 DEF Cancelled
  <2>2. FateAt("cancelled") = FateAt(pc[h]) /\ FateAt(pc[h]) = "lost" BY <2>1 DEF FateAt, Handed
  <2>3. UNCHANGED fateOf /\ answerOf' = [answerOf EXCEPT ![h] = "gone"]
    BY <2>1, <2>2, HandlerView DEF AnswerAt
  <2>4. answerOf[h] = "none" /\ fateOf[h] \in {"accepted", "stored", "lost"}
    BY <2>1, <2>2 DEF answerOf, fateOf, AnswerAt
  <2>5. Promise!GiveUp(h) BY <2>3, <2>4 DEF Promise!GiveUp
  <2> QED BY <2>5 DEF Promise!Next
<1> QED BY <1>2, <1>3, <1>4, <1>5, <1>6 DEF Handle

LEMMA CommitKeepsPromise ==
  ASSUME InControl, Reliable, NEW w \in Committers, Commit(w)
  PROVE  Promise!Next \/ UNCHANGED Promise!vars
<1> USE DEF handler, writer, durable
<1>1. /\ batch \in [Committers -> SUBSET Hits] /\ pc \in [Hits -> Steps \cup Answers]
      /\ phase \in [Committers -> {"collect", "commit", "nil", "failed"}]
      /\ UNCHANGED pc
  BY DEF InControl, Custody, TypeOK, Commit, Receive, Flush, CommitOK, CommitFails,
         CommitUnknown, Release
<1>2. /\ batch[w] \cap queue = {}
      /\ phase[w] \in {"collect", "commit"} => batch[w] \cap events = {}
      /\ \A x \in Committers \ {w} : batch[w] \cap batch[x] = {}
  BY DEF InControl, Custody, OneHome
<1>3. CASE Receive(w)
  <2>1. PICK h \in queue : /\ queue' = queue \ {h}
                           /\ batch' = [batch EXCEPT ![w] = @ \cup {h}]
    BY <1>3 DEF Receive
  <2>2. /\ UNCHANGED events /\ phase[w] = "collect"
        /\ \E step \in {"commit", "collect"} : phase' = [phase EXCEPT ![w] = step]
    BY <1>1, <1>3 DEF Receive
  <2>3. \A g \in Hits : g \in Pending' <=> g \in Pending
    BY <1>1, <2>1, <2>2, PendingIs
  <2> QED BY <1>1, <2>2, <2>3, SameView
<1>4. CASE Flush(w)
  <2>1. /\ UNCHANGED <<queue, batch, events>> /\ phase[w] = "collect"
        /\ phase' = [phase EXCEPT ![w] = "commit"]
    BY <1>4 DEF Flush
  <2>2. \A g \in Hits : g \in Pending' <=> g \in Pending BY <1>1, <2>1, PendingIs
  <2> QED BY <1>1, <2>1, <2>2, SameView
\* The batch is decided on as a whole.
<1>5. CASE CommitOK(w) \/ CommitFails(w)
  <2>1. PICK outcome \in {"stored", "lost"} :
          /\ phase[w] = "commit" /\ UNCHANGED <<queue, batch>>
          /\ events' = IF outcome = "stored" THEN events \cup batch[w] ELSE events
          /\ \E step \in {"nil", "failed"} : phase' = [phase EXCEPT ![w] = step]
    BY <1>5 DEF CommitOK, CommitFails, Store
  <2>2. \A g \in Hits : g \in Pending' <=> g \in Pending /\ g \notin batch[w]
    BY <1>1, <1>2, <2>1, PendingIs
  <2>3. batch[w] \subseteq Hits BY <1>1
  <2>4. \A h \in batch[w] : h \in Pending /\ h \notin events /\ pc[h] \in Handed \ {"ok"}
    <3> SUFFICES ASSUME NEW h \in batch[w]
                 PROVE  h \in Pending /\ h \notin events /\ pc[h] \in Handed \ {"ok"}
      OBVIOUS
    <3>1. h \in Pending /\ h \notin events /\ h \in Submitted /\ h \in Hits
      BY <1>2, <2>1, <2>3, PendingIs
    <3>2. pc[h] \in Handed BY <3>1 DEF InControl, Custody, HandedOver
    <3>3. pc[h] # "ok" BY <3>1 DEF InControl, Custody, GoodNews, AckedIsDurable
    <3> QED BY <3>1, <3>2, <3>3
  <2>5. \A h \in batch[w] : fateOf[h] = "accepted" /\ fateOf'[h] = outcome
    <3>1. \A h \in batch[w] : FateAt(pc[h]) = "lost" BY <2>4 DEF FateAt, Handed
    <3> QED BY <1>1, <2>1, <2>2, <2>3, <2>4, <3>1 DEF fateOf
  <2>6. \A h \in Hits : h \notin batch[w] => fateOf'[h] = fateOf[h]
    BY <1>1, <2>1, <2>2 DEF fateOf
  <2>7. fateOf' = [h \in Hits |-> IF h \in batch[w] THEN outcome ELSE fateOf[h]]
    <3>1. fateOf' = [h \in Hits |-> fateOf'[h]] BY DEF fateOf
    <3> QED BY <2>5, <2>6, <3>1
  <2>8. answerOf' = answerOf BY <1>1 DEF answerOf
  <2>9. CASE batch[w] = {}
    <3>1. fateOf' = fateOf BY <2>7, <2>9 DEF fateOf
    <3> QED BY <2>8, <3>1 DEF Promise!vars
  <2>10. CASE batch[w] # {}
    <3>1. Promise!Decide(batch[w], outcome)
      BY <2>5, <2>7, <2>8, <2>10 DEF Promise!Decide
    <3>2. batch[w] \in SUBSET {h \in Hits : fateOf[h] = "accepted"} BY <2>3, <2>5
    <3> QED BY <3>1, <3>2 DEF Promise!Next
  <2> QED BY <2>9, <2>10
<1>6. CASE Release(w)
  <2>1. /\ UNCHANGED <<queue, events>> /\ phase[w] \in {"nil", "failed"}
        /\ batch' = [batch EXCEPT ![w] = {}]
        /\ phase' = [phase EXCEPT ![w] = "collect"]
    BY <1>6 DEF Release
  <2>2. \A g \in Hits : g \in Pending' <=> g \in Pending BY <1>1, <2>1, PendingIs
  <2> QED BY <1>1, <2>1, <2>2, SameView
<1>7. CASE CommitUnknown(w) BY <1>7 DEF CommitUnknown, Reliable
<1> QED BY <1>3, <1>4, <1>5, <1>6, <1>7 DEF Commit
\* A rebuild moves the handler that runs it, if any does, and nobody else.
LEMMA RebuildKeepsPromise ==
  ASSUME InControl, NEW r \in Rebuilders, Rebuild(r)
  PROVE  UNCHANGED Promise!vars
<1> USE DEF handler, writer, durable
<1>1. UNCHANGED <<queue, batch, phase, events>> /\ snap[r].step # "idle"
  BY DEF Rebuild, ReadState, ReadContribs, WriteCache, RebuildFails
<1>2. CASE UNCHANGED pc
  <2>1. \A g \in Hits : g \in Pending' <=> g \in Pending BY <1>1, PendingIs
  <2> QED BY <1>1, <1>2, <2>1, SameView
<1>3. CASE r \in Hits /\ \E step \in {"reapply", "notfound", "error"} : Goto(r, step)
  <2>1. PICK step \in {"reapply", "notfound", "error"} : Goto(r, step) BY <1>3
  <2>2. pc[r] = "rebuild" BY <1>1, <1>3 DEF InControl, Custody, OwnRebuild
  <2>3. FateAt(step) = FateAt(pc[r]) /\ AnswerAt(step) = AnswerAt(pc[r])
    BY <2>2 DEF FateAt, AnswerAt, Handed
  <2> QED BY <1>1, <1>3, <2>1, <2>3, HandlerStutters
<1>4. \A step : Resume(r, step) => IF r \in Hits THEN Goto(r, step) ELSE UNCHANGED pc
  BY DEF Resume, Goto
<1> QED
  BY <1>2, <1>3, <1>4 DEF Rebuild, ReadState, ReadContribs, WriteCache, RebuildFails

\* GETs, the reconciler and the environment are no business of the writer's.
LEMMA OthersKeepPromise ==
  ASSUME InControl, Reliable,
         \/ \E g \in Getters : Get(g)
         \/ \E k \in Workers : Heal(k)
         \/ Environment
         \/ UNCHANGED vars
  PROVE  UNCHANGED Promise!vars
<1> USE DEF handler, writer, durable
<1>1. "crash" \notin Faults /\ limbo = {} BY DEF Reliable, InControl
<1>2. UNCHANGED <<queue, batch, phase, events, pc>>
  BY <1>1 DEF Get, Heal, TakeReconcile, Settle, Environment, Expire, Seed, Crash, Restart, vars
<1>3. \A g \in Hits : g \in Pending' <=> g \in Pending BY <1>2, PendingIs
<1> QED BY <1>2, <1>3, SameView

LEMMA NextInControl ==
  ASSUME Reliable, InControl, [Next]_vars
  PROVE  InControl'
<1>1. "ambiguous" \notin Faults /\ "crash" \notin Faults BY DEF Reliable
<1>2. Custody' BY NextCustody DEF InControl
<1>3. BadNews' BY <1>1, NextBadNews DEF InControl
<1>4. limbo' = {}
  <2> USE <1>1 DEF InControl, durable, writer
  <2>1. CASE \E h \in Hits : Handle(h)
    BY <2>1 DEF Handle, Arrive, Apply, Reapply, ApplyFails, Submit, Await, Cancelled, Undo, UndoFails
  <2>2. CASE \E r \in Rebuilders : Rebuild(r)
    BY <2>2 DEF Rebuild, ReadState, ReadContribs, WriteCache, RebuildFails
  <2>3. CASE \E w \in Committers : Commit(w)
    BY <2>3 DEF Commit, Receive, Flush, CommitOK, CommitFails, CommitUnknown, Release
  <2>4. CASE \/ \E g \in Getters : Get(g)
             \/ \E k \in Workers : Heal(k)
             \/ Environment
             \/ UNCHANGED vars
    BY <2>4 DEF Get, Heal, TakeReconcile, Settle, Environment, Expire, Seed, Crash, Restart, vars
  <2> QED BY <2>1, <2>2, <2>3, <2>4 DEF Next, Idle
<1> QED BY <1>2, <1>3, <1>4 DEF InControl

LEMMA InitKeepsPromise == Init => InControl /\ Promise!Init
<1> SUFFICES ASSUME Init PROVE InControl /\ Promise!Init
  OBVIOUS
<1>1. InControl BY InitCustody, InitBadNews DEF Init, InControl
<1>2. events = {} /\ Pending = {} /\ pc = [h \in Hits |-> "idle"] BY DEF Init, Pending
<1>3. fateOf = [h \in Hits |-> "new"] BY <1>2 DEF fateOf, FateAt, Handed
<1>4. answerOf = [h \in Hits |-> "none"] BY <1>2 DEF answerOf, AnswerAt
<1> QED BY <1>1, <1>3, <1>4 DEF Promise!Init

(***************************************************************************)
(* The handlers, the committers and the tables of the damage path together *)
(* implement DurableWriter's safety, for any number of hits and committers *)
(* and with every fault but the two of Reliable: a hit is refused at once  *)
(* or accepted; a batch is stored or lost as a whole, once; a handler that *)
(* waits long enough hears what became of its hit, and a handler that does *)
(* not leaves without a word (Writer.Submit, Writer.commit).               *)
(***************************************************************************)
THEOREM ServiceKeepsPromise ==
  ASSUME Reliable
  PROVE  Spec => Promise!Safety
<1>1. Init => InControl /\ Promise!Init BY InitKeepsPromise
<1>2. InControl /\ [Next]_vars => InControl' BY NextInControl
<1>3. InControl /\ [Next]_vars => [Promise!Next]_(Promise!vars)
  <2> SUFFICES ASSUME InControl, [Next]_vars
               PROVE  Promise!Next \/ UNCHANGED Promise!vars
    OBVIOUS
  <2>1. CASE \E h \in Hits : Handle(h) BY <2>1, HandleKeepsPromise
  <2>2. CASE \E r \in Rebuilders : Rebuild(r) BY <2>2, RebuildKeepsPromise
  <2>3. CASE \E w \in Committers : Commit(w) BY <2>3, CommitKeepsPromise
  <2>4. CASE \/ \E g \in Getters : Get(g)
             \/ \E k \in Workers : Heal(k)
             \/ Environment
             \/ UNCHANGED vars
    BY <2>4, OthersKeepPromise
  <2> QED BY <2>1, <2>2, <2>3, <2>4 DEF Next, Idle
<1> QED BY <1>1, <1>2, <1>3, PTL DEF Spec, Promise!Safety
=============================================================================
