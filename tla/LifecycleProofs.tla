-------------------------- MODULE LifecycleProofs --------------------------
(***************************************************************************)
(* Theorems about Lifecycle, for any number of handlers, bosses and        *)
(* workers, any size of the intake, and any timeouts.                      *)
(***************************************************************************)
EXTENDS Lifecycle, TLAPS

(***************************************************************************)
(* Types.                                                                  *)
(***************************************************************************)
LEMMA InitType == Init => TypeOK
<1> SUFFICES ASSUME Init PROVE TypeOK
  OBVIOUS
<1>1. Idle \in [at : {"idle", "delay", "rebuild"}, boss : Bosses]
  BY LifecycleAssumption DEF Idle
<1> QED BY <1>1, LifecycleAssumption DEF Init, TypeOK, Running, Over

LEMMA GotoType ==
  ASSUME TypeOK, NEW h \in Handlers, NEW time \in Nat,
         NEW step \in {"submit", "wait", "undo", "ask", "send", "drop"} \cup Over,
         Goto(h, step, time)
  PROVE  /\ pc' \in [Handlers -> {"new", "submit", "wait", "undo", "ask", "send", "drop"} \cup Over]
         /\ left' \in [Handlers -> Nat]
BY DEF TypeOK, Goto, Over

\* What a handler's step leaves to be shown.
LEMMA StepType ==
  ASSUME TypeOK, NEW h \in Handlers, NEW time \in Nat,
         NEW step \in {"submit", "wait", "undo", "ask", "send", "drop"} \cup Over,
         Goto(h, step, time), UNCHANGED <<server, patience, enough, work>>,
         pending' \subseteq Handlers, reply' \in [Handlers -> {"none", "nil", "failed"}],
         ch' \in Seq(Bosses) /\ Len(ch') <= QueueSize,
         queued' \subseteq Bosses, asked' \subseteq Bosses
  PROVE  TypeOK'
BY GotoType DEF TypeOK, Running

LEMMA HandleType ==
  ASSUME TypeOK, NEW h \in Handlers, Arrive(h) \/ Handle(h)
  PROVE  TypeOK'
<1> USE DEF writer, reconciler, Over
<1>1. /\ pending \subseteq Handlers /\ reply \in [Handlers -> {"none", "nil", "failed"}]
      /\ ch \in Seq(Bosses) /\ Len(ch) <= QueueSize /\ queued \subseteq Bosses
      /\ asked \subseteq Bosses /\ left[h] \in Nat /\ BossOf[h] \in Bosses
      /\ RequestTime \in Nat /\ UndoTime \in Nat /\ 0 \in Nat
  BY LifecycleAssumption DEF TypeOK
<1>2. CASE Arrive(h) BY <1>1, <1>2, StepType DEF Arrive
<1>3. CASE Submit(h)
  <2>1. CASE pending' = pending \cup {h} /\ Goto(h, "wait", left[h])
    BY <1>1, <1>3, <2>1, StepType DEF Submit
  <2>2. CASE pending' = pending /\ Goto(h, "undo", UndoTime)
    BY <1>1, <1>3, <2>2, StepType DEF Submit
  <2>3. CASE pending' = pending /\ Goto(h, "panic", 0)
    BY <1>1, <1>3, <2>3, StepType DEF Submit
  <2> QED BY <1>3, <2>1, <2>2, <2>3 DEF Submit
<1>4. CASE Answered(h)
  <2>1. reply' \in [Handlers -> {"none", "nil", "failed"}] BY <1>1, <1>4 DEF Answered
  <2>2. CASE Goto(h, "done", 0) BY <1>1, <1>4, <2>1, <2>2, StepType DEF Answered
  <2>3. CASE Goto(h, "undo", UndoTime) BY <1>1, <1>4, <2>1, <2>3, StepType DEF Answered
  <2> QED BY <1>4, <2>2, <2>3 DEF Answered
<1>5. CASE Cancelled(h)
  <2>1. reply' \in [Handlers -> {"none", "nil", "failed"}] BY <1>1, <1>5 DEF Cancelled
  <2> QED BY <1>1, <1>5, <2>1, StepType DEF Cancelled
<1>6. CASE Undo(h)
  <2>1. CASE Goto(h, "done", 0) BY <1>1, <1>6, <2>1, StepType DEF Undo
  <2>2. CASE Goto(h, "ask", 0) BY <1>1, <1>6, <2>2, StepType DEF Undo
  <2> QED BY <1>6, <2>1, <2>2 DEF Undo
<1>7. CASE Ask(h)
  <2>1. /\ queued' \subseteq Bosses /\ asked' \subseteq Bosses
        /\ UNCHANGED <<server, patience, enough, work, pending, reply, ch>>
    BY <1>1, <1>7 DEF Ask
  <2>2. CASE Goto(h, "done", 0) BY <1>1, <2>1, <2>2, StepType
  <2>3. CASE Goto(h, "send", 0) BY <1>1, <2>1, <2>3, StepType
  <2> QED BY <1>7, <2>2, <2>3 DEF Ask
<1>8. CASE Send(h)
  <2>1. ch' \in Seq(Bosses) /\ Len(ch') <= QueueSize
    <3>1. Len(ch) < QueueSize => /\ Append(ch, BossOf[h]) \in Seq(Bosses)
                                 /\ Len(Append(ch, BossOf[h])) <= QueueSize
      BY <1>1, LifecycleAssumption
    <3> QED BY <1>1, <1>8, <3>1 DEF Send
  <2>2. UNCHANGED <<server, patience, enough, work, pending, reply, queued, asked>>
    BY <1>8 DEF Send
  <2>3. CASE Goto(h, "leak", 0) BY <1>1, <2>1, <2>2, <2>3, StepType
  <2>4. CASE Goto(h, "done", 0) BY <1>1, <2>1, <2>2, <2>4, StepType
  <2>5. CASE Goto(h, "drop", 0) BY <1>1, <2>1, <2>2, <2>5, StepType
  <2> QED BY <1>8, <2>3, <2>4, <2>5 DEF Send
<1>9. CASE Drop(h)
  <2>1. queued' \subseteq Bosses /\ asked' \subseteq Bosses BY <1>1, <1>9 DEF Drop
  <2> QED BY <1>1, <1>9, <2>1, StepType DEF Drop
<1> QED BY <1>2, <1>3, <1>4, <1>5, <1>6, <1>7, <1>8, <1>9 DEF Handle

LEMMA ReconcileType ==
  ASSUME TypeOK, NEW w \in Workers, Reconcile(w)
  PROVE  TypeOK'
<1> USE LifecycleAssumption DEF TypeOK, others, writer, Over, Running
<1>1. CASE Take(w)
  <2>1. /\ Head(ch) \in Bosses /\ Tail(ch) \in Seq(Bosses) /\ Len(Tail(ch)) <= QueueSize
    BY <1>1 DEF Take
  <2> QED BY <1>1, <2>1 DEF Take
<1>2. CASE Settle(w) BY <1>2 DEF Settle
<1>3. CASE Rebuilt(w)
  <2>1. Idle \in [at : {"idle", "delay", "rebuild"}, boss : Bosses] BY DEF Idle
  <2> QED BY <1>3, <2>1 DEF Rebuilt
<1> QED BY <1>1, <1>2, <1>3 DEF Reconcile

LEMMA NextType == TypeOK /\ [Next]_vars => TypeOK'
<1> SUFFICES ASSUME TypeOK, [Next]_vars PROVE TypeOK'
  OBVIOUS
<1> USE DEF TypeOK, Over, Running
<1>1. ASSUME NEW h \in Handlers, Arrive(h) \/ Handle(h) PROVE TypeOK'
  BY <1>1, HandleType
<1>2. ASSUME NEW w \in Workers, Reconcile(w) PROVE TypeOK'
  BY <1>2, ReconcileType
<1>3. CASE Write BY <1>3 DEF Write, Flush, reconciler
<1>4. CASE Signal \/ ListenFails
  BY <1>4 DEF Signal, ListenFails, rest, writer, reconciler
<1>5. CASE Shutdown
  BY <1>5 DEF Shutdown, ShutdownReturns, WriterStopped, ReconcilerStopped, rest, writer, reconciler
<1>6. CASE Tick
  <2>1. left' \in [Handlers -> Nat] /\ patience' \in Nat BY <1>6 DEF Tick
  <2> QED BY <1>6, <2>1 DEF Tick, writer, reconciler
<1>7. CASE UNCHANGED vars BY <1>7 DEF vars, writer, reconciler
<1> QED BY <1>1, <1>2, <1>3, <1>4, <1>5, <1>6, <1>7 DEF Next, Ended

(***************************************************************************)
(* Every variable keeps its type, and the intake its size (Enqueue).       *)
(***************************************************************************)
THEOREM LifecycleTyped == Spec => []TypeOK
BY InitType, NextType, PTL DEF Spec

(***************************************************************************)
(* The slots of the reconciler.  Carriers, sorted by their kind.           *)
(***************************************************************************)
Senders(b)  == {h \in Handlers : pc[h] \in {"send", "drop", "leak"} /\ BossOf[h] = b}
Places(b)   == {i \in 1 .. Len(ch) : ch[i] = b}
Sleepers(b) == {w \in Workers : work[w].at = "delay" /\ work[w].boss = b}

None(b) == Senders(b) = {} /\ Places(b) = {} /\ Sleepers(b) = {}

One(b) == \/ (\E h : Senders(b) = {h}) /\ Places(b) = {} /\ Sleepers(b) = {}
          \/ Senders(b) = {} /\ (\E i : Places(b) = {i}) /\ Sleepers(b) = {}
          \/ Senders(b) = {} /\ Places(b) = {} /\ (\E w : Sleepers(b) = {w})

LEMMA SlotsAreCarriers ==
  OneSlot <=> \A b \in Bosses : IF b \in queued THEN One(b) ELSE None(b)
<1> SUFFICES ASSUME NEW b \in Bosses
             PROVE  /\ (\E c \in Carriers(b) : Carriers(b) = {c}) <=> One(b)
                    /\ Carriers(b) = {} <=> None(b)
  BY DEF OneSlot
<1> DEFINE S == Senders(b)
           P == Places(b)
           W == Sleepers(b)
           all == ({"handler"} \X S) \cup ({"intake"} \X P) \cup ({"worker"} \X W)
<1>1. Carriers(b) = all
  BY DEF Carriers, Senders, Places, Sleepers
<1>2. /\ \A h \in S : <<"handler", h>> \in all
      /\ \A i \in P : <<"intake", i>> \in all
      /\ \A w \in W : <<"worker", w>> \in all
  OBVIOUS
<1>3. \A c \in all : \/ c[1] = "handler" /\ c[2] \in S /\ c = <<"handler", c[2]>>
                     \/ c[1] = "intake" /\ c[2] \in P /\ c = <<"intake", c[2]>>
                     \/ c[1] = "worker" /\ c[2] \in W /\ c = <<"worker", c[2]>>
  OBVIOUS
<1> HIDE DEF S, P, W, all
<1>4. all = {} <=> S = {} /\ P = {} /\ W = {}
  BY <1>2, <1>3
<1>5. ASSUME NEW c \in all, all = {c} PROVE One(b)
  <2>1. \A h \in S : <<"handler", h>> = c BY <1>2, <1>5
  <2>2. \A i \in P : <<"intake", i>> = c BY <1>2, <1>5
  <2>3. \A w \in W : <<"worker", w>> = c BY <1>2, <1>5
  <2>4. CASE c[1] = "handler" /\ c[2] \in S
    <3>1. S = {c[2]} /\ P = {} /\ W = {} BY <2>1, <2>2, <2>3, <2>4
    <3> QED BY <3>1 DEF One, S, P, W
  <2>5. CASE c[1] = "intake" /\ c[2] \in P
    <3>1. S = {} /\ P = {c[2]} /\ W = {} BY <2>1, <2>2, <2>3, <2>5
    <3> QED BY <3>1 DEF One, S, P, W
  <2>6. CASE c[1] = "worker" /\ c[2] \in W
    <3>1. S = {} /\ P = {} /\ W = {c[2]} BY <2>1, <2>2, <2>3, <2>6
    <3> QED BY <3>1 DEF One, S, P, W
  <2> QED BY <1>3, <2>4, <2>5, <2>6
<1>6. ASSUME One(b) PROVE \E c \in all : all = {c}
  <2>1. CASE (\E h : S = {h}) /\ P = {} /\ W = {}
    <3>1. PICK h : S = {h} BY <2>1
    <3>2. all = {<<"handler", h>>} BY <1>2, <1>3, <2>1, <3>1
    <3> QED BY <3>2
  <2>2. CASE S = {} /\ (\E i : P = {i}) /\ W = {}
    <3>1. PICK i : P = {i} BY <2>2
    <3>2. all = {<<"intake", i>>} BY <1>2, <1>3, <2>2, <3>1
    <3> QED BY <3>2
  <2>3. CASE S = {} /\ P = {} /\ (\E w : W = {w})
    <3>1. PICK w : W = {w} BY <2>3
    <3>2. all = {<<"worker", w>>} BY <1>2, <1>3, <2>3, <3>1
    <3> QED BY <3>2
  <2> QED BY <1>6, <2>1, <2>2, <2>3 DEF One, S, P, W
<1> QED BY <1>1, <1>4, <1>5, <1>6 DEF None, S, P, W

Slots == \A b \in Bosses : IF b \in queued THEN One(b) ELSE None(b)

\* What leaves the three kinds alone keeps the slots.
LEMMA SlotsKept ==
  ASSUME Slots, queued' = queued,
         \A b \in Bosses : /\ Senders(b)' = Senders(b) /\ Places(b)' = Places(b)
                           /\ Sleepers(b)' = Sleepers(b)
  PROVE  Slots'
BY DEF Slots, One, None

LEMMA AskSlots ==
  ASSUME TypeOK, Slots, NEW h \in Handlers, Ask(h)
  PROVE  Slots'
<1> DEFINE b == BossOf[h]
           step == IF b \in queued THEN "done" ELSE "send"
<1>1. b \in Bosses BY LifecycleAssumption
<1>2. /\ pc[h] = "ask" /\ pc' = [pc EXCEPT ![h] = step]
      /\ queued' = queued \cup {b} /\ UNCHANGED <<ch, work>>
  BY DEF Ask, Goto
<1>3. h \notin Senders(b) BY <1>2 DEF Senders
<1>4. \A c \in Bosses : Senders(c)' = IF c = b /\ b \notin queued THEN Senders(c) \cup {h}
                                      ELSE Senders(c)
  BY <1>2, <1>3 DEF Senders, TypeOK
<1>5. \A c \in Bosses : Places(c)' = Places(c) /\ Sleepers(c)' = Sleepers(c)
  BY <1>2 DEF Places, Sleepers
<1>6. CASE b \in queued
  <2>1. queued' = queued BY <1>2, <1>6
  <2> QED BY <1>4, <1>5, <1>6, <2>1, SlotsKept
<1>7. CASE b \notin queued
  <2>1. None(b) BY <1>1, <1>7 DEF Slots
  <2>2. One(b)' BY <1>1, <1>4, <1>5, <1>7, <2>1 DEF One, None
  <2> QED BY <1>2, <1>4, <1>5, <2>2 DEF Slots, One, None
<1> QED BY <1>6, <1>7

\* A boss with a sender has no other carrier.
LEMMA SenderAlone ==
  ASSUME TypeOK, Slots, NEW h \in Handlers, pc[h] \in {"send", "drop", "leak"}
  PROVE  /\ BossOf[h] \in queued /\ BossOf[h] \in Bosses
         /\ Senders(BossOf[h]) = {h}
         /\ Places(BossOf[h]) = {} /\ Sleepers(BossOf[h]) = {}
<1>1. BossOf[h] \in Bosses /\ h \in Senders(BossOf[h])
  BY LifecycleAssumption DEF Senders
<1> QED BY <1>1 DEF Slots, One, None

LEMMA SendSlots ==
  ASSUME TypeOK, Slots, NEW h \in Handlers, Send(h)
  PROVE  Slots'
<1> DEFINE b == BossOf[h]
<1>1. /\ pc[h] = "send" /\ UNCHANGED <<queued, work>>
  BY DEF Send
<1>2. /\ b \in queued /\ b \in Bosses /\ Senders(b) = {h}
      /\ Places(b) = {} /\ Sleepers(b) = {}
  BY <1>1, SenderAlone
<1>3. \A c \in Bosses : Sleepers(c)' = Sleepers(c) BY <1>1 DEF Sleepers
<1>4. CASE ch' = Append(ch, b) /\ pc' = [pc EXCEPT ![h] = "done"]
  <2>1. \A c \in Bosses : Senders(c)' = IF c = b THEN {} ELSE Senders(c)
    BY <1>2, <1>4 DEF Senders, TypeOK
  <2>2. /\ Len(ch') = Len(ch) + 1 /\ Len(ch) \in Nat /\ ch'[Len(ch) + 1] = b
        /\ \A i \in 1 .. Len(ch) : ch'[i] = ch[i]
    BY <1>4, <1>2 DEF TypeOK
  <2>3. \A c \in Bosses : Places(c)' = IF c = b THEN {Len(ch) + 1} ELSE Places(c)
    BY <1>2, <2>2 DEF Places
  <2>4. One(b)' BY <1>2, <1>3, <2>1, <2>3 DEF One
  <2> QED BY <1>1, <1>2, <1>3, <2>1, <2>3, <2>4 DEF Slots, One, None
<1>5. CASE ch' = ch /\ \E step \in {"drop", "leak"} : pc' = [pc EXCEPT ![h] = step]
  <2>1. \A c \in Bosses : Senders(c)' = Senders(c)
    BY <1>1, <1>5 DEF Senders, TypeOK
  <2>2. \A c \in Bosses : Places(c)' = Places(c) BY <1>5 DEF Places
  <2> QED BY <1>1, <1>3, <2>1, <2>2, SlotsKept
<1> QED BY <1>4, <1>5 DEF Send, Goto

LEMMA DropSlots ==
  ASSUME TypeOK, Slots, NEW h \in Handlers, Drop(h)
  PROVE  Slots'
<1> DEFINE b == BossOf[h]
<1>1. /\ pc[h] = "drop" /\ pc' = [pc EXCEPT ![h] = "done"]
      /\ queued' = queued \ {b} /\ UNCHANGED <<ch, work>>
  BY DEF Drop, Goto
<1>2. /\ b \in queued /\ b \in Bosses /\ Senders(b) = {h}
      /\ Places(b) = {} /\ Sleepers(b) = {}
  BY <1>1, SenderAlone
<1>3. \A c \in Bosses : Senders(c)' = IF c = b THEN {} ELSE Senders(c)
  BY <1>1, <1>2 DEF Senders, TypeOK
<1>4. \A c \in Bosses : Places(c)' = Places(c) /\ Sleepers(c)' = Sleepers(c)
  BY <1>1 DEF Places, Sleepers
<1>5. None(b)' BY <1>2, <1>3, <1>4 DEF None
<1> QED BY <1>1, <1>3, <1>4, <1>5 DEF Slots, One, None

LEMMA TakeSlots ==
  ASSUME TypeOK, Slots, NEW w \in Workers, Take(w)
  PROVE  Slots'
<1>0. PICK b \in Bosses : ch # <<>> /\ b = Head(ch) /\ b = ch[1]
  BY DEF Take, TypeOK
<1>1. /\ work[w].at = "idle" /\ ch # <<>>
      /\ work' = [work EXCEPT ![w] = [at |-> "delay", boss |-> b]]
      /\ ch' = Tail(ch) /\ UNCHANGED <<pc, queued>>
  BY <1>0 DEF Take, others
<1>2. /\ Len(ch) \in Nat \ {0} /\ b = ch[1] /\ b \in Bosses
      /\ Len(ch') = Len(ch) - 1 /\ \A i \in 1 .. Len(ch) - 1 : ch'[i] = ch[i + 1]
  BY <1>0, <1>1 DEF TypeOK
<1>3. \A c \in Bosses : Senders(c)' = Senders(c) BY <1>1 DEF Senders
<1>4. \A c \in Bosses : Sleepers(c)' = IF c = b THEN Sleepers(c) \cup {w} ELSE Sleepers(c)
  BY <1>1 DEF Sleepers, TypeOK
<1>5. /\ b \in queued /\ Senders(b) = {} /\ Sleepers(b) = {} /\ Places(b) = {1}
  <2>1. 1 \in Places(b) BY <1>2 DEF Places
  <2> QED BY <1>2, <2>1 DEF Slots, One, None
<1>6. \A c \in Bosses : Places(c)' = {i - 1 : i \in Places(c) \ {1}}
  <2> SUFFICES ASSUME NEW c \in Bosses PROVE Places(c)' = {i - 1 : i \in Places(c) \ {1}}
    OBVIOUS
  <2>1. \A j : j \in Places(c)' <=> j \in 1 .. Len(ch) - 1 /\ ch[j + 1] = c
    BY <1>2 DEF Places
  <2>2. \A j \in 1 .. Len(ch) - 1 : j + 1 \in 1 .. Len(ch) /\ j + 1 # 1 /\ j = (j + 1) - 1
    BY <1>2
  <2>3. \A i \in (1 .. Len(ch)) \ {1} : i - 1 \in 1 .. Len(ch) - 1 /\ (i - 1) + 1 = i
    BY <1>2
  <2> QED BY <2>1, <2>2, <2>3 DEF Places
<1>7. One(b)'
  <2>1. /\ Senders(b)' = {} /\ Sleepers(b)' = {w} /\ Places(b)' = {}
    BY <1>2, <1>3, <1>4, <1>5, <1>6
  <2>2. Senders(b)' = {} /\ Places(b)' = {} /\ \E v : Sleepers(b)' = {v} BY <2>1
  <2> QED BY <2>2 DEF One
<1>8. ASSUME NEW c \in Bosses, c # b
      PROVE  IF c \in queued THEN One(c)' ELSE None(c)'
  <2>1. 1 \notin Places(c) BY <1>2, <1>8 DEF Places
  <2>2. Places(c)' = {i - 1 : i \in Places(c)} BY <1>6, <2>1
  <2>3. \A i : Places(c) = {i} => Places(c)' = {i - 1} BY <2>2
  <2>4. Places(c) = {} => Places(c)' = {} BY <2>2
  <2>5. IF c \in queued THEN One(c) ELSE None(c) BY DEF Slots
  <2>6. Senders(c)' = Senders(c) /\ Sleepers(c)' = Sleepers(c) BY <1>3, <1>4, <1>8
  <2> QED BY <2>3, <2>4, <2>5, <2>6 DEF One, None
<1> QED BY <1>1, <1>5, <1>7, <1>8 DEF Slots

LEMMA SettleSlots ==
  ASSUME TypeOK, Slots, NEW w \in Workers, Settle(w)
  PROVE  Slots'
<1>0. PICK b \in Bosses : b = work[w].boss
  BY DEF TypeOK
<1>1. /\ work[w].at = "delay" /\ work' = [work EXCEPT ![w].at = "rebuild"]
      /\ queued' = queued \ {b} /\ UNCHANGED <<ch, pc>>
  BY <1>0 DEF Settle, others
<1>2. b \in Bosses /\ w \in Sleepers(b) BY <1>0, <1>1 DEF TypeOK, Sleepers
<1>3. Senders(b) = {} /\ Places(b) = {} /\ Sleepers(b) = {w}
  BY <1>2 DEF Slots, One, None
<1>4. \A c \in Bosses : Senders(c)' = Senders(c) /\ Places(c)' = Places(c)
  BY <1>1 DEF Senders, Places
<1>5. \A c \in Bosses : Sleepers(c)' = IF c = b THEN {} ELSE Sleepers(c)
  BY <1>0, <1>1, <1>3 DEF Sleepers, TypeOK
<1>6. None(b)' BY <1>2, <1>3, <1>4, <1>5 DEF None
<1> QED BY <1>1, <1>4, <1>5, <1>6 DEF Slots, One, None

LEMMA RebuiltSlots ==
  ASSUME TypeOK, Slots, NEW w \in Workers, Rebuilt(w)
  PROVE  Slots'
<1>1. /\ work[w].at = "rebuild" /\ work' = [work EXCEPT ![w] = Idle]
      /\ UNCHANGED <<ch, queued, pc>>
  BY DEF Rebuilt, others
<1>2. \A c \in Bosses : Senders(c)' = Senders(c) /\ Places(c)' = Places(c)
  BY <1>1 DEF Senders, Places
<1>3. \A c \in Bosses : Sleepers(c)' = Sleepers(c)
  BY <1>1 DEF Sleepers, TypeOK, Idle
<1> QED BY <1>1, <1>2, <1>3, SlotsKept

\* The other steps of a handler are none of the reconciler's business.
LEMMA OtherSlots ==
  ASSUME TypeOK, Slots, NEW h \in Handlers,
         Arrive(h) \/ Submit(h) \/ Answered(h) \/ Cancelled(h) \/ Undo(h)
  PROVE  Slots'
<1>1. /\ UNCHANGED <<ch, queued, work>>
      /\ pc[h] \notin {"send", "drop", "leak"}
      /\ \E step : step \notin {"send", "drop", "leak"} /\ pc' = [pc EXCEPT ![h] = step]
  BY DEF Arrive, Submit, Answered, Cancelled, Undo, Goto, reconciler
<1>2. \A c \in Bosses : h \notin Senders(c) BY <1>1 DEF Senders
<1>3. \A c \in Bosses : Senders(c)' = Senders(c) BY <1>1, <1>2 DEF Senders, TypeOK
<1>4. \A c \in Bosses : Places(c)' = Places(c) /\ Sleepers(c)' = Sleepers(c)
  BY <1>1 DEF Places, Sleepers
<1> QED BY <1>1, <1>3, <1>4, SlotsKept

LEMMA NextSlots ==
  ASSUME TypeOK, Slots, [Next]_vars
  PROVE  Slots'
<1>1. ASSUME NEW h \in Handlers, Arrive(h) \/ Handle(h) PROVE Slots'
  BY <1>1, AskSlots, SendSlots, DropSlots, OtherSlots DEF Handle
<1>2. ASSUME NEW w \in Workers, Reconcile(w) PROVE Slots'
  BY <1>2, TakeSlots, SettleSlots, RebuiltSlots DEF Reconcile
<1>3. ASSUME UNCHANGED <<pc, ch, queued, work>> PROVE Slots'
  <2>1. \A b \in Bosses : /\ Senders(b)' = Senders(b) /\ Places(b)' = Places(b)
                          /\ Sleepers(b)' = Sleepers(b)
    BY <1>3 DEF Senders, Places, Sleepers
  <2> QED BY <1>3, <2>1, SlotsKept
<1> QED BY <1>1, <1>2, <1>3
        DEF Next, Write, Flush, Signal, ListenFails, Shutdown, ShutdownReturns, WriterStopped,
            ReconcilerStopped, Tick, Ended, vars, rest, reconciler

LEMMA InitSlots == Init => Slots
<1> SUFFICES ASSUME Init PROVE Slots
  OBVIOUS
<1>1. \A b \in Bosses : None(b)
  BY DEF Init, None, Senders, Places, Sleepers, Idle
<1> QED BY <1>1 DEF Slots, Init

(***************************************************************************)
(* The set and the intake of the reconciler agree in every interleaving of *)
(* Enqueue's two steps with each other and with the workers.               *)
(***************************************************************************)
THEOREM SlotsAgree == Spec => []OneSlot
<1>1. Init => TypeOK /\ Slots BY InitType, InitSlots
<1>2. TypeOK /\ Slots /\ [Next]_vars => TypeOK' /\ Slots' BY NextType, NextSlots
<1>3. Slots => OneSlot BY SlotsAreCarriers DEF Slots
<1> QED BY <1>1, <1>2, <1>3, PTL DEF Spec

(***************************************************************************)
(* "Free the slot before rebuild" (worker): a request that no rebuild has  *)
(* answered yet still has its slot, so one will.                           *)
(***************************************************************************)
THEOREM RequestsStayOwed == Spec => []RequestsAreOwed
<1>1. Init => RequestsAreOwed BY DEF Init, RequestsAreOwed
<1>2. ASSUME RequestsAreOwed, [Next]_vars PROVE RequestsAreOwed'
  <2> USE <1>2 DEF RequestsAreOwed
  <2>1. ASSUME NEW h \in Handlers, Ask(h) \/ Drop(h) PROVE RequestsAreOwed'
    BY <2>1 DEF Ask, Drop
  <2>2. ASSUME NEW w \in Workers, Settle(w) PROVE RequestsAreOwed'
    BY <2>2 DEF Settle
  <2>3. ASSUME UNCHANGED <<queued, asked>> PROVE RequestsAreOwed'
    BY <2>3
  <2> QED BY <2>1, <2>2, <2>3
          DEF Next, Handle, Arrive, Submit, Answered, Cancelled, Undo, Send, Reconcile, Take,
              Rebuilt, Write, Flush, Signal, ListenFails, Shutdown, ShutdownReturns,
              WriterStopped, ReconcilerStopped, Tick, Ended, vars, rest, reconciler
<1> QED BY <1>1, <1>2, PTL DEF Spec

(***************************************************************************)
(* The shutdown.  While it drains the handlers, its patience outlasts each *)
(* of them, with the undo it may still have to do; when it goes on, none   *)
(* is left.                                                                *)
(***************************************************************************)
Rest(h) == left[h] + (IF pc[h] \in {"submit", "wait"} THEN UndoTime ELSE 0)

Patient ==
  /\ server = "serving" => patience > RequestTime + UndoTime
  /\ IF server \in {"flushing", "stopping", "exited"}
       THEN \A h \in Handlers : ~ Busy(h)
       ELSE \A h \in Handlers : Busy(h) => patience > Rest(h)
  /\ \A h \in Handlers : pc[h] \notin {"panic", "leak"}

Drains == enough => Patient

LEMMA InitDrains == Init => Drains
BY DEF Init, Drains, Patient, Busy

LEMMA HandlerDrains ==
  ASSUME TypeOK, Patient, NEW h \in Handlers, Arrive(h) \/ Handle(h)
  PROVE  Patient'
<1>1. /\ left[h] \in Nat /\ RequestTime \in Nat /\ UndoTime \in Nat /\ patience \in Nat
      /\ pc[h] \in {"new", "submit", "wait", "undo", "ask", "send", "drop"} \cup Over
  BY LifecycleAssumption DEF TypeOK
<1>2. UNCHANGED <<server, patience>>
  BY DEF Handle, Arrive, Submit, Answered, Cancelled, Undo, Ask, Send, Drop
<1>3. /\ server \notin {"flushing", "stopping", "exited"}
      /\ Busy(h) => patience > Rest(h)
  BY DEF Handle, Arrive, Submit, Answered, Cancelled, Undo, Ask, Send, Drop, Patient, Busy, Over
<1>4. ~ WriterClosed /\ ~ ReconcilerClosed
  BY <1>3 DEF WriterClosed, ReconcilerClosed
<1>5. PICK step, time : /\ Goto(h, step, time)
                        /\ \/ step = "submit" /\ time = RequestTime /\ server = "serving"
                           \/ step = "wait" /\ time = left[h] /\ pc[h] = "submit"
                           \/ step = "undo" /\ time = UndoTime /\ pc[h] \in {"submit", "wait"}
                           \/ step \in {"ask", "send", "drop", "done"} /\ time = 0 /\ Busy(h)
  BY <1>4 DEF Handle, Arrive, Submit, Answered, Cancelled, Undo, Ask, Send, Drop, Busy, Over
<1>6. /\ \A g \in Handlers \ {h} : pc'[g] = pc[g] /\ left'[g] = left[g]
      /\ pc'[h] = step /\ left'[h] = time
  BY <1>5 DEF Goto, TypeOK
<1>7. Busy(h)' => patience > Rest(h)'
  <2> USE <1>1, <1>3, <1>6 DEF Rest, Busy, Over
  <2>1. CASE step = "submit" /\ time = RequestTime /\ server = "serving"
    BY <2>1 DEF Patient
  <2>2. CASE step = "wait" /\ time = left[h] /\ pc[h] = "submit" BY <2>2
  <2>3. CASE step = "undo" /\ time = UndoTime /\ pc[h] \in {"submit", "wait"} BY <2>3
  <2>4. CASE step \in {"ask", "send", "drop", "done"} /\ time = 0 /\ Busy(h) BY <2>4
  <2> QED BY <1>5, <2>1, <2>2, <2>3, <2>4
<1>8. \A g \in Handlers \ {h} : (Busy(g)' <=> Busy(g)) /\ Rest(g)' = Rest(g)
  BY <1>6 DEF Busy, Rest
<1>9. pc'[h] \notin {"panic", "leak"} BY <1>5, <1>6
<1> QED BY <1>2, <1>3, <1>6, <1>7, <1>8, <1>9 DEF Patient

LEMMA NextDrains ==
  ASSUME TypeOK, Drains, [Next]_vars
  PROVE  Drains'
<1>1. enough' = enough
  BY DEF Next, Handle, Arrive, Submit, Answered, Cancelled, Undo, Ask, Send, Drop, Reconcile,
         Take, Settle, Rebuilt, Write, Flush, Signal, ListenFails, Shutdown, ShutdownReturns,
         WriterStopped, ReconcilerStopped, Tick, Ended, vars, rest, others
<1> SUFFICES ASSUME Patient PROVE Patient'
  BY <1>1 DEF Drains
<1>2. \A h \in Handlers : left[h] \in Nat /\ UndoTime \in Nat /\ patience \in Nat
  BY LifecycleAssumption DEF TypeOK
<1>3. ASSUME NEW h \in Handlers, Arrive(h) \/ Handle(h) PROVE Patient'
  BY <1>3, HandlerDrains
<1>4. ASSUME UNCHANGED <<server, patience, pc, left>> PROVE Patient'
  BY <1>4 DEF Patient, Busy, Rest
<1>5. CASE Signal \/ ListenFails
  BY <1>5 DEF Signal, ListenFails, rest, Patient, Busy, Rest
<1>6. CASE ShutdownReturns
  <2>1. \A h \in Handlers : ~ Busy(h)
    BY <1>2, <1>6 DEF ShutdownReturns, Patient, Rest
  <2> QED BY <1>6, <2>1 DEF ShutdownReturns, rest, Patient, Busy
<1>7. CASE WriterStopped \/ ReconcilerStopped
  BY <1>7 DEF WriterStopped, ReconcilerStopped, rest, Patient, Busy
<1>8. CASE Tick
  <2>1. /\ \A h \in Handlers : /\ pc'[h] = pc[h]
                               /\ left'[h] = IF Busy(h) THEN left[h] - 1 ELSE left[h]
                               /\ Busy(h) => left[h] > 0
        /\ patience' \in {patience, patience - 1} /\ server' = server
        /\ server = "serving" => patience' = patience
    BY <1>8 DEF Tick
  <2>2. \A h \in Handlers : (Busy(h)' <=> Busy(h)) /\ (Busy(h) => Rest(h)' = Rest(h) - 1)
    BY <1>2, <2>1 DEF Busy, Rest
  <2>3. \A h \in Handlers : Rest(h) \in Int BY <1>2 DEF Rest
  <2> QED BY <1>2, <2>1, <2>2, <2>3 DEF Patient
<1> QED BY <1>3, <1>4, <1>5, <1>6, <1>7, <1>8
        DEF Next, Reconcile, Take, Settle, Rebuilt, Write, Flush, Shutdown, Ended, vars, others

(***************************************************************************)
(* If the shutdown timeout exceeds the longest request and its undo, no    *)
(* handler sends on a channel that run() has closed: no panic between a    *)
(* hit and its undo, no mark left in the reconciler's set.                 *)
(***************************************************************************)
THEOREM HandlersAreDrained == Spec => []NobodyMeetsAClosedChannel
<1>1. Init => TypeOK /\ Drains BY InitType, InitDrains
<1>2. TypeOK /\ Drains /\ [Next]_vars => TypeOK' /\ Drains' BY NextType, NextDrains
<1>3. Drains => NobodyMeetsAClosedChannel BY DEF Drains, Patient, NobodyMeetsAClosedChannel
<1> QED BY <1>1, <1>2, <1>3, PTL DEF Spec

(***************************************************************************)
(* What the two Stops have waited for stays so.                            *)
(***************************************************************************)
Stopped ==
  /\ server \in {"stopping", "exited"} => pending = {}
  /\ server = "exited" => ch = <<>> /\ \A w \in Workers : work[w].at = "idle"

LEMMA NextStopped ==
  ASSUME Stopped, [Next]_vars
  PROVE  Stopped'
<1>1. ASSUME NEW h \in Handlers, Running, Arrive(h) \/ Handle(h) PROVE Stopped'
  <2>1. server # "exited" /\ server' = server
    BY <1>1 DEF Running, Handle, Arrive, Submit, Answered, Cancelled, Undo, Ask, Send, Drop
  <2>2. server = "stopping" => pending' = pending
    BY <1>1 DEF Handle, Arrive, Submit, Answered, Cancelled, Undo, Ask, Send, Drop, WriterClosed, writer
  <2> QED BY <2>1, <2>2 DEF Stopped
<1>2. ASSUME NEW w \in Workers, Running, Reconcile(w) PROVE Stopped'
  BY <1>2 DEF Running, Reconcile, Take, Settle, Rebuilt, others, writer, Stopped
<1>3. CASE Running /\ Write
  BY <1>3 DEF Running, Write, Flush, Stopped
<1>4. CASE Running /\ (Signal \/ ListenFails \/ Shutdown)
  BY <1>4 DEF Running, Signal, ListenFails, Shutdown, ShutdownReturns, WriterStopped,
              ReconcilerStopped, rest, writer, reconciler, Stopped
<1>5. CASE Running /\ Tick
  BY <1>5 DEF Running, Tick, writer, reconciler, Stopped
<1>6. CASE UNCHANGED vars
  BY <1>6 DEF vars, writer, reconciler, Stopped
<1> QED BY <1>1, <1>2, <1>3, <1>4, <1>5, <1>6 DEF Next, Ended

(***************************************************************************)
(* A process that exits has decided every event, and, if its timeout is    *)
(* long enough, answered every request and begun every rebuild (run).      *)
(***************************************************************************)
THEOREM NothingIsLeftBehind == Spec => []ExitOwesNothing
<1>1. Init => Slots /\ Drains /\ Stopped /\ TypeOK
  BY InitType, InitSlots, InitDrains DEF Init, Stopped
<1>2. TypeOK /\ Slots /\ Drains /\ Stopped /\ [Next]_vars
        => TypeOK' /\ Slots' /\ Drains' /\ Stopped'
  BY NextType, NextSlots, NextDrains, NextStopped
<1>3. TypeOK /\ Slots /\ Drains /\ Stopped /\ RequestsAreOwed => ExitOwesNothing
  <2> SUFFICES ASSUME TypeOK, Slots, Drains, Stopped, RequestsAreOwed, server = "exited"
               PROVE  pending = {} /\ (enough => asked = {} /\ \A h \in Handlers : ~ Busy(h))
    BY DEF ExitOwesNothing
  <2>1. pending = {} /\ ch = <<>> /\ \A w \in Workers : work[w].at = "idle"
    BY DEF Stopped
  <2>2. ASSUME enough PROVE asked = {} /\ \A h \in Handlers : ~ Busy(h)
    <3>1. \A h \in Handlers : ~ Busy(h) /\ pc[h] \notin {"panic", "leak"}
      BY <2>2 DEF Drains, Patient
    <3>2. \A b \in Bosses : Senders(b) = {} /\ Places(b) = {} /\ Sleepers(b) = {}
      BY <2>1, <3>1 DEF Senders, Places, Sleepers, Busy, Over
    <3>3. \A b \in Bosses : b \notin queued BY <3>2 DEF Slots, One
    <3> QED BY <3>1, <3>3 DEF RequestsAreOwed, TypeOK
  <2> QED BY <2>1, <2>2
<1> QED BY <1>1, <1>2, <1>3, RequestsStayOwed, PTL DEF Spec
=============================================================================
