------------------------- MODULE GroupWriterProofs -------------------------
(***************************************************************************)
(* Theorems about GroupWriter, for any number of callers and loops, any    *)
(* size of the channel and of a batch.                                     *)
(***************************************************************************)
EXTENDS GroupWriter, SequenceTheorems, TLAPS

(***************************************************************************)
(* Sequences without repetitions, as the channel and the batches are, and  *)
(* what sending to them and receiving from them does to their elements.    *)
(***************************************************************************)
Distinct(s) == \A i, j \in 1 .. Len(s) : s[i] = s[j] => i = j

LEMMA RangeEmpty ==
  ASSUME NEW S, NEW s \in Seq(S)
  PROVE  Range(s) \subseteq S /\ (Range(s) = {} <=> s = <<>>)
<1>1. /\ Len(s) \in Nat /\ DOMAIN s = 1 .. Len(s) /\ (s # <<>> => Len(s) > 0)
      /\ \A i \in 1 .. Len(s) : s[i] \in S
  BY EmptySeq
<1>2. CASE s = <<>> BY <1>1, <1>2 DEF Range
<1>3. CASE s # <<>>
  <2>1. s[1] \in Range(s) BY <1>1, <1>3 DEF Range
  <2> QED BY <1>1, <1>3, <2>1 DEF Range
<1> QED BY <1>2, <1>3

LEMMA RangeAppend ==
  ASSUME NEW S, NEW s \in Seq(S), NEW x \in S
  PROVE  /\ Append(s, x) \in Seq(S) /\ Append(s, x) # <<>> /\ Len(Append(s, x)) = Len(s) + 1
         /\ Range(Append(s, x)) = Range(s) \cup {x}
         /\ Distinct(s) /\ x \notin Range(s) => Distinct(Append(s, x))
<1> DEFINE t == Append(s, x)
<1>1. Len(s) \in Nat /\ DOMAIN s = 1 .. Len(s)
  OBVIOUS
<1>2. /\ t \in Seq(S) /\ t # <<>> /\ Len(t) = Len(s) + 1 /\ DOMAIN t = 1 .. Len(s) + 1
      /\ t[Len(s) + 1] = x /\ \A i \in 1 .. Len(s) : t[i] = s[i]
  OBVIOUS
<1> HIDE DEF t
<1>3. Range(t) = Range(s) \cup {x}
  <2>1. \A y \in Range(t) : y \in Range(s) \cup {x} BY <1>1, <1>2 DEF Range
  <2>2. \A y \in Range(s) : y \in Range(t) BY <1>1, <1>2 DEF Range
  <2>3. x \in Range(t) BY <1>1, <1>2 DEF Range
  <2> QED BY <2>1, <2>2, <2>3
<1>4. ASSUME Distinct(s), x \notin Range(s) PROVE Distinct(t)
  <2>1. \A i \in 1 .. Len(s) : s[i] # x BY <1>1, <1>4 DEF Range
  <2> QED BY <1>1, <1>2, <1>4, <2>1 DEF Distinct
<1> QED BY <1>2, <1>3, <1>4 DEF t

LEMMA RangeTail ==
  ASSUME NEW S, NEW s \in Seq(S), s # <<>>, Distinct(s)
  PROVE  /\ Head(s) \in S /\ Head(s) \in Range(s)
         /\ Tail(s) \in Seq(S) /\ Len(Tail(s)) = Len(s) - 1
         /\ Range(Tail(s)) = Range(s) \ {Head(s)}
         /\ Distinct(Tail(s))
<1> DEFINE t == Tail(s)
<1>1. Len(s) \in Nat /\ Len(s) > 0 /\ DOMAIN s = 1 .. Len(s) /\ Head(s) = s[1]
  BY EmptySeq
<1>2. /\ Head(s) \in S /\ t \in Seq(S) /\ Len(t) = Len(s) - 1
      /\ DOMAIN t = 1 .. Len(s) - 1 /\ \A i \in 1 .. Len(s) - 1 : t[i] = s[i + 1]
  BY <1>1, HeadTailProperties
<1> HIDE DEF t
<1>3. Distinct(t)
  <2> SUFFICES ASSUME NEW i \in 1 .. Len(t), NEW j \in 1 .. Len(t), t[i] = t[j] PROVE i = j
    BY DEF Distinct
  <2>1. i + 1 \in 1 .. Len(s) /\ j + 1 \in 1 .. Len(s) /\ s[i + 1] = s[j + 1]
    BY <1>1, <1>2
  <2> QED BY <1>1, <2>1 DEF Distinct
<1>4. \A y \in Range(t) : y \in Range(s) /\ y # s[1]
  <2> SUFFICES ASSUME NEW i \in 1 .. Len(s) - 1 PROVE s[i + 1] \in Range(s) /\ s[i + 1] # s[1]
    BY <1>2 DEF Range
  <2>1. i + 1 \in 1 .. Len(s) /\ 1 \in 1 .. Len(s) /\ i + 1 # 1 BY <1>1
  <2> QED BY <1>1, <2>1 DEF Range, Distinct
<1>5. ASSUME NEW y \in Range(s), y # s[1] PROVE y \in Range(t)
  <2>1. PICK i \in 1 .. Len(s) : y = s[i] BY <1>1 DEF Range
  <2>2. i - 1 \in 1 .. Len(s) - 1 /\ t[i - 1] = s[i - 1 + 1] BY <1>1, <1>2, <1>5, <2>1
  <2> QED BY <1>1, <1>2, <2>1, <2>2 DEF Range
<1>6. s[1] \in Range(s) BY <1>1 DEF Range
<1> QED BY <1>1, <1>2, <1>3, <1>4, <1>5, <1>6 DEF t

\* The two sets of events that are stored are named apart wherever they change.
USE DEF db

(***************************************************************************)
(* The requests in the writer's hands.                                     *)
(***************************************************************************)
Queued == Range(ch)

Of(w) == Range(batch[w])

Held(r) == r \in Queued \/ \E w \in Loops : r \in Of(w)

(***************************************************************************)
(* The invariant.  Once says that a request is in one place at most, and   *)
(* there once; Unheard, that whoever is still held has heard nothing;      *)
(* Owed, that a waiter is held or has its answer; Stages, what a loop has  *)
(* at the stage it is at; Outcomes, that an error sent or about to be sent *)
(* is the outcome of the commit.                                           *)
(***************************************************************************)
Once ==
  /\ Distinct(ch)
  /\ \A w \in Loops : Distinct(batch[w]) /\ Queued \cap Of(w) = {}
  /\ \A v, w \in Loops : v # w => Of(v) \cap Of(w) = {}

Unheard == \A r \in Reqs : Held(r) => caller[r] \in {"wait", "gone"} /\ done[r] = <<>>

Owed == \A r \in Reqs : caller[r] = "wait" => Held(r) \/ done[r] # <<>>

Stages ==
  \A w \in Loops :
    /\ loop[w] = "commit" => batch[w] # <<>>
    /\ loop[w] = "ended" => closed /\ ch = <<>> /\ batch[w] = <<>>

Outcomes ==
  /\ \A r \in Queued : r \notin stored \cup stray
  /\ \A w \in Loops : \A r \in Of(w) :
       IF loop[w] = "release" THEN err[w] = "nil" <=> r \in stored ELSE r \notin stored \cup stray
  /\ \A r \in Reqs :
       /\ caller[r] \in {"new", "full", "panic"} => r \notin stored \cup stray /\ done[r] = <<>>
       /\ caller[r] = "nil" => r \in stored
       /\ caller[r] = "failed" => r \notin stored
       /\ done[r] \in {<<>>, <<"nil">>, <<"failed">>}
       /\ done[r] # <<>> => (done[r] = <<"nil">> <=> r \in stored)

Accounted == TypeOK /\ Once /\ Unheard /\ Owed /\ Stages /\ Outcomes

(***************************************************************************)
(* Types.                                                                  *)
(***************************************************************************)
LEMMA InitType == Init => TypeOK
<1> SUFFICES ASSUME Init PROVE TypeOK
  OBVIOUS
<1>1. ch \in Seq(Reqs) /\ Len(ch) <= QueueSize
  BY WriterAssumption DEF Init
<1>2. <<>> \in Seq(Reqs) /\ <<>> \in Seq({"nil", "failed"})
  OBVIOUS
<1>3. done \in [Reqs -> Seq({"nil", "failed"})] /\ batch \in [Loops -> Seq(Reqs)]
  BY <1>2 DEF Init
<1> QED BY <1>1, <1>3 DEF Init, TypeOK

LEMMA SubmitType ==
  ASSUME TypeOK, NEW r \in Reqs, Submit(r) PROVE TypeOK'
<1> USE DEF loops
<1>1. CASE Send(r)
  <2>1. CASE Len(ch) < QueueSize
    <3>1. ch' = Append(ch, r) /\ Return(r, "wait") /\ UNCHANGED <<closed, done, loops, db>>
      BY <1>1, <2>1 DEF Send
    <3>2. ch' \in Seq(Reqs) /\ Len(ch') <= QueueSize
      BY <2>1, <3>1, RangeAppend, WriterAssumption DEF TypeOK
    <3> QED BY <3>1, <3>2 DEF TypeOK, Return
  <2>2. CASE ~ Len(ch) < QueueSize BY <1>1, <2>2 DEF Send, TypeOK, Return, Returns
  <2> QED BY <2>1, <2>2
<1>2. CASE SendAfterStop(r) BY <1>2 DEF SendAfterStop, TypeOK, Return, Returns
<1>3. CASE Await(r)
  <2>1. done[r] \in Seq({"nil", "failed"}) /\ done[r] # <<>> BY <1>3 DEF Await, TypeOK
  <2>2. Head(done[r]) \in {"nil", "failed"} /\ Tail(done[r]) \in Seq({"nil", "failed"})
    BY <2>1, HeadTailProperties
  <2> QED BY <1>3, <2>2 DEF Await, TypeOK, Return, Returns
<1>4. CASE GiveUp(r) BY <1>4 DEF GiveUp, TypeOK, Return, Returns
<1> QED BY <1>1, <1>2, <1>3, <1>4 DEF Submit

LEMMA RunType ==
  ASSUME TypeOK, NEW w \in Loops, Run(w) PROVE TypeOK'
<1> USE DEF callers
<1>1. CASE Receive(w)
  <2>1. ch \in Seq(Reqs) /\ ch # <<>> /\ batch[w] \in Seq(Reqs) BY <1>1 DEF Receive, TypeOK
  <2>2. /\ Head(ch) \in Reqs /\ Tail(ch) \in Seq(Reqs) /\ Len(Tail(ch)) = Len(ch) - 1
    BY <2>1, HeadTailProperties
  <2>3. Append(batch[w], Head(ch)) \in Seq(Reqs) BY <2>1, <2>2, RangeAppend
  <2>4. ch' \in Seq(Reqs) /\ Len(ch') <= QueueSize
    BY <1>1, <2>1, <2>2, WriterAssumption DEF Receive, TypeOK
  <2>5. batch' \in [Loops -> Seq(Reqs)] BY <1>1, <2>3 DEF Receive, TypeOK
  <2>6. /\ loop' \in [Loops -> {"select", "commit", "release", "ended"}]
        /\ armed' \in [Loops -> BOOLEAN]
    BY <1>1 DEF Receive, TypeOK
  <2> QED BY <1>1, <2>4, <2>5, <2>6 DEF Receive, TypeOK
<1>2. CASE ReceiveClosed(w) BY <1>2 DEF ReceiveClosed, TypeOK
<1>3. CASE Tick(w) BY <1>3 DEF Tick, TypeOK
<1>4. CASE CommitOK(w) \/ CommitFails(w) \/ CommitUnheard(w)
  <2>1. Range(batch[w]) \subseteq Reqs BY RangeEmpty DEF TypeOK
  <2>2. /\ UNCHANGED <<ch, closed, callers, batch, armed>>
        /\ err' \in [Loops -> {"nil", "failed"}]
        /\ loop' \in [Loops -> {"select", "commit", "release", "ended"}]
    BY <1>4 DEF CommitOK, CommitFails, CommitUnheard, Committed, TypeOK
  <2>3. stored' \subseteq Reqs /\ stray' \subseteq Reqs
    BY <1>4, <2>1 DEF CommitOK, CommitFails, CommitUnheard, TypeOK
  <2> QED BY <2>2, <2>3 DEF TypeOK
<1>6. CASE Release(w)
  <2>1. batch[w] \in Seq(Reqs) /\ batch[w] # <<>> /\ err[w] \in {"nil", "failed"}
    BY <1>6 DEF Release, TypeOK
  <2>2. Tail(batch[w]) \in Seq(Reqs) BY <2>1, HeadTailProperties
  <2>3. <<err[w]>> \in Seq({"nil", "failed"}) BY <2>1
  <2> QED BY <1>6, <2>2, <2>3 DEF Release, TypeOK
<1>7. CASE Flushed(w) BY <1>7 DEF Flushed, TypeOK
<1> QED BY <1>1, <1>2, <1>3, <1>4, <1>6, <1>7 DEF Run

LEMMA NextType == TypeOK /\ [Next]_vars => TypeOK'
<1> SUFFICES ASSUME TypeOK, [Next]_vars PROVE TypeOK'
  OBVIOUS
<1>1. CASE Stop BY <1>1 DEF Stop, TypeOK, callers, loops
<1>2. CASE UNCHANGED vars BY <1>2 DEF TypeOK, vars, callers, loops
<1> QED BY <1>1, <1>2, SubmitType, RunType DEF Next, Finished

(***************************************************************************)
(* Whatever is sent, received, given up, committed and stopped, the writer *)
(* keeps its types, and no more than QueueSize requests wait in the        *)
(* channel (Submit refuses the others).                                    *)
(***************************************************************************)
THEOREM WriterTyped == Spec => []TypeOK
BY InitType, NextType, PTL DEF Spec

(***************************************************************************)
(* loop: the timer runs from the first request of a batch to its flush.    *)
(***************************************************************************)
THEOREM BatchesAreTimed == Spec => []TimerCovers
<1>1. Init => TypeOK /\ TimerCovers BY InitType DEF Init, TimerCovers
<1>2. TypeOK /\ TimerCovers /\ [Next]_vars => TimerCovers'
  <2> SUFFICES ASSUME TypeOK, TimerCovers, [Next]_vars PROVE TimerCovers'
    OBVIOUS
  <2>1. ASSUME NEW w \in Loops, Run(w) PROVE TimerCovers'
    <3> USE <2>1 DEF TimerCovers, TypeOK
    <3>1. CASE Receive(w) BY <3>1 DEF Receive
    <3>2. CASE ReceiveClosed(w) BY <3>2 DEF ReceiveClosed
    <3>3. CASE Tick(w) BY <3>3 DEF Tick
    <3>4. CASE CommitOK(w) \/ CommitFails(w) \/ CommitUnheard(w)
      BY <3>4 DEF CommitOK, CommitFails, CommitUnheard, Committed
    <3>5. CASE Release(w) BY <3>5 DEF Release
    <3>6. CASE Flushed(w) BY <3>6 DEF Flushed
    <3> QED BY <3>1, <3>2, <3>3, <3>4, <3>5, <3>6 DEF Run
  <2>2. CASE UNCHANGED loops BY <2>2 DEF TimerCovers, loops
  <2>3. ASSUME NEW r \in Reqs, Submit(r) PROVE UNCHANGED loops
    BY <2>3 DEF Submit, Send, SendAfterStop, Await, GiveUp
  <2> QED BY <2>1, <2>2, <2>3 DEF Next, Stop, Finished, vars
<1> QED BY <1>1, <1>2, NextType, PTL DEF Spec

(***************************************************************************)
(* How each step moves requests.                                           *)
(***************************************************************************)
LEMMA SendMoves ==
  ASSUME TypeOK, NEW r \in Reqs, Send(r), Len(ch) < QueueSize
  PROVE  /\ Queued' = Queued \cup {r}
         /\ \A w \in Loops : Of(w)' = Of(w)
         /\ Distinct(ch) /\ r \notin Queued => Distinct(ch)'
<1>1. ch' = Append(ch, r) /\ UNCHANGED loops BY DEF Send
<1> QED BY <1>1, RangeAppend DEF TypeOK, Queued, Of, loops

LEMMA ReceiveMoves ==
  ASSUME TypeOK, Once, NEW w \in Loops, Receive(w)
  PROVE  \E r \in Queued :
           /\ Queued' = Queued \ {r} /\ Of(w)' = Of(w) \cup {r}
           /\ \A v \in Loops : v # w => Of(v)' = Of(v) /\ UNCHANGED <<loop[v], batch[v]>>
           /\ Distinct(ch)' /\ \A v \in Loops : Distinct(batch[v])'
           /\ batch'[w] # <<>>
           /\ loop'[w] \in {"select", "commit"}
<1> DEFINE r == Head(ch)
<1>1. /\ ch # <<>> /\ ch' = Tail(ch) /\ batch' = [batch EXCEPT ![w] = Append(@, r)]
      /\ \A v \in Loops : v # w => UNCHANGED loop[v]
      /\ loop'[w] \in {"select", "commit"}
  BY DEF Receive, TypeOK
<1>2. ch \in Seq(Reqs) /\ batch[w] \in Seq(Reqs) /\ Distinct(ch) /\ Distinct(batch[w])
      /\ Queued \cap Of(w) = {}
  BY DEF TypeOK, Once
<1>3. r \in Reqs /\ r \in Queued /\ Queued' = Queued \ {r} /\ Distinct(ch)'
  BY <1>1, <1>2, RangeTail DEF Queued
<1>4. r \notin Of(w) BY <1>2, <1>3
<1> HIDE DEF r
<1>5. /\ batch'[w] = Append(batch[w], r)
      /\ \A v \in Loops : v # w => batch'[v] = batch[v]
  BY <1>1 DEF TypeOK
<1>6. Of(w)' = Of(w) \cup {r} /\ Distinct(batch[w])' /\ batch'[w] # <<>>
  BY <1>2, <1>3, <1>4, <1>5, RangeAppend DEF Of
<1>7. \A v \in Loops : v # w => Of(v)' = Of(v) /\ Distinct(batch[v])'
  BY <1>5 DEF Of, Once
<1> QED BY <1>1, <1>3, <1>5, <1>6, <1>7

LEMMA ReleaseMoves ==
  ASSUME TypeOK, Once, NEW w \in Loops, Release(w)
  PROVE  \E r \in Of(w) :
           /\ r \in Reqs /\ done[r] = <<>> /\ done' = [done EXCEPT ![r] = <<err[w]>>]
           /\ Queued' = Queued /\ Of(w)' = Of(w) \ {r}
           /\ \A v \in Loops : v # w => Of(v)' = Of(v) /\ UNCHANGED batch[v]
           /\ \A v \in Loops : Distinct(batch[v])'
<1> DEFINE r == Head(batch[w])
<1>1. /\ batch[w] # <<>> /\ batch' = [batch EXCEPT ![w] = Tail(@)]
      /\ done[r] = <<>> /\ done' = [done EXCEPT ![r] = <<err[w]>>] /\ ch' = ch
  BY DEF Release
<1>2. batch[w] \in Seq(Reqs) /\ Distinct(batch[w])
  BY DEF TypeOK, Once
<1>3. /\ batch'[w] = Tail(batch[w])
      /\ \A v \in Loops : v # w => batch'[v] = batch[v]
  BY <1>1 DEF TypeOK
<1>4. r \in Reqs /\ r \in Of(w) /\ Of(w)' = Of(w) \ {r} /\ Distinct(batch[w])'
  BY <1>1, <1>2, <1>3, RangeTail DEF Of
<1>5. \A v \in Loops : v # w => Of(v)' = Of(v) /\ Distinct(batch[v])'
  BY <1>3 DEF Of, Once
<1>6. Queued' = Queued BY <1>1 DEF Queued
<1> QED BY <1>1, <1>3, <1>4, <1>5, <1>6

(***************************************************************************)
(* Every step keeps the requests accounted for.                            *)
(***************************************************************************)
LEMMA InitAccounted == Init => Accounted
<1> SUFFICES ASSUME Init PROVE Accounted
  OBVIOUS
<1>1. TypeOK BY InitType
<1>2. /\ Queued = {} /\ \A w \in Loops : Of(w) = {}
      /\ Distinct(ch) /\ \A w \in Loops : Distinct(batch[w])
  BY DEF Init, Queued, Of, Range, Distinct
<1> QED BY <1>1, <1>2 DEF Init, Accounted, Once, Unheard, Owed, Stages, Outcomes, Held

LEMMA SubmitAccounted ==
  ASSUME Accounted, NEW r \in Reqs, Submit(r)
  PROVE  Accounted'
<1> USE DEF Accounted
<1>1. TypeOK' BY SubmitType
<1>2. CASE Send(r) /\ Len(ch) < QueueSize
  <2>1. /\ caller[r] = "new" /\ ~ closed /\ Return(r, "wait")
        /\ UNCHANGED <<closed, done, loops, db>>
    BY <1>2 DEF Send
  <2>2. ~ Held(r) /\ done[r] = <<>> /\ r \notin stored \cup stray
    BY <2>1 DEF Unheard, Outcomes
  <2>3. /\ Queued' = Queued \cup {r} /\ \A w \in Loops : Of(w)' = Of(w)
        /\ Distinct(ch)'
    BY <1>2, <2>2, SendMoves DEF Held, Once
  <2>4. caller' = [caller EXCEPT ![r] = "wait"] /\ caller \in [Reqs -> {"new", "wait"} \cup Returns]
    BY <2>1 DEF Return, TypeOK
  <2>5. Once' BY <2>1, <2>2, <2>3 DEF Once, Held, loops
  <2>6. Unheard' /\ Owed' BY <2>1, <2>2, <2>3, <2>4 DEF Unheard, Owed, Held
  <2>7. Stages' BY <2>1 DEF Stages, loops
  <2>8. Outcomes' BY <2>1, <2>2, <2>3, <2>4 DEF Outcomes, loops
  <2> QED BY <1>1, <2>5, <2>6, <2>7, <2>8
<1>3. CASE (Send(r) /\ ~ Len(ch) < QueueSize) \/ SendAfterStop(r)
  <2>1. PICK what \in {"full", "panic"} :
          caller[r] = "new" /\ caller' = [caller EXCEPT ![r] = what]
          /\ UNCHANGED <<ch, closed, done, loops, db>>
    BY <1>3 DEF Send, SendAfterStop, Return
  <2>2. ~ Held(r) /\ done[r] = <<>> /\ r \notin stored \cup stray
    BY <2>1 DEF Unheard, Outcomes
  <2>3. Queued' = Queued /\ \A w \in Loops : Of(w)' = Of(w)
    BY <2>1 DEF Queued, Of, loops
  <2>4. caller \in [Reqs -> {"new", "wait"} \cup Returns] BY DEF TypeOK
  <2>5. Once' BY <2>1, <2>3 DEF Once, loops
  <2>6. Unheard' /\ Owed' BY <2>1, <2>2, <2>3, <2>4 DEF Unheard, Owed, Held
  <2>7. Stages' BY <2>1 DEF Stages, loops
  <2>8. Outcomes' BY <2>1, <2>2, <2>3, <2>4 DEF Outcomes, loops
  <2> QED BY <1>1, <2>5, <2>6, <2>7, <2>8
<1>4. CASE Await(r)
  <2>1. /\ caller[r] = "wait" /\ done[r] # <<>>
        /\ caller' = [caller EXCEPT ![r] = Head(done[r])]
        /\ done' = [done EXCEPT ![r] = Tail(@)]
        /\ UNCHANGED <<ch, closed, loops, db>>
    BY <1>4 DEF Await, Return
  <2>0. /\ Head(<<"nil">>) = "nil" /\ Head(<<"failed">>) = "failed"
        /\ Tail(<<"nil">>) = <<>> /\ Tail(<<"failed">>) = <<>>
    OBVIOUS
  <2>2. \/ done[r] = <<"nil">> /\ r \in stored /\ caller' = [caller EXCEPT ![r] = "nil"]
        \/ done[r] = <<"failed">> /\ r \notin stored /\ caller' = [caller EXCEPT ![r] = "failed"]
    BY <2>0, <2>1 DEF Outcomes
  <2>3. done' = [done EXCEPT ![r] = <<>>]
    BY <2>0, <2>1, <2>2
  <2>4. /\ Queued' = Queued /\ \A w \in Loops : Of(w)' = Of(w)
        /\ \A q \in Reqs : Held(q)' <=> Held(q)
    BY <2>1 DEF Queued, Of, Held, loops
  <2>5. caller \in [Reqs -> {"new", "wait"} \cup Returns] /\ DOMAIN done = Reqs BY DEF TypeOK
  <2>6. /\ ~ Held(r) /\ r \in Reqs
        /\ \A q \in Reqs : q # r => caller'[q] = caller[q] /\ done'[q] = done[q]
        /\ caller'[r] # "wait" /\ done'[r] = <<>> /\ stored' = stored
        /\ caller'[r] \in {"nil", "failed"} /\ (caller'[r] = "nil" <=> r \in stored)
    BY <2>1, <2>2, <2>3, <2>5 DEF Unheard
  <2>7. Once' BY <2>1, <2>4 DEF Once, loops
  <2>8. Unheard' /\ Owed' BY <2>4, <2>6 DEF Unheard, Owed
  <2>9. Stages' BY <2>1 DEF Stages, loops
  <2>10. Outcomes' BY <2>1, <2>4, <2>6 DEF Outcomes, loops
  <2> QED BY <1>1, <2>7, <2>8, <2>9, <2>10
<1>5. CASE GiveUp(r)
  <2>1. /\ caller[r] = "wait" /\ caller' = [caller EXCEPT ![r] = "gone"]
        /\ UNCHANGED <<ch, closed, done, loops, db>>
    BY <1>5 DEF GiveUp, Return
  <2>3. Queued' = Queued /\ \A w \in Loops : Of(w)' = Of(w)
    BY <2>1 DEF Queued, Of, loops
  <2>4. caller \in [Reqs -> {"new", "wait"} \cup Returns] BY DEF TypeOK
  <2>5. Once' BY <2>1, <2>3 DEF Once, loops
  <2>6. Unheard' /\ Owed' BY <2>1, <2>3, <2>4 DEF Unheard, Owed, Held
  <2>7. Stages' BY <2>1 DEF Stages, loops
  <2>8. Outcomes' BY <2>1, <2>3, <2>4 DEF Outcomes, loops
  <2> QED BY <1>1, <2>5, <2>6, <2>7, <2>8
<1> QED BY <1>2, <1>3, <1>4, <1>5 DEF Submit

\* What is left to show of a step of a loop that moves no request.
LEMMA StillAccounted ==
  ASSUME Accounted, TypeOK', UNCHANGED <<ch, closed, callers, batch>>, Stages', Outcomes'
  PROVE  Accounted'
<1>1. Queued' = Queued /\ \A w \in Loops : Of(w)' = Of(w)
  BY DEF Queued, Of
<1>2. \A r \in Reqs : Held(r)' <=> Held(r) BY <1>1 DEF Held
<1> QED BY <1>1, <1>2 DEF Accounted, Once, Unheard, Owed, callers

LEMMA RunAccounted ==
  ASSUME Accounted, NEW w \in Loops, Run(w)
  PROVE  Accounted'
<1> USE DEF Accounted
<1>1. TypeOK' BY RunType
<1>2. CASE Receive(w)
  <2>1. PICK r \in Queued :
           /\ Queued' = Queued \ {r} /\ Of(w)' = Of(w) \cup {r}
           /\ \A v \in Loops : v # w => Of(v)' = Of(v) /\ UNCHANGED <<loop[v], batch[v]>>
           /\ Distinct(ch)' /\ \A v \in Loops : Distinct(batch[v])'
           /\ batch'[w] # <<>>
           /\ loop'[w] \in {"select", "commit"}
    BY <1>2, ReceiveMoves
  <2>2. loop[w] = "select" /\ ch # <<>> /\ UNCHANGED <<closed, callers, err, db>>
    BY <1>2 DEF Receive
  <2>3. \A q \in Reqs : Held(q)' <=> Held(q) BY <2>1 DEF Held
  <2>4. Once' BY <2>1 DEF Once
  <2>5. Unheard' /\ Owed' BY <2>2, <2>3 DEF Unheard, Owed, callers
  <2>6. Stages' BY <2>1, <2>2 DEF Stages
  <2>7. Outcomes' BY <2>1, <2>2 DEF Outcomes, callers
  <2> QED BY <1>1, <2>4, <2>5, <2>6, <2>7
<1>3. CASE ReceiveClosed(w) \/ Tick(w) \/ Flushed(w)
  <2>1. /\ loop[w] \in {"select", "release"} /\ UNCHANGED <<ch, closed, callers, batch, db>>
        /\ err' = [err EXCEPT ![w] = err'[w]]
        /\ loop[w] = "release" => batch[w] = <<>>
        /\ loop' = [loop EXCEPT ![w] = loop'[w]]
        /\ loop'[w] \in {"select", "commit", "ended"}
        /\ loop'[w] = "commit" => batch[w] # <<>>
        /\ loop'[w] = "ended" => closed /\ ch = <<>> /\ batch[w] = <<>>
    BY <1>3 DEF ReceiveClosed, Tick, Flushed, TypeOK
  <2>2. /\ \A v \in Loops : v # w => loop'[v] = loop[v] /\ err'[v] = err[v]
        /\ Queued' = Queued /\ \A v \in Loops : Of(v)' = Of(v)
    BY <2>1 DEF TypeOK, Queued, Of
  <2>3. Stages' BY <2>1, <2>2 DEF Stages
  <2>4. loop[w] = "release" => Of(w) = {}
    BY <2>1, RangeEmpty DEF Of, TypeOK
  <2>5. Outcomes' BY <2>1, <2>2, <2>4 DEF Outcomes, callers
  <2> QED BY <1>1, <2>1, <2>3, <2>5, StillAccounted
<1>4. CASE CommitOK(w) \/ CommitFails(w) \/ CommitUnheard(w)
  <2>1. PICK what \in {"nil", "failed"} :
          /\ loop[w] = "commit" /\ loop' = [loop EXCEPT ![w] = "release"]
          /\ err' = [err EXCEPT ![w] = what]
          /\ stored' = IF what = "nil" THEN stored \cup Of(w) ELSE stored
          /\ stray \subseteq stray' /\ stray' \subseteq stray \cup Of(w)
          /\ UNCHANGED <<ch, closed, callers, batch, armed>>
    BY <1>4 DEF CommitOK, CommitFails, CommitUnheard, Committed, Of
  <2>2. /\ Queued' = Queued /\ \A v \in Loops : Of(v)' = Of(v)
        /\ Of(w) \subseteq Reqs
        /\ \A v \in Loops : v # w => Of(v) \cap Of(w) = {} /\ UNCHANGED <<loop[v], err[v]>>
        /\ loop'[w] = "release" /\ err'[w] = what
    BY <2>1, RangeEmpty DEF TypeOK, Queued, Of, Once
  <2>3. Stages' BY <2>1, <2>2 DEF Stages
  <2>4. \A r \in Of(w) : r \notin stored \cup stray /\ done[r] = <<>> /\ caller[r] \in {"wait", "gone"}
                         /\ r \notin Queued
    BY <2>1, <2>2 DEF Outcomes, Unheard, Held, Once
  <2>5. \A r \in Reqs : r \notin Of(w) => (r \in stored' <=> r \in stored) /\ (r \in stray' <=> r \in stray)
    BY <2>1
  <2>6. \A r \in Of(w) : r \in stored' <=> what = "nil"
    BY <2>1, <2>4
  <2>7. \A r \in Queued' : r \notin stored' \cup stray' BY <2>2, <2>4, <2>1 DEF Outcomes
  <2>8. \A v \in Loops : \A r \in Of(v)' :
          IF loop'[v] = "release" THEN err'[v] = "nil" <=> r \in stored' ELSE r \notin stored' \cup stray'
    BY <2>1, <2>2, <2>4, <2>6 DEF Outcomes
  <2>9. Outcomes' BY <2>1, <2>4, <2>5, <2>6, <2>7, <2>8 DEF Outcomes, callers
  <2> QED BY <1>1, <2>1, <2>3, <2>9, StillAccounted
<1>5. CASE Release(w)
  <2>1. PICK r \in Of(w) :
           /\ r \in Reqs /\ done[r] = <<>> /\ done' = [done EXCEPT ![r] = <<err[w]>>]
           /\ Queued' = Queued /\ Of(w)' = Of(w) \ {r}
           /\ \A v \in Loops : v # w => Of(v)' = Of(v) /\ UNCHANGED batch[v]
           /\ \A v \in Loops : Distinct(batch[v])'
    BY <1>5, ReleaseMoves
  <2>2. loop[w] = "release" /\ UNCHANGED <<ch, closed, caller, loop, armed, err, db>>
    BY <1>5 DEF Release
  <2>3. /\ caller[r] \in {"wait", "gone"} /\ (err[w] = "nil" <=> r \in stored)
        /\ err[w] \in {"nil", "failed"}
    BY <2>1, <2>2 DEF Unheard, Held, Outcomes, TypeOK
  <2>4. /\ \A q \in Reqs : q # r => done'[q] = done[q]
        /\ done'[r] = <<err[w]>> /\ done'[r] # <<>>
        /\ done'[r] = <<"nil">> <=> err[w] = "nil"
    BY <2>1, <2>3 DEF TypeOK
  <2>5. /\ ~ Held(r)' /\ \A q \in Reqs : q # r => (Held(q)' <=> Held(q))
    BY <2>1 DEF Held, Once
  <2>6. Once' BY <2>1, <2>2 DEF Once
  <2>7. Unheard' /\ Owed' BY <2>1, <2>2, <2>4, <2>5 DEF Unheard, Owed
  <2>8. Stages' BY <2>1, <2>2 DEF Stages
  <2>9. Outcomes' BY <2>1, <2>2, <2>3, <2>4 DEF Outcomes
  <2> QED BY <1>1, <2>6, <2>7, <2>8, <2>9
<1> QED BY <1>2, <1>3, <1>4, <1>5 DEF Run

LEMMA NextAccounted == Accounted /\ [Next]_vars => Accounted'
<1> SUFFICES ASSUME Accounted, [Next]_vars PROVE Accounted'
  OBVIOUS
<1>1. CASE Stop \/ UNCHANGED vars
  <2>1. UNCHANGED <<ch, callers, loops, db>> /\ (closed => closed')
    BY <1>1 DEF Stop, vars
  <2>2. Queued' = Queued /\ \A w \in Loops : Of(w)' = Of(w)
    BY <2>1 DEF Queued, Of, loops
  <2>3. TypeOK' BY NextType DEF Accounted
  <2>4. \A r \in Reqs : Held(r)' <=> Held(r) BY <2>2 DEF Held
  <2> QED BY <2>1, <2>2, <2>3, <2>4
        DEF Accounted, Once, Unheard, Owed, Stages, Outcomes, callers, loops
<1> QED BY <1>1, SubmitAccounted, RunAccounted DEF Next, Finished

LEMMA AccountedHolds == Spec => []Accounted
BY InitAccounted, NextAccounted, PTL DEF Spec

(***************************************************************************)
(* "The deferred release always runs" (commit) and goes through: the send  *)
(* on done has its slot, whoever still listens, so no loop is stuck in it. *)
(***************************************************************************)
THEOREM ReleasesGoThrough == Spec => []ReleaseNeverBlocks
<1>1. Accounted => ReleaseNeverBlocks
  <2> SUFFICES ASSUME Accounted, NEW w \in Loops, loop[w] = "release", batch[w] # <<>>
               PROVE  done[Head(batch[w])] = <<>>
    BY DEF ReleaseNeverBlocks
  <2>1. Head(batch[w]) \in Reqs /\ Head(batch[w]) \in Of(w)
    BY RangeTail DEF Accounted, TypeOK, Once, Of
  <2> QED BY <2>1 DEF Accounted, Unheard, Held
<1> QED BY <1>1, AccountedHolds, PTL

(***************************************************************************)
(* Stop: when every loop has ended, nothing is in the channel or a batch,  *)
(* and every waiter has its outcome.                                       *)
(***************************************************************************)
THEOREM StopLosesNothing == Spec => []StopFlushes
<1>1. Accounted => StopFlushes
  <2> SUFFICES ASSUME Accounted, Stopped PROVE StopFlushes
    BY DEF StopFlushes
  <2>1. ch = <<>> /\ \A w \in Loops : batch[w] = <<>>
    BY WriterAssumption DEF Stopped, Accounted, Stages
  <2>2. Queued = {} /\ \A w \in Loops : Of(w) = {}
    BY <2>1 DEF Queued, Of, Range
  <2> QED BY <2>1, <2>2 DEF StopFlushes, Accounted, Owed, Held
<1> QED BY <1>1, AccountedHolds, PTL

(***************************************************************************)
(* The refinement: how each step changes what DurableWriter sees.          *)
(***************************************************************************)
Undecided(r) == \/ r \in Queued
                \/ \E w \in Loops : loop[w] \in {"select", "commit"} /\ r \in Of(w)

LEMMA PendingIs ==
  /\ \A r : r \in Pending <=> Undecided(r)
  /\ \A r : r \in Pending' <=> Undecided(r)'
<1>1. \A r : r \in Pending <=> Undecided(r) BY DEF Pending, Undecided, Queued, Of
<1>2. \A r : r \in Pending' <=> Undecided(r)' BY DEF Pending, Undecided, Queued, Of
<1> QED BY <1>1, <1>2

\* Two states that agree on these show DurableWriter the same.
LEMMA SameView ==
  ASSUME UNCHANGED caller, \A r \in Reqs : r \in Pending' <=> r \in Pending,
         UNCHANGED db
  PROVE  UNCHANGED Promise!vars
<1>1. \A r \in Reqs : fateOf'[r] = fateOf[r] BY DEF fateOf
<1>2. fateOf' = fateOf BY <1>1 DEF fateOf
<1>3. answerOf' = answerOf BY DEF answerOf
<1> QED BY <1>2, <1>3 DEF Promise!vars

LEMMA SubmitKeepsPromise ==
  ASSUME Accounted, NEW r \in Reqs, Submit(r)
  PROVE  Promise!Next
<1>0. /\ DOMAIN caller = Reqs /\ \A q \in Reqs : caller[q] \in {"new", "wait"} \cup Returns
  BY DEF Accounted, TypeOK
<1>1. CASE Send(r) /\ Len(ch) < QueueSize
  <2>1. /\ caller[r] = "new" /\ caller' = [caller EXCEPT ![r] = "wait"]
        /\ UNCHANGED <<loops, db>>
    BY <1>1 DEF Send, Return
  <2>2. \A q \in Reqs : q \in Pending' <=> q = r \/ q \in Pending
    BY <1>1, <2>1, SendMoves, PendingIs DEF Undecided, Accounted, loops
  <2>3. fateOf[r] = "new" /\ fateOf' = [fateOf EXCEPT ![r] = "accepted"]
    BY <1>0, <2>1, <2>2 DEF fateOf
  <2>4. answerOf' = answerOf BY <1>0, <2>1 DEF answerOf
  <2>5. Promise!Accept(r) BY <2>3, <2>4 DEF Promise!Accept
  <2> QED BY <2>5 DEF Promise!Next
<1>2. CASE (Send(r) /\ ~ Len(ch) < QueueSize) \/ SendAfterStop(r)
  <2>1. PICK what \in {"full", "panic"} :
          caller[r] = "new" /\ caller' = [caller EXCEPT ![r] = what]
          /\ UNCHANGED <<ch, loops, db>>
    BY <1>2 DEF Send, SendAfterStop, Return
  <2>2. \A q \in Reqs : q \in Pending' <=> q \in Pending
    BY <2>1 DEF Pending, loops
  <2>3. fateOf[r] = "new" /\ fateOf' = [fateOf EXCEPT ![r] = "refused"]
    BY <1>0, <2>1, <2>2 DEF fateOf
  <2>4. answerOf' = [answerOf EXCEPT ![r] = "refused"] BY <1>0, <2>1 DEF answerOf
  <2>5. Promise!Refuse(r) BY <2>3, <2>4 DEF Promise!Refuse
  <2> QED BY <2>5 DEF Promise!Next
<1>3. CASE Await(r) \/ GiveUp(r)
  <2>1. /\ caller[r] = "wait" /\ caller' = [caller EXCEPT ![r] = caller'[r]]
        /\ caller'[r] \in {"nil", "failed", "gone"}
        /\ UNCHANGED <<ch, loops, db>>
        /\ Await(r) => done[r] # <<>> /\ caller'[r] = Head(done[r])
    BY <1>0, <1>3, HeadTailProperties DEF Await, GiveUp, Return, Accounted, TypeOK
  <2>2. \A q \in Reqs : q \in Pending' <=> q \in Pending
    BY <2>1 DEF Pending, loops
  <2>3. fateOf' = fateOf BY <1>0, <2>1, <2>2 DEF fateOf
  <2>4. answerOf[r] = "none" /\ answerOf' = [answerOf EXCEPT ![r] = caller'[r]]
    BY <1>0, <2>1 DEF answerOf
  <2>5. fateOf[r] \in {"accepted", "stored", "stray", "lost"} BY <2>1 DEF fateOf
  <2>6. CASE GiveUp(r)
    <3>1. caller'[r] = "gone" BY <1>0, <2>6 DEF GiveUp, Return
    <3>2. Promise!GiveUp(r) BY <2>3, <2>4, <2>5, <3>1 DEF Promise!GiveUp
    <3> QED BY <3>2 DEF Promise!Next
  <2>7. CASE Await(r)
    <3>1. r \notin Pending BY <2>1, <2>7, PendingIs DEF Undecided, Accounted, Unheard, Held
    <3>2. /\ Head(<<"nil">>) = "nil" /\ Head(<<"failed">>) = "failed" OBVIOUS
    <3>3. (caller'[r] = "nil" /\ r \in stored) \/ (caller'[r] = "failed" /\ r \notin stored)
      BY <2>1, <2>7, <3>2 DEF Accounted, Outcomes
    <3>4. fateOf[r] = IF r \in stored THEN "stored" ELSE IF r \in stray THEN "stray" ELSE "lost"
      BY <2>1, <3>1 DEF fateOf
    <3>5. Promise!Answer(r) BY <2>3, <2>4, <3>3, <3>4 DEF Promise!Answer
    <3> QED BY <3>5 DEF Promise!Next
  <2> QED BY <1>3, <2>6, <2>7
<1> QED BY <1>1, <1>2, <1>3 DEF Submit

LEMMA RunKeepsPromise ==
  ASSUME Accounted, NEW w \in Loops, Run(w)
  PROVE  Promise!Next \/ UNCHANGED Promise!vars
<1>1. CASE Receive(w)
  <2>1. loop[w] = "select" /\ UNCHANGED <<callers, db>> BY <1>1 DEF Receive
  <2>2. \A q \in Reqs : q \in Pending' <=> q \in Pending
    BY <1>1, <2>1, ReceiveMoves, PendingIs DEF Undecided, Accounted
  <2> QED BY <2>1, <2>2, SameView DEF callers
<1>2. CASE ReceiveClosed(w) \/ Tick(w) \/ Flushed(w)
  <2>1. /\ UNCHANGED <<ch, callers, batch, db>>
        /\ \A v \in Loops : v # w => loop'[v] = loop[v]
        /\ batch[w] = <<>> \/ (loop[w] = "select" /\ loop'[w] \in {"select", "commit"})
    BY <1>2 DEF ReceiveClosed, Tick, Flushed, Accounted, TypeOK
  <2>2. /\ Queued' = Queued /\ \A v \in Loops : Of(v)' = Of(v)
        /\ batch[w] = <<>> => Of(w) = {}
    BY <2>1 DEF Queued, Of, Range
  <2>3. \A q \in Reqs : q \in Pending' <=> q \in Pending
    BY <2>1, <2>2, PendingIs DEF Undecided
  <2> QED BY <2>1, <2>3, SameView DEF callers
<1>3. CASE CommitOK(w) \/ CommitFails(w) \/ CommitUnheard(w)
  <2>1. PICK outcome \in {"stored", "lost", "stray"} :
          /\ loop[w] = "commit" /\ loop' = [loop EXCEPT ![w] = "release"]
          /\ stored' = IF outcome = "stored" THEN stored \cup Of(w) ELSE stored
          /\ stray' = IF outcome = "stray" THEN stray \cup Of(w) ELSE stray
          /\ outcome = "stray" => LostAnswers
          /\ UNCHANGED <<ch, callers, batch>>
    BY <1>3 DEF CommitOK, CommitFails, CommitUnheard, Committed, Of
  <2>2. /\ batch[w] # <<>> /\ batch[w] \in Seq(Reqs) /\ loop'[w] = "release"
        /\ Queued' = Queued /\ \A v \in Loops : Of(v)' = Of(v)
        /\ \A v \in Loops : v # w => loop'[v] = loop[v] /\ Of(v) \cap Of(w) = {}
        /\ Queued \cap Of(w) = {}
    BY <2>1 DEF Accounted, Stages, TypeOK, Queued, Of, Once
  <2>3. Of(w) \subseteq Reqs /\ Of(w) # {} BY <2>2, RangeEmpty DEF Of
  <2>4. \A r \in Of(w) : /\ caller[r] \in {"wait", "gone"} /\ r \notin stored \cup stray /\ r \in Pending
    BY <2>1, <2>3, PendingIs DEF Undecided, Accounted, Unheard, Held, Outcomes
  <2>5. \A r \in Reqs : r \in Pending' <=> r \in Pending /\ r \notin Of(w)
    BY <2>1, <2>2, PendingIs DEF Undecided
  <2>6. \A r \in Of(w) : fateOf[r] = "accepted" /\ fateOf'[r] = outcome
    BY <2>1, <2>3, <2>4, <2>5 DEF fateOf, callers
  <2>7. \A r \in Reqs : r \notin Of(w) => fateOf'[r] = fateOf[r]
    BY <2>1, <2>5 DEF fateOf, callers
  <2>8. fateOf' = [r \in Reqs |-> IF r \in Of(w) THEN outcome ELSE fateOf[r]]
    <3>1. DOMAIN fateOf' = Reqs /\ fateOf' = [r \in Reqs |-> fateOf'[r]] BY DEF fateOf
    <3> QED BY <2>6, <2>7, <3>1
  <2>9. answerOf' = answerOf BY <2>1 DEF answerOf, callers
  <2>10. Promise!Decide(Of(w), outcome) BY <2>1, <2>3, <2>6, <2>8, <2>9 DEF Promise!Decide
  <2>11. Of(w) \in SUBSET {r \in Reqs : fateOf[r] = "accepted"} BY <2>3, <2>6
  <2> QED BY <2>10, <2>11 DEF Promise!Next
<1>4. CASE Release(w)
  <2>1. loop[w] = "release" /\ UNCHANGED <<caller, loop, db>> BY <1>4 DEF Release
  <2>2. \A q \in Reqs : q \in Pending' <=> q \in Pending
    BY <1>4, <2>1, ReleaseMoves, PendingIs DEF Undecided, Accounted
  <2> QED BY <2>1, <2>2, SameView
<1> QED BY <1>1, <1>2, <1>3, <1>4 DEF Run

(***************************************************************************)
(* The writer implements DurableWriter, but for its liveness: an event is  *)
(* refused at once or accepted and decided on with its whole batch, and    *)
(* its caller hears "nil" of a stored event only, and "failed" of a lost   *)
(* one or, if the answer to a COMMIT may be lost (LostAnswers), of one     *)
(* that is stored; if none may be, of no stored event at all (Submit,      *)
(* loop, commit, Stop).                                                    *)
(***************************************************************************)
THEOREM PromiseKept == Spec => Promise!Safety
<1>1. Init => Promise!Init
  <2> SUFFICES ASSUME Init PROVE Promise!Init
    OBVIOUS
  <2>1. \A r \in Reqs : caller[r] = "new" BY DEF Init
  <2>2. fateOf = [r \in Reqs |-> "new"] BY <2>1 DEF fateOf
  <2>3. answerOf = [r \in Reqs |-> "none"] BY <2>1 DEF answerOf
  <2> QED BY <2>2, <2>3 DEF Promise!Init
<1>2. Accounted /\ [Next]_vars => [Promise!Next]_(Promise!vars)
  <2> SUFFICES ASSUME Accounted, [Next]_vars
               PROVE  Promise!Next \/ UNCHANGED Promise!vars
    OBVIOUS
  <2>1. CASE Stop \/ UNCHANGED vars
    <3>1. UNCHANGED <<ch, callers, loops, db>> BY <2>1 DEF Stop, vars
    <3>2. \A q \in Reqs : q \in Pending' <=> q \in Pending BY <3>1 DEF Pending, loops
    <3> QED BY <3>1, <3>2, SameView DEF callers
  <2> QED BY <2>1, SubmitKeepsPromise, RunKeepsPromise DEF Next, Finished
<1> QED BY <1>1, <1>2, AccountedHolds, PTL DEF Spec, Promise!Safety
=============================================================================
