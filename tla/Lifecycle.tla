----------------------------- MODULE Lifecycle -----------------------------
(***************************************************************************)
(* The background reconciler with many bosses (internal/recovery/          *)
(* reconcile.go), the handlers that ask it for a rebuild (internal/boss/   *)
(* service.go), and the shutdown that stops the handlers, the writer and   *)
(* the reconciler one after another (cmd/server/main.go).                  *)
(*                                                                         *)
(* The stores are left out: a handler appears once its hit has landed, and *)
(* the writer is the promise of DurableWriter: it answers nil or failed    *)
(* for what it has accepted, and Stop waits until it has.                  *)
(*                                                                         *)
(* Time passes in ticks.                                                   *)
(***************************************************************************)
EXTENDS Integers, Sequences, FiniteSets

CONSTANTS Handlers,    \* the POST /damage requests that land a hit
          Bosses,
          BossOf,      \* the boss of each
          Workers,     \* reconcileWorkers
          QueueSize,   \* reconcileQueueSize
          RequestTime,     \* the router's timeout
          UndoTime,        \* compensateTimeout
          ShutdownTimes    \* values of config.ShutdownTimeout

ASSUME LifecycleAssumption ==
  /\ IsFiniteSet(Handlers) /\ IsFiniteSet(Workers)
  /\ Bosses # {} /\ BossOf \in [Handlers -> Bosses]
  /\ QueueSize \in Nat \ {0}
  /\ RequestTime \in Nat /\ UndoTime \in Nat
  /\ ShutdownTimes \subseteq Nat

VARIABLES
  server,    \* where run() is
  patience,  \* the ticks httpSrv.Shutdown waits: as configured, then what is left
  enough,    \* whether that is more than any handler can take
  pc,        \* each handler
  left,      \* the ticks until its context, or its undo's, is over
  pending,   \* the handlers whose events the writer has accepted and not settled
  reply,     \* what it has answered to one who waits: "none", "nil" or "failed"
  ch,        \* the reconciler's intake, oldest first
  queued,    \* the set Reconciler.queued
  work,      \* each worker: where it is, and with which boss
  asked      \* the bosses whose last request no rebuild has been started for

writer     == <<pending, reply>>
reconciler == <<ch, queued, work, asked>>
vars       == <<server, patience, enough, pc, left, writer, reconciler>>

Idle == [at |-> "idle", boss |-> CHOOSE b \in Bosses : TRUE]

Init ==
  /\ server = "serving"
  /\ patience \in ShutdownTimes
  /\ enough = (patience > RequestTime + UndoTime)
  /\ pc = [h \in Handlers |-> "new"]
  /\ left = [h \in Handlers |-> 0]
  /\ pending = {}
  /\ reply = [h \in Handlers |-> "none"]
  /\ ch = <<>>
  /\ queued = {}
  /\ work = [w \in Workers |-> Idle]
  /\ asked = {}

\* Mutant: the writer is stopped before the handlers are drained.
WriterClosed_First == server # "serving"

\* The two channels are closed by the Stop of their owner.
WriterClosed == server \in {"flushing", "stopping"}
ReconcilerClosed == server = "stopping"

Running == server \in {"serving", "draining", "flushing", "stopping"}

(***************************************************************************)
(* A handler: Damage once its hit has landed.                              *)
(***************************************************************************)
\* Go to a step and have some time for it; a step that waits for nothing has none.
Goto(h, step, time) == pc' = [pc EXCEPT ![h] = step] /\ left' = [left EXCEPT ![h] = time]

Over == {"done", "panic", "leak"}

Busy(h) == pc[h] \notin {"new"} \cup Over

\* The request is accepted while the server serves, and its hit lands.
Arrive(h) ==
  /\ server = "serving"
  /\ pc[h] = "new"
  /\ Goto(h, "submit", RequestTime)
  /\ UNCHANGED <<server, patience, enough, writer, reconciler>>

\* Submit: the channel may be full; on the closed one the handler panics, with
\* its hit in Redis, and nobody undoes it (Recoverer answers 500).
Submit(h) ==
  /\ pc[h] = "submit"
  /\ \/ ~ WriterClosed /\ pending' = pending \cup {h} /\ Goto(h, "wait", left[h])
     \/ ~ WriterClosed /\ Goto(h, "undo", UndoTime) /\ UNCHANGED pending
     \/ WriterClosed /\ Goto(h, "panic", 0) /\ UNCHANGED pending
  /\ UNCHANGED <<server, patience, enough, reply, reconciler>>

Answered(h) ==
  /\ pc[h] = "wait"
  /\ \/ reply[h] = "nil" /\ Goto(h, "done", 0)
     \/ reply[h] = "failed" /\ Goto(h, "undo", UndoTime)
  /\ reply' = [reply EXCEPT ![h] = "none"]
  /\ UNCHANGED <<server, patience, enough, pending, reconciler>>

\* The client leaves, or RequestTime is over.
Cancelled(h) ==
  /\ pc[h] = "wait"
  /\ Goto(h, "ask", 0)
  /\ reply' = [reply EXCEPT ![h] = "none"]
  /\ UNCHANGED <<server, patience, enough, pending, reconciler>>

\* The undo works, or the boss has to be reconciled.
Undo(h) ==
  /\ pc[h] = "undo"
  /\ Goto(h, "done", 0) \/ Goto(h, "ask", 0)
  /\ UNCHANGED <<server, patience, enough, writer, reconciler>>

(***************************************************************************)
(* Enqueue: mark the boss, send without blocking, unmark it if that fails. *)
(***************************************************************************)
Ask(h) ==
  /\ pc[h] = "ask"
  /\ asked' = asked \cup {BossOf[h]}
  /\ queued' = queued \cup {BossOf[h]}
  /\ Goto(h, IF BossOf[h] \in queued THEN "done" ELSE "send", 0)
  /\ UNCHANGED <<server, patience, enough, writer, ch, work>>

\* Mutant: the request is dropped and its mark is left behind.
Send_KeepsMark(h) ==
  /\ pc[h] = "send"
  /\ IF ReconcilerClosed THEN Goto(h, "leak", 0) /\ UNCHANGED ch
     ELSE IF Len(ch) < QueueSize THEN ch' = Append(ch, BossOf[h]) /\ Goto(h, "done", 0)
     ELSE Goto(h, "done", 0) /\ UNCHANGED ch
  /\ UNCHANGED <<server, patience, enough, writer, queued, work, asked>>

Send(h) ==
  /\ pc[h] = "send"
  /\ IF ReconcilerClosed THEN Goto(h, "leak", 0) /\ UNCHANGED ch
     ELSE IF Len(ch) < QueueSize THEN ch' = Append(ch, BossOf[h]) /\ Goto(h, "done", 0)
     ELSE Goto(h, "drop", 0) /\ UNCHANGED ch
  /\ UNCHANGED <<server, patience, enough, writer, queued, work, asked>>

\* Logged; requests that coalesced with this one in between are dropped with it.
Drop(h) ==
  /\ pc[h] = "drop"
  /\ queued' = queued \ {BossOf[h]}
  /\ asked' = asked \ {BossOf[h]}
  /\ Goto(h, "done", 0)
  /\ UNCHANGED <<server, patience, enough, writer, ch, work>>

Handle(h) == \/ Submit(h) \/ Answered(h) \/ Cancelled(h) \/ Undo(h)
             \/ Ask(h) \/ Send(h) \/ Drop(h)

(***************************************************************************)
(* The reconciler's workers.                                               *)
(***************************************************************************)
others == <<server, patience, enough, pc, left, writer>>

Take(w) ==
  /\ work[w].at = "idle"
  /\ ch # <<>>
  /\ work' = [work EXCEPT ![w] = [at |-> "delay", boss |-> Head(ch)]]
  /\ ch' = Tail(ch)
  /\ UNCHANGED <<others, queued, asked>>

\* The delay is over: free the slot, then rebuild.
Settle(w) ==
  /\ work[w].at = "delay"
  /\ queued' = queued \ {work[w].boss}
  /\ asked' = asked \ {work[w].boss}
  /\ work' = [work EXCEPT ![w].at = "rebuild"]
  /\ UNCHANGED <<others, ch>>

\* Mutant: a rebuild that fails ends its worker, without wg.Done.
Rebuilt_Ends(w) ==
  /\ work[w].at = "rebuild"
  /\ work' = [work EXCEPT ![w].at = "gone"]
  /\ UNCHANGED <<others, ch, queued, asked>>

\* RehydrateBoss returns, within reconcileTimeout.
Rebuilt(w) ==
  /\ work[w].at = "rebuild"
  /\ work' = [work EXCEPT ![w] = Idle]
  /\ UNCHANGED <<others, ch, queued, asked>>

\* Mutant: the slot is freed after the rebuild.
Reconcile_FreesLate(w) ==
  \/ Take(w)
  \/ /\ work[w].at = "delay"
     /\ asked' = asked \ {work[w].boss}
     /\ work' = [work EXCEPT ![w].at = "rebuild"]
     /\ UNCHANGED <<others, ch, queued>>
  \/ /\ work[w].at = "rebuild"
     /\ queued' = queued \ {work[w].boss}
     /\ work' = [work EXCEPT ![w] = Idle]
     /\ UNCHANGED <<others, ch, asked>>

Reconcile(w) == Take(w) \/ Settle(w) \/ Rebuilt(w)

(***************************************************************************)
(* The writer: some of what it has accepted is stored, or fails.           *)
(***************************************************************************)
Flush(B, err) ==
  /\ pending' = pending \ B
  /\ reply' = [h \in Handlers |-> IF h \in B /\ pc[h] = "wait" THEN err ELSE reply[h]]
  /\ UNCHANGED <<server, patience, enough, pc, left, reconciler>>

(***************************************************************************)
(* run(), after the service has come up.                                   *)
(***************************************************************************)
rest == <<enough, pc, left, writer, reconciler>>

Signal == server = "serving" /\ server' = "draining" /\ UNCHANGED <<patience, rest>>

\* ListenAndServe fails: run returns, and nothing is stopped first.
ListenFails == server = "serving" /\ server' = "failed" /\ UNCHANGED <<patience, rest>>

\* httpSrv.Shutdown returns: every handler is over, or the time is.
ShutdownReturns ==
  /\ server = "draining"
  /\ (\A h \in Handlers : ~ Busy(h)) \/ patience = 0
  /\ server' = "flushing"
  /\ UNCHANGED <<patience, rest>>

\* writer.Stop returns.
WriterStopped ==
  /\ server = "flushing"
  /\ pending = {}
  /\ server' = "stopping"
  /\ UNCHANGED <<patience, rest>>

\* Mutant: Stop closes the intake and does not wait.
ReconcilerStopped_NoWait ==
  /\ server = "stopping"
  /\ server' = "exited"
  /\ UNCHANGED <<patience, rest>>

\* reconciler.Stop returns: the workers have drained the intake.
ReconcilerStopped ==
  /\ server = "stopping"
  /\ ch = <<>>
  /\ \A w \in Workers : work[w].at = "idle"
  /\ server' = "exited"
  /\ UNCHANGED <<patience, rest>>

Shutdown == ShutdownReturns \/ WriterStopped \/ ReconcilerStopped

\* A handler makes its steps in time; httpSrv.Shutdown too.
Tick ==
  /\ \A h \in Handlers : Busy(h) => left[h] > 0
  /\ server = "draining" => patience > 0
  /\ left' = [h \in Handlers |-> IF Busy(h) THEN left[h] - 1 ELSE left[h]]
  /\ patience' = IF server = "draining" THEN patience - 1 ELSE patience
  /\ UNCHANGED <<server, enough, pc, writer, reconciler>>

Ended == ~ Running /\ UNCHANGED vars

Write == \E B \in (SUBSET pending) \ {{}}, err \in {"nil", "failed"} : Flush(B, err)

Next == \/ Running /\ \/ \E h \in Handlers : Arrive(h) \/ Handle(h)
                      \/ \E w \in Workers : Reconcile(w)
                      \/ Write \/ Signal \/ ListenFails \/ Shutdown \/ Tick
        \/ Ended

Spec == Init /\ [][Next]_vars

\* Every goroutine that can go on does: the handlers, the workers (whose delay
\* ends), the writer (GroupWriter), and run once it has been signalled.
FairSpec == /\ Spec
            /\ \A h \in Handlers : WF_vars(Running /\ Handle(h))
            /\ \A w \in Workers : WF_vars(Running /\ Reconcile(w))
            /\ WF_vars(Running /\ Write)
            /\ WF_vars(Shutdown)

TypeOK ==
  /\ Running \/ server \in {"exited", "failed"}
  /\ patience \in Nat
  /\ enough \in BOOLEAN
  /\ pc \in [Handlers -> {"new", "submit", "wait", "undo", "ask", "send", "drop"} \cup Over]
  /\ left \in [Handlers -> Nat]
  /\ pending \subseteq Handlers
  /\ reply \in [Handlers -> {"none", "nil", "failed"}]
  /\ ch \in Seq(Bosses) /\ Len(ch) <= QueueSize
  /\ queued \subseteq Bosses
  /\ work \in [Workers -> [at : {"idle", "delay", "rebuild"}, boss : Bosses]]
  /\ asked \subseteq Bosses

(***************************************************************************)
(* The set and the channel of the reconciler agree, although Enqueue       *)
(* changes them in two steps: a marked boss is with one handler, in one    *)
(* place of the intake, or with one worker; an unmarked one is nowhere.    *)
(* Otherwise a boss is rebuilt twice over, or never again (Enqueue).       *)
(***************************************************************************)
Carriers(b) ==
  ({"handler"} \X {h \in Handlers : pc[h] \in {"send", "drop", "leak"} /\ BossOf[h] = b})
  \cup ({"intake"} \X {i \in 1 .. Len(ch) : ch[i] = b})
  \cup ({"worker"} \X {w \in Workers : work[w].at = "delay" /\ work[w].boss = b})

OneSlot == \A b \in Bosses : IF b \in queued THEN \E c \in Carriers(b) : Carriers(b) = {c}
                                             ELSE Carriers(b) = {}

(***************************************************************************)
(* "Free the slot before rebuild so a mid-rebuild divergence re-enqueues"  *)
(* (worker): a request that coalesces with another one relies on a slot    *)
(* whose rebuild has not begun to read yet.                                *)
(***************************************************************************)
RequestsAreOwed == asked \subseteq queued

(***************************************************************************)
(* "Drain HTTP handlers first (they may block on the writer), then flush   *)
(* the writer" (run): no handler meets a closed channel, if the shutdown   *)
(* timeout exceeds the longest request and its undo.                       *)
(***************************************************************************)
NobodyMeetsAClosedChannel == enough => \A h \in Handlers : pc[h] \notin {"panic", "leak"}

(***************************************************************************)
(* "graceful shutdown drains in-flight handlers and flushes the final      *)
(* batch" (ARCHITECT.md): a process that exits leaves no request           *)
(* unanswered, no event undecided, and no boss without its rebuild.        *)
(***************************************************************************)
ExitOwesNothing ==
  server = "exited" => /\ pending = {}
                       /\ enough => asked = {} /\ \A h \in Handlers : ~ Busy(h)

(***************************************************************************)
(* A requested rebuild is started or dropped (Enqueue, worker), during a   *)
(* shutdown too.                                                           *)
(***************************************************************************)
RequestsAreServed ==
  \A b \in Bosses : enough /\ b \in asked ~> b \notin asked \/ server = "failed"

(***************************************************************************)
(* A shutdown comes to its end, even one that gives up on its handlers.    *)
(***************************************************************************)
ShutdownEnds == server = "draining" ~> server = "exited"
=============================================================================
