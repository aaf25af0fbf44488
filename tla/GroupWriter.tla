---------------------------- MODULE GroupWriter ----------------------------
(***************************************************************************)
(* store.Writer in full: the bounded channel in its order, the flush timer *)
(* of each loop, the release of the waiters one by one, and Stop.          *)
(*                                                                         *)
(* DamageService has the same writer with the order, the timers and Stop   *)
(* left out; this module is where they are shown not to matter.            *)
(***************************************************************************)
EXTENDS Integers, Sequences, FiniteSets, Functions

CONSTANTS Reqs,        \* the calls of Submit
          Loops,       \* the goroutines of Start (WriterConfig.Concurrency)
          QueueSize,   \* WriterConfig.QueueSize
          MaxBatch,    \* WriterConfig.MaxBatch
          LostAnswers  \* whether Postgres's answer to a COMMIT may be lost

ASSUME WriterAssumption ==
  /\ IsFiniteSet(Reqs)
  /\ Loops # {}                  \* NewWriter: at least one
  /\ QueueSize \in Nat \ {0}
  /\ MaxBatch \in Nat \ {0}
  /\ LostAnswers \in BOOLEAN

VARIABLES
  ch,        \* the channel of requests, oldest first
  closed,    \* whether Stop has closed it
  caller,    \* where Submit is: "new", "wait", or what it returned
  done,      \* the channel done of each request: a sequence of at most 1 error
  loop,      \* each loop: "select", "commit", "release", "ended"
  batch,     \* its batch
  armed,     \* its timerActive: the timer runs
  err,       \* the error of the batch it releases (commit's err)
  stored,    \* the events of the COMMITs that Postgres has answered
  stray      \* those of the COMMITs that it executed and whose answer was lost

callers == <<caller, done>>
loops   == <<loop, batch, armed, err>>
db      == <<stored, stray>>
vars    == <<ch, closed, callers, loops, db>>

Returns == {"nil", "failed", "full", "gone", "panic"}

TypeOK ==
  /\ ch \in Seq(Reqs) /\ Len(ch) <= QueueSize
  /\ closed \in BOOLEAN
  /\ caller \in [Reqs -> {"new", "wait"} \cup Returns]
  /\ done \in [Reqs -> Seq({"nil", "failed"})]
  /\ loop \in [Loops -> {"select", "commit", "release", "ended"}]
  /\ batch \in [Loops -> Seq(Reqs)]
  /\ armed \in [Loops -> BOOLEAN]
  /\ err \in [Loops -> {"nil", "failed"}]
  /\ stored \subseteq Reqs /\ stray \subseteq Reqs

Init ==
  /\ ch = <<>>
  /\ closed = FALSE
  /\ caller = [r \in Reqs |-> "new"]
  /\ done = [r \in Reqs |-> <<>>]
  /\ loop = [w \in Loops |-> "select"]
  /\ batch = [w \in Loops |-> <<>>]
  /\ armed = [w \in Loops |-> FALSE]
  /\ err = [w \in Loops |-> "nil"]
  /\ stored = {} /\ stray = {}

(***************************************************************************)
(* Submit.                                                                 *)
(***************************************************************************)
Return(r, what) == caller' = [caller EXCEPT ![r] = what]

\* Mutant: one request too many.
Send_OffByOne(r) ==
  /\ caller[r] = "new"
  /\ ~ closed
  /\ IF Len(ch) <= QueueSize
       THEN ch' = Append(ch, r) /\ Return(r, "wait")
       ELSE Return(r, "full") /\ UNCHANGED ch
  /\ UNCHANGED <<closed, done, loops, db>>

Send(r) ==
  /\ caller[r] = "new"
  /\ ~ closed
  /\ IF Len(ch) < QueueSize
       THEN ch' = Append(ch, r) /\ Return(r, "wait")
       ELSE Return(r, "full") /\ UNCHANGED ch
  /\ UNCHANGED <<closed, done, loops, db>>

\* A send on a closed channel panics, default branch or not: a handler that
\* outlived httpSrv.Shutdown meets it (the router's Recoverer answers 500).
SendAfterStop(r) ==
  /\ caller[r] = "new"
  /\ closed
  /\ Return(r, "panic")
  /\ UNCHANGED <<ch, closed, done, loops, db>>

Await(r) ==
  /\ caller[r] = "wait"
  /\ done[r] # <<>>
  /\ Return(r, Head(done[r]))
  /\ done' = [done EXCEPT ![r] = Tail(@)]
  /\ UNCHANGED <<ch, closed, loops, db>>

GiveUp(r) ==
  /\ caller[r] = "wait"
  /\ Return(r, "gone")
  /\ UNCHANGED <<ch, closed, done, loops, db>>

(***************************************************************************)
(* loop.                                                                   *)
(***************************************************************************)
\* Mutant: the timer is started by the second request of a batch.
Receive_ArmsLate(w) ==
  /\ loop[w] = "select"
  /\ ch # <<>>
  /\ ch' = Tail(ch)
  /\ batch' = [batch EXCEPT ![w] = Append(@, Head(ch))]
  /\ IF Len(batch[w]) + 1 >= MaxBatch
       THEN loop' = [loop EXCEPT ![w] = "commit"] /\ UNCHANGED armed
       ELSE armed' = [armed EXCEPT ![w] = batch[w] # <<>>] /\ UNCHANGED loop
  /\ UNCHANGED <<closed, callers, err, db>>

Receive(w) ==
  /\ loop[w] = "select"
  /\ ch # <<>>
  /\ ch' = Tail(ch)
  /\ batch' = [batch EXCEPT ![w] = Append(@, Head(ch))]
  /\ IF Len(batch[w]) + 1 >= MaxBatch
       THEN loop' = [loop EXCEPT ![w] = "commit"] /\ UNCHANGED armed
       ELSE armed' = [armed EXCEPT ![w] = TRUE] /\ UNCHANGED loop
  /\ UNCHANGED <<closed, callers, err, db>>

\* Mutant: return without the flush.
ReceiveClosed_NoFlush(w) ==
  /\ loop[w] = "select"
  /\ ch = <<>> /\ closed
  /\ loop' = [loop EXCEPT ![w] = "ended"]
  /\ UNCHANGED <<ch, closed, callers, batch, armed, err, db>>

\* The channel is closed and drained: flush what is left and return.
ReceiveClosed(w) ==
  /\ loop[w] = "select"
  /\ ch = <<>> /\ closed
  /\ loop' = [loop EXCEPT ![w] = IF batch[w] = <<>> THEN "ended" ELSE "commit"]
  /\ UNCHANGED <<ch, closed, callers, batch, armed, err, db>>

Tick(w) ==
  /\ loop[w] = "select"
  /\ armed[w]
  /\ armed' = [armed EXCEPT ![w] = FALSE]
  /\ loop' = [loop EXCEPT ![w] = IF batch[w] = <<>> THEN @ ELSE "commit"]
  /\ UNCHANGED <<ch, closed, callers, batch, err, db>>

(***************************************************************************)
(* commit.  CommitBatch returns nil when Postgres has answered its COMMIT. *)
(***************************************************************************)
Committed(w, answer) ==
  /\ loop[w] = "commit"
  /\ err' = [err EXCEPT ![w] = answer]
  /\ loop' = [loop EXCEPT ![w] = "release"]
  /\ UNCHANGED <<ch, closed, callers, batch, armed>>

CommitOK(w) ==
  /\ Committed(w, "nil")
  /\ stored' = stored \cup Range(batch[w])
  /\ UNCHANGED stray

\* A statement fails, TxTimeout comes before the COMMIT, Postgres refuses it; a
\* panic is recovered and released as a failure, too.
CommitFails(w) ==
  /\ Committed(w, "failed")
  /\ UNCHANGED <<stored, stray>>

\* TxTimeout or a lost connection during the COMMIT: the same error, but the
\* batch is stored (at once or later: nobody in here reads the tables).
CommitUnheard(w) ==
  /\ LostAnswers
  /\ Committed(w, "failed")
  /\ stray' = stray \cup Range(batch[w])
  /\ UNCHANGED stored

\* Mutants: a waiter is released twice; done has no buffer; the error is the
\* one of the time the release was deferred.
Release_Twice(w) ==
  /\ loop[w] = "release"
  /\ batch[w] # <<>>
  /\ done[Head(batch[w])] = <<>>
  /\ done' = [done EXCEPT ![Head(batch[w])] = <<err[w]>>]
  /\ UNCHANGED <<ch, closed, caller, loop, batch, armed, err, db>>

Release_Unbuffered(w) ==
  /\ loop[w] = "release"
  /\ batch[w] # <<>>
  /\ caller[Head(batch[w])] = "wait"
  /\ done[Head(batch[w])] = <<>>
  /\ done' = [done EXCEPT ![Head(batch[w])] = <<err[w]>>]
  /\ batch' = [batch EXCEPT ![w] = Tail(@)]
  /\ UNCHANGED <<ch, closed, caller, loop, armed, err, db>>

Release_AlwaysNil(w) ==
  /\ loop[w] = "release"
  /\ batch[w] # <<>>
  /\ done[Head(batch[w])] = <<>>
  /\ done' = [done EXCEPT ![Head(batch[w])] = <<"nil">>]
  /\ batch' = [batch EXCEPT ![w] = Tail(@)]
  /\ UNCHANGED <<ch, closed, caller, loop, armed, err, db>>

\* req.done <- err, for the next waiter; the send waits for room in done.
Release(w) ==
  /\ loop[w] = "release"
  /\ batch[w] # <<>>
  /\ done[Head(batch[w])] = <<>>
  /\ done' = [done EXCEPT ![Head(batch[w])] = <<err[w]>>]
  /\ batch' = [batch EXCEPT ![w] = Tail(@)]
  /\ UNCHANGED <<ch, closed, caller, loop, armed, err, db>>

\* flush returns: the timer of a batch that filled up is stopped.
Flushed(w) ==
  /\ loop[w] = "release"
  /\ batch[w] = <<>>
  /\ armed' = [armed EXCEPT ![w] = FALSE]
  /\ err' = [err EXCEPT ![w] = "nil"]
  /\ loop' = [loop EXCEPT ![w] = "select"]
  /\ UNCHANGED <<ch, closed, callers, batch, db>>

(***************************************************************************)
(* Stop closes the channel; its Wait is over when every loop has ended.    *)
(***************************************************************************)
Stop ==
  /\ ~ closed
  /\ closed' = TRUE
  /\ UNCHANGED <<ch, callers, loops, db>>

Stopped == \A w \in Loops : loop[w] = "ended"

Submit(r) == Send(r) \/ SendAfterStop(r) \/ Await(r) \/ GiveUp(r)

Run(w) == \/ Receive(w) \/ ReceiveClosed(w) \/ Tick(w)
          \/ CommitOK(w) \/ CommitFails(w) \/ CommitUnheard(w)
          \/ Release(w) \/ Flushed(w)

Finished == Stopped /\ (\A r \in Reqs : caller[r] \in Returns) /\ UNCHANGED vars

Next == \/ \E r \in Reqs : Submit(r)
        \/ \E w \in Loops : Run(w)
        \/ Stop
        \/ Finished

(***************************************************************************)
(* The runtime schedules every goroutine that can run.  A loop's timer is  *)
(* one of the cases of its select, which picks among the ready ones at     *)
(* random.  Nobody has to call Submit, give up or Stop.                    *)
(***************************************************************************)
Fairness ==
  /\ \A w \in Loops : WF_vars(Run(w))
  /\ \A r \in Reqs : WF_vars(Await(r))

Spec == Init /\ [][Next]_vars /\ Fairness

(***************************************************************************)
(* A waiting batch always has its timer running, so it is flushed within   *)
(* MaxWait even if no other request ever comes (loop).                     *)
(***************************************************************************)
TimerCovers == \A w \in Loops : loop[w] = "select" /\ batch[w] # <<>> => armed[w]

(***************************************************************************)
(* The send on done never blocks, even to a caller who gave up: one slot,  *)
(* one release per request.  A loop stuck there would strand its batch.    *)
(***************************************************************************)
ReleaseNeverBlocks ==
  \A w \in Loops : loop[w] = "release" /\ batch[w] # <<>> => done[Head(batch[w])] = <<>>

(***************************************************************************)
(* When Stop returns, every accepted event has been through a commit: the  *)
(* buffered ones are flushed, and none was accepted behind its back.       *)
(***************************************************************************)
StopFlushes ==
  Stopped => /\ ch = <<>>
             /\ \A w \in Loops : batch[w] = <<>>
             /\ \A r \in Reqs : caller[r] = "wait" => done[r] # <<>>

(***************************************************************************)
(* Stop returns (shutdown does not hang on the writer).                    *)
(***************************************************************************)
StopReturns == closed ~> Stopped

(***************************************************************************)
(* The writer keeps the promise of DurableWriter: an accepted event shares *)
(* the fate of its batch, and a caller who stays hears of it: "nil" means  *)
(* stored, "failed" means lost or, where the answer to a COMMIT may be     *)
(* lost, stored all the same (Submit, commit).                             *)
(***************************************************************************)
Pending == Range(ch) \cup
           (UNION {Range(batch[w]) : w \in {x \in Loops : loop[x] \in {"select", "commit"}}})

fateOf == [r \in Reqs |->
             IF caller[r] = "new" THEN "new"
             ELSE IF caller[r] \in {"full", "panic"} THEN "refused"
             ELSE IF r \in Pending THEN "accepted"
             ELSE IF r \in stored THEN "stored"
             ELSE IF r \in stray THEN "stray"
             ELSE "lost"]

answerOf == [r \in Reqs |->
               CASE caller[r] \in {"new", "wait"}   -> "none"
                 [] caller[r] \in {"full", "panic"} -> "refused"
                 [] OTHER                           -> caller[r]]

Promise == INSTANCE DurableWriter WITH fate <- fateOf, answer <- answerOf

KeepsPromise == Promise!Spec
=============================================================================
