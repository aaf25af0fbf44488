--------------------------- MODULE DurableWriter ---------------------------
(***************************************************************************)
(* What Writer.Submit promises its callers, whatever goroutines, channels  *)
(* and timers are behind it: an event is refused at once or accepted; an   *)
(* accepted event shares the fate of a group, stored or lost as a whole;   *)
(* and the caller who stays hears of it: "nil" is the word for a stored    *)
(* event and no other, "failed" for a lost one and, where the answer to a  *)
(* COMMIT may be lost, for one that is stored all the same.                *)
(***************************************************************************)
EXTENDS FiniteSets

CONSTANTS Reqs,         \* the calls of Submit
          LostAnswers   \* whether Postgres's answer to a COMMIT may be lost

VARIABLES fate,    \* of the event: "new", "refused", "accepted", "stored", "lost",
                   \* or "stray": stored by a COMMIT whose answer was lost
          answer   \* what Submit returned: "none", "nil", "failed", "refused", "gone"

vars == <<fate, answer>>

Init ==
  /\ fate = [r \in Reqs |-> "new"]
  /\ answer = [r \in Reqs |-> "none"]

\* ErrQueueFull (or the panic of a send after Stop): the event goes nowhere.
Refuse(r) ==
  /\ fate[r] = "new"
  /\ fate' = [fate EXCEPT ![r] = "refused"]
  /\ answer' = [answer EXCEPT ![r] = "refused"]

Accept(r) ==
  /\ fate[r] = "new"
  /\ fate' = [fate EXCEPT ![r] = "accepted"]
  /\ UNCHANGED answer

\* One transaction decides for its whole group.
Decide(S, outcome) ==
  /\ S # {} /\ \A r \in S : fate[r] = "accepted"
  /\ outcome = "stray" => LostAnswers
  /\ fate' = [r \in Reqs |-> IF r \in S THEN outcome ELSE fate[r]]
  /\ UNCHANGED answer

Answer(r) ==
  /\ answer[r] = "none"
  /\ \/ fate[r] = "stored" /\ answer' = [answer EXCEPT ![r] = "nil"]
     \/ fate[r] \in {"lost", "stray"} /\ answer' = [answer EXCEPT ![r] = "failed"]
  /\ UNCHANGED fate

\* ctx.Err(): the caller leaves, its event does not.
GiveUp(r) ==
  /\ answer[r] = "none"
  /\ fate[r] \notin {"new", "refused"}
  /\ answer' = [answer EXCEPT ![r] = "gone"]
  /\ UNCHANGED fate

Next ==
  \/ \E r \in Reqs : Refuse(r) \/ Accept(r) \/ Answer(r) \/ GiveUp(r)
  \/ \E S \in SUBSET {r \in Reqs : fate[r] = "accepted"}, outcome \in {"stored", "lost", "stray"} :
       Decide(S, outcome)

\* What may happen ...
Safety == Init /\ [][Next]_vars

\* ... and what must: every event that came is decided on, and its caller has
\* heard or left.
Spec ==
  /\ Safety
  /\ \A r \in Reqs :
       fate[r] # "new" ~> fate[r] # "accepted" /\ answer[r] # "none"
=============================================================================
