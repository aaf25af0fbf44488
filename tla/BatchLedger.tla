---------------------------- MODULE BatchLedger ----------------------------
(***************************************************************************)
(* What CommitBatch promises to the rest of the service: a batch of events *)
(* on several bosses is booked in one step, once, and whole.               *)
(***************************************************************************)
EXTENDS BossStore

CONSTANTS Hits,      \* the events
          Bosses,
          BossOf,    \* what an event is about: its boss, its player, its points
          PlayerOf,
          Applied

VARIABLES ledger,    \* the rows of each boss, as in BossStore
          events     \* the rows of damage_events

HitsOn(b, B) == {h \in B : BossOf[h] = b}

Init ==
  /\ ledger = [b \in Bosses |-> Untouched]
  /\ events = {}

Book(B) ==
  /\ B \cap events = {}
  /\ events' = events \cup B
  /\ ledger' = [b \in Bosses |->
                  IF HitsOn(b, B) = {} THEN ledger[b]
                  ELSE CommitBatch(ledger[b], HitsOn(b, B), PlayerOf, Applied)]

Next == \E B \in SUBSET Hits : Book(B)

Spec == Init /\ [][Next]_<<ledger, events>>
=============================================================================
