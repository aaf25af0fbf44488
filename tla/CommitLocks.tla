---------------------------- MODULE CommitLocks ----------------------------
(***************************************************************************)
(* CommitBatch statement by statement (internal/store/postgres.go): the    *)
(* transactions of several committers, on the rows of several bosses, with *)
(* the row locks Postgres takes for them and keeps until they end.         *)
(*                                                                         *)
(* A session is a backend of Postgres.  When a committer gives up          *)
(* (TxTimeout) its connection is thrown away, and the session it leaves    *)
(* behind keeps its locks, and even waits for more, until Postgres ends    *)
(* it.  A reader of committed rows takes no lock, and the foreign keys     *)
(* take KEY SHARE locks on bosses, with which these UPDATEs have no        *)
(* conflict.                                                               *)
(***************************************************************************)
EXTENDS BossStore

CONSTANTS Hits, Bosses, BossOf, PlayerOf, Applied,   \* as in BatchLedger
          Sessions,
          MaxConns,   \* config.PGMaxConns
          MaxBatch,
          Rank        \* the place of a row in the order of the statements

\* A row: its table and its key.
ContribRow(b, p) == <<"contributions", b, p>>
BossRow(b)       == <<"bosses", b>>

ContribRows == {ContribRow(b, p) : b \in Bosses, p \in Players}
BossRows    == {BossRow(b) : b \in Bosses}
Rows        == ContribRows \cup BossRows

\* Contributions by boss and player, then bosses: any such order of the names.
ASSUME LocksAssumption ==
  /\ IsFiniteSet(Hits) /\ IsFiniteSet(Sessions)
  /\ BossOf \in [Hits -> Bosses] /\ PlayerOf \in [Hits -> Players]
  /\ Applied \in [Hits -> Nat \ {0}]
  /\ MaxConns \in Nat \ {0} /\ MaxBatch \in Nat \ {0}
  /\ Rank \in [Rows -> Nat]
  /\ \A r, s \in Rows : Rank[r] = Rank[s] => r = s
  /\ \A r \in ContribRows, s \in BossRows : Rank[r] < Rank[s]

VARIABLES
  table,    \* the committed rows: total_damage, or [current_hp, state]
  events,   \* the committed rows of damage_events
  waiting,  \* the events no batch has been made of yet
  batch,    \* the events of each session's transaction; {}: no transaction
  client,   \* its committer: "here", or gone before ("left") or after ("sent")
            \* it sent COMMIT
  draft     \* the rows it has written, and so locked, with their new values

vars == <<table, events, waiting, batch, client, draft>>

NoRows == [r \in {} |-> 0]

Init ==
  /\ table = [r \in Rows |-> IF r \in BossRows THEN [hp |-> MaxHP, state |-> "alive"] ELSE 0]
  /\ events = {}
  /\ waiting = Hits
  /\ batch = [t \in Sessions |-> {}]
  /\ client = [t \in Sessions |-> "here"]
  /\ draft = [t \in Sessions |-> NoRows]

(***************************************************************************)
(* The statements of a transaction.                                        *)
(***************************************************************************)
Open == {t \in Sessions : batch[t] # {}}

Held(t) == DOMAIN draft[t]

\* The rows of the batch: one per player and boss, one per boss.
Touched(B) == {ContribRow(BossOf[h], PlayerOf[h]) : h \in B} \cup {BossRow(BossOf[h]) : h \in B}

Todo(t) == Touched(batch[t]) \ Held(t)

\* Mutant: in the order the map has them, table by table.
IsNext_MapOrder(t, r) ==
  r \in Todo(t) /\ (r \in BossRows => Todo(t) \subseteq BossRows)

\* The row of its next statement: they are sorted.
IsNext(t, r) == r \in Todo(t) /\ \A s \in Todo(t) : Rank[r] <= Rank[s]

\* The new version of a row whose committed version is old.
Update(t, r, old) ==
  IF r \in BossRows
    THEN LET perBoss == Total(Applied, {h \in batch[t] : BossRow(BossOf[h]) = r})
         IN  [hp    |-> IF old.hp >= perBoss THEN old.hp - perBoss ELSE 0,
              state |-> IF old.hp - perBoss <= 0 THEN "defeated" ELSE old.state]
    ELSE old + Total(Applied, {h \in batch[t] : ContribRow(BossOf[h], PlayerOf[h]) = r})

\* Begin takes a connection of the pool; COPY appends the events, uncommitted.
Begin(t, B) ==
  /\ batch[t] = {}
  /\ Cardinality({u \in Open : client[u] = "here"}) < MaxConns
  /\ B # {} /\ Cardinality(B) <= MaxBatch
  /\ batch' = [batch EXCEPT ![t] = B]
  /\ waiting' = waiting \ B
  /\ UNCHANGED <<table, events, client, draft>>

\* Mutant: the row is locked only when the transaction commits.
Write_Unlocked(t, r) ==
  /\ IsNext(t, r)
  /\ draft' = [draft EXCEPT ![t] = [s \in Held(t) \cup {r} |->
                 IF s = r THEN Update(t, r, table[r]) ELSE draft[t][s]]]
  /\ UNCHANGED <<table, events, waiting, batch, client>>

\* The next upsert or UPDATE: it waits while another transaction holds the row
\* (or is inserting its key), then works on the version committed last.
Write(t, r) ==
  /\ IsNext(t, r)
  /\ \A u \in Sessions : r \notin Held(u)
  /\ draft' = [draft EXCEPT ![t] = [s \in Held(t) \cup {r} |->
                 IF s = r THEN Update(t, r, table[r]) ELSE draft[t][s]]]
  /\ UNCHANGED <<table, events, waiting, batch, client>>

End(t) ==
  /\ batch' = [batch EXCEPT ![t] = {}]
  /\ client' = [client EXCEPT ![t] = "here"]
  /\ draft' = [draft EXCEPT ![t] = NoRows]

Commit(t) ==
  /\ batch[t] # {} /\ Todo(t) = {}
  /\ client[t] # "left"
  /\ table' = [r \in Rows |-> IF r \in Held(t) THEN draft[t][r] ELSE table[r]]
  /\ events' = events \cup batch[t]
  /\ End(t)
  /\ UNCHANGED waiting

\* Mutant: no deferred Rollback, the connection goes back to the pool as it is.
Abort_NoRollback(t) ==
  /\ batch[t] # {}
  /\ batch' = [batch EXCEPT ![t] = {}]
  /\ client' = [client EXCEPT ![t] = "here"]
  /\ UNCHANGED <<table, events, waiting, draft>>

\* An error, or Postgres finds the connection dead: everything is rolled back.
Abort(t) ==
  /\ batch[t] # {}
  /\ End(t)
  /\ UNCHANGED <<table, events, waiting>>

\* TxTimeout: the committer fails its batch; the session knows nothing yet.
GiveUp(t) ==
  /\ batch[t] # {} /\ client[t] = "here"
  /\ \E how \in (IF Todo(t) = {} THEN {"left", "sent"} ELSE {"left"}) :
       client' = [client EXCEPT ![t] = how]
  /\ UNCHANGED <<table, events, waiting, batch, draft>>

Proceed(t) == \/ Commit(t) \/ \E r \in Todo(t) : Write(t, r)
              \/ client[t] = "left" /\ Todo(t) = {} /\ Abort(t)

Finished == waiting = {} /\ Open = {} /\ UNCHANGED vars

Next == \/ \E t \in Sessions : \/ Proceed(t) \/ Abort(t) \/ GiveUp(t)
                            \/ \E B \in SUBSET waiting : Begin(t, B)
        \/ Finished

Spec == Init /\ [][Next]_vars

\* A backend that can go on does, and rolls back in the end if no COMMIT comes.
\* No other transaction has to fail, and none has to be begun.
FairSpec == Spec /\ \A t \in Sessions : WF_vars(Proceed(t))

(***************************************************************************)
(* Types.                                                                  *)
(***************************************************************************)
RowValue(r) == IF r \in BossRows THEN [hp : Nat, state : BossStates] ELSE Nat

TypeOK ==
  /\ DOMAIN table = Rows /\ \A r \in Rows : table[r] \in RowValue(r)
  /\ events \subseteq Hits /\ waiting \subseteq Hits
  /\ batch \in [Sessions -> SUBSET Hits]
  /\ client \in [Sessions -> {"here", "left", "sent"}]
  /\ DOMAIN draft = Sessions
  /\ \A t \in Sessions : /\ Held(t) \subseteq Touched(batch[t])
                         /\ \A r \in Held(t) : draft[t][r] \in RowValue(r)

(***************************************************************************)
(* "Stable lock order across committers to avoid deadlocks" (CommitBatch): *)
(* no set of transactions waits for each other in a circle, so none needs  *)
(* Postgres's deadlock detector, which would fail a whole batch.           *)
(***************************************************************************)
WaitsFor(t, u) == \E r \in Held(u) : IsNext(t, r)

NoDeadlock ==
  ~ \E S \in SUBSET Sessions : S # {} /\ \A t \in S : \E u \in S : u # t /\ WaitsFor(t, u)

(***************************************************************************)
(* Statement by statement, and with transactions that are rolled back in   *)
(* between, CommitBatch does what BatchLedger says in one step: no other   *)
(* batch is overwritten, and no boss of the batch is left behind.          *)
(***************************************************************************)
ledgers == [b \in Bosses |-> [hp      |-> table[BossRow(b)].hp,
                              state   |-> table[BossRow(b)].state,
                              contrib |-> [p \in Players |-> table[ContribRow(b, p)]]]]

Booked == INSTANCE BatchLedger WITH ledger <- ledgers

BooksWholeBatches == Booked!Spec

(***************************************************************************)
(* Every transaction ends, by itself: a lock is waited for while its       *)
(* holder works, never for ever.                                           *)
(***************************************************************************)
TransactionsEnd == \A t \in Sessions : batch[t] # {} ~> batch[t] = {}
=============================================================================
