------------------------- MODULE CommitLocksProofs -------------------------
(***************************************************************************)
(* Theorems about CommitLocks, for any number of hits, bosses, players and *)
(* sessions, any limits, and any order of the keys that puts contributions *)
(* before bosses.                                                          *)
(***************************************************************************)
EXTENDS CommitLocks, BossStoreTheorems, WellFoundedInduction

(***************************************************************************)
(* Rows.                                                                   *)
(***************************************************************************)
\* No row is of both tables, and a row has one key.
LEMMA RowsDiffer ==
  /\ ContribRows \cap BossRows = {}
  /\ \A b, c \in Bosses : BossRow(b) = BossRow(c) => b = c
  /\ \A b, c \in Bosses, p, q \in Players :
        ContribRow(b, p) = ContribRow(c, q) => b = c /\ p = q
<1>1. \A r \in ContribRows : ~ Rank[r] < Rank[r]
  BY LocksAssumption DEF Rows
<1>2. ContribRows \cap BossRows = {}
  BY <1>1, LocksAssumption
<1> QED BY <1>2 DEF BossRow, ContribRow

\* A batch touches rows of the tables, an empty one none.
LEMMA TouchedType ==
  /\ Touched({}) = {}
  /\ \A B \in SUBSET Hits : Touched(B) \subseteq Rows
BY LocksAssumption DEF Touched, Rows, ContribRows, BossRows

\* The new version of a row is of its type (current_hp is floored at 0).
LEMMA UpdateType ==
  ASSUME NEW t \in Sessions, batch[t] \in SUBSET Hits, NEW r \in Rows, NEW old \in RowValue(r)
  PROVE  Update(t, r, old) \in RowValue(r)
<1>1. ASSUME NEW S \in SUBSET Hits PROVE Total(Applied, S) \in Nat
  <2>1. IsFiniteSet(S) BY LocksAssumption, FS_Subset
  <2>2. \A h \in S : Applied[h] \in Nat BY LocksAssumption
  <2> QED BY <2>1, <2>2, TotalNat
<1>2. CASE r \in BossRows
  <2> DEFINE S == {h \in batch[t] : BossRow(BossOf[h]) = r}
             perBoss == Total(Applied, S)
  <2>1. perBoss \in Nat BY <1>1
  <2>2. old.hp \in Nat /\ old.state \in BossStates BY <1>2 DEF RowValue
  <2>3. Update(t, r, old) =
          [hp    |-> IF old.hp >= perBoss THEN old.hp - perBoss ELSE 0,
           state |-> IF old.hp - perBoss <= 0 THEN "defeated" ELSE old.state]
    BY <1>2 DEF Update
  <2> HIDE DEF perBoss
  <2> QED BY <1>2, <2>1, <2>2, <2>3 DEF RowValue, BossStates
<1>3. CASE r \notin BossRows
  <2> DEFINE S == {h \in batch[t] : ContribRow(BossOf[h], PlayerOf[h]) = r}
             perPlayer == Total(Applied, S)
  <2>1. perPlayer \in Nat BY <1>1
  <2>2. old \in Nat BY <1>3 DEF RowValue
  <2>3. Update(t, r, old) = old + perPlayer BY <1>3 DEF Update
  <2> HIDE DEF perPlayer
  <2> QED BY <1>3, <2>1, <2>2, <2>3 DEF RowValue
<1> QED BY <1>2, <1>3

(***************************************************************************)
(* Types.                                                                  *)
(***************************************************************************)
LEMMA InitType == Init => TypeOK
<1> SUFFICES ASSUME Init PROVE TypeOK
  OBVIOUS
<1>1. \A t \in Sessions : Held(t) = {} BY DEF Init, Held, NoRows
<1>2. \A r \in Rows : table[r] \in RowValue(r)
  BY StoreAssumption DEF Init, RowValue, BossStates
<1> QED BY <1>1, <1>2 DEF Init, TypeOK

LEMMA WriteType ==
  ASSUME TypeOK, NEW t \in Sessions, NEW r \in Todo(t), Write(t, r)
  PROVE  TypeOK'
<1> DEFINE new == [s \in Held(t) \cup {r} |->
                     IF s = r THEN Update(t, r, table[r]) ELSE draft[t][s]]
<1>1. batch[t] \in SUBSET Hits /\ r \in Touched(batch[t]) /\ r \in Rows
  BY TouchedType DEF TypeOK, Todo
<1>2. Update(t, r, table[r]) \in RowValue(r)
  BY <1>1, UpdateType DEF TypeOK
<1>3. draft' = [draft EXCEPT ![t] = new]
  BY DEF Write
<1>4. \A u \in Sessions : draft'[u] = IF u = t THEN new ELSE draft[u]
  BY <1>3 DEF TypeOK
<1>5. UNCHANGED <<table, events, waiting, batch, client>>
  BY DEF Write
<1>6. ASSUME NEW u \in Sessions
      PROVE  /\ Held(u)' \subseteq Touched(batch'[u])
             /\ \A s \in Held(u)' : draft'[u][s] \in RowValue(s)
  <2>1. CASE u = t
    <3>1. Held(u)' = Held(t) \cup {r} BY <1>4, <2>1 DEF Held
    <3>2. \A s \in Held(t) \cup {r} : draft'[u][s] \in RowValue(s)
      BY <1>2, <1>4, <2>1 DEF TypeOK
    <3> QED BY <1>1, <1>5, <2>1, <3>1, <3>2 DEF TypeOK
  <2>2. CASE u # t
    <3>1. draft'[u] = draft[u] /\ Held(u)' = Held(u) BY <1>4, <2>2 DEF Held
    <3> QED BY <1>5, <3>1 DEF TypeOK
  <2> QED BY <2>1, <2>2
<1>7. DOMAIN draft' = Sessions BY <1>3 DEF TypeOK
<1> QED BY <1>5, <1>6, <1>7 DEF TypeOK, RowValue

\* What End does to the sessions.
LEMMA EndSessions ==
  ASSUME TypeOK, NEW t \in Sessions, End(t)
  PROVE  /\ DOMAIN draft' = Sessions
         /\ batch' \in [Sessions -> SUBSET Hits]
         /\ client' \in [Sessions -> {"here", "left", "sent"}]
         /\ batch'[t] = {} /\ Held(t)' = {}
         /\ \A u \in Sessions \ {t} : /\ batch'[u] = batch[u] /\ draft'[u] = draft[u]
                                      /\ Held(u)' = Held(u)
         /\ \A u \in Sessions : /\ Held(u)' \subseteq Touched(batch'[u])
                                /\ \A r \in Held(u)' : draft'[u][r] \in RowValue(r)
<1>1. /\ DOMAIN draft' = Sessions
      /\ batch' \in [Sessions -> SUBSET Hits]
      /\ client' \in [Sessions -> {"here", "left", "sent"}]
      /\ batch'[t] = {} /\ draft'[t] = NoRows
      /\ \A u \in Sessions \ {t} : batch'[u] = batch[u] /\ draft'[u] = draft[u]
  BY DEF End, TypeOK
<1>2. Held(t)' = {} BY <1>1 DEF Held, NoRows
<1>3. \A u \in Sessions \ {t} : Held(u)' = Held(u) BY <1>1 DEF Held
<1> QED BY <1>1, <1>2, <1>3 DEF TypeOK

LEMMA CommitType ==
  ASSUME TypeOK, NEW t \in Sessions, Commit(t)
  PROVE  TypeOK'
<1>1. End(t) BY DEF Commit
<1>2. /\ table' = [r \in Rows |-> IF r \in Held(t) THEN draft[t][r] ELSE table[r]]
      /\ events' = events \cup batch[t] /\ waiting' = waiting
  BY DEF Commit
<1>3. \A r \in Rows : table'[r] \in RowValue(r) BY <1>2 DEF TypeOK
<1> QED BY <1>1, <1>2, <1>3, EndSessions DEF TypeOK, RowValue

LEMMA NextType ==
  ASSUME TypeOK, [Next]_vars
  PROVE  TypeOK'
<1>1. ASSUME NEW t \in Sessions, NEW r \in Todo(t), Write(t, r) PROVE TypeOK'
  BY <1>1, WriteType
<1>2. ASSUME NEW t \in Sessions, Commit(t) PROVE TypeOK'
  BY <1>2, CommitType
<1>3. ASSUME NEW t \in Sessions, Abort(t) PROVE TypeOK'
  <2>1. End(t) /\ UNCHANGED <<table, events, waiting>> BY <1>3 DEF Abort
  <2> QED BY <2>1, EndSessions DEF TypeOK, RowValue
<1>4. ASSUME NEW t \in Sessions, GiveUp(t) PROVE TypeOK'
  BY <1>4 DEF GiveUp, TypeOK, Held, RowValue
<1>5. ASSUME NEW t \in Sessions, NEW B \in SUBSET waiting, Begin(t, B) PROVE TypeOK'
  <2>1. Held(t) = {} BY <1>5, TouchedType DEF Begin, TypeOK
  <2>2. /\ batch' = [batch EXCEPT ![t] = B] /\ B \in SUBSET Hits
        /\ waiting' = waiting \ B /\ UNCHANGED <<table, events, client, draft>>
    BY <1>5 DEF Begin, TypeOK
  <2>3. \A u \in Sessions : Held(u)' = Held(u) /\ (u # t => batch'[u] = batch[u])
    BY <2>2 DEF Held, TypeOK
  <2>4. \A u \in Sessions : Held(u)' \subseteq Touched(batch'[u])
    BY <2>1, <2>3 DEF TypeOK
  <2>5. \A u \in Sessions : \A r \in Held(u)' : draft'[u][r] \in RowValue(r)
    BY <2>2, <2>3 DEF TypeOK
  <2> QED BY <2>2, <2>4, <2>5 DEF TypeOK, RowValue
<1>6. CASE UNCHANGED vars
  BY <1>6 DEF vars, TypeOK, Held, RowValue
<1> QED BY <1>1, <1>2, <1>3, <1>4, <1>5, <1>6 DEF Next, Proceed, Finished

(***************************************************************************)
(* Every variable keeps its type, a durable HP never goes below 0, and a   *)
(* session writes only rows of its batch (CommitBatch).                    *)
(***************************************************************************)
THEOREM CommitsTyped == Spec => []TypeOK
BY InitType, NextType, PTL DEF Spec

(***************************************************************************)
(* Deadlock: what a session holds comes before what it still has to write. *)
(***************************************************************************)
Ordered == \A t \in Sessions : \A r \in Held(t), s \in Todo(t) : Rank[r] < Rank[s]

Sorted == TypeOK /\ Ordered

LEMMA InitSorted == Init => Sorted
BY InitType DEF Sorted, Ordered, Init, Held, NoRows

LEMMA NextSorted == Sorted /\ [Next]_vars => Sorted'
<1> SUFFICES ASSUME TypeOK, Ordered, [Next]_vars PROVE Ordered'
  BY NextType DEF Sorted
<1>1. ASSUME NEW t \in Sessions, NEW r \in Todo(t), Write(t, r) PROVE Ordered'
  <2>1. /\ \A u \in Sessions : batch'[u] = batch[u]
        /\ Held(t)' = Held(t) \cup {r}
        /\ \A u \in Sessions \ {t} : Held(u)' = Held(u)
    BY <1>1 DEF Write, Held, TypeOK
  <2>2. Todo(t)' = Todo(t) \ {r} /\ \A u \in Sessions \ {t} : Todo(u)' = Todo(u)
    BY <2>1 DEF Todo, Touched
  <2>3. Todo(t) \subseteq Rows
    BY TouchedType DEF Todo, TypeOK
  <2>4. \A s \in Todo(t) \ {r} : Rank[r] < Rank[s]
    <3>1. \A s \in Todo(t) : Rank[r] <= Rank[s] BY <1>1 DEF Write, IsNext
    <3>2. \A s \in Todo(t) : Rank[s] \in Nat BY <2>3, LocksAssumption
    <3>3. \A s \in Todo(t) : Rank[r] = Rank[s] => r = s BY <2>3, LocksAssumption
    <3> QED BY <3>1, <3>2, <3>3
  <2> QED BY <2>1, <2>2, <2>4 DEF Ordered
<1>2. ASSUME NEW t \in Sessions, End(t) PROVE Ordered'
  <2>1. Todo(t)' = {} BY <1>2, EndSessions, TouchedType DEF Todo, Touched
  <2>2. \A u \in Sessions \ {t} : Held(u)' = Held(u) /\ Todo(u)' = Todo(u)
    BY <1>2, EndSessions DEF Todo, Touched
  <2> QED BY <2>1, <2>2 DEF Ordered
<1>3. ASSUME NEW t \in Sessions, GiveUp(t) PROVE Ordered'
  BY <1>3 DEF GiveUp, Ordered, Todo, Touched, Held
<1>4. ASSUME NEW t \in Sessions, NEW B \in SUBSET waiting, Begin(t, B) PROVE Ordered'
  <2>1. Held(t) = {} BY <1>4, TouchedType DEF Begin, TypeOK
  <2>2. \A u \in Sessions : Held(u)' = Held(u) BY <1>4 DEF Begin, Held
  <2>3. \A u \in Sessions \ {t} : Todo(u)' = Todo(u)
    BY <1>4, <2>2 DEF Begin, Todo, Touched, TypeOK
  <2> QED BY <2>1, <2>2, <2>3 DEF Ordered
<1>5. CASE UNCHANGED vars
  BY <1>5 DEF vars, Ordered, Todo, Touched, Held
<1> QED BY <1>1, <1>2, <1>3, <1>4, <1>5 DEF Next, Proceed, Commit, Abort, Finished

\* Some natural number of a set is its least.
LEMMA LeastNat ==
  ASSUME NEW S \in SUBSET Nat, S # {}
  PROVE  \E n \in S : \A m \in S : n <= m
<1>1. PICK n \in S : \A m \in S : <<m, n>> \notin OpToRel(<, Nat)
  BY NatLessThanWellFounded, WFMin
<1>2. \A m \in S : ~ m < n BY <1>1 DEF OpToRel
<1> QED BY <1>2

(***************************************************************************)
(* "Stable lock order across committers to avoid deadlocks" (CommitBatch): *)
(* a session that is waited for is waiting, if at all, for a later row.    *)
(* So in a smallest circle, the session that waits for the first row could *)
(* be left out: nobody of the circle waits for it.                         *)
(***************************************************************************)
LEMMA SortedNoDeadlock ==
  ASSUME Sorted PROVE NoDeadlock
<1> DEFINE Circle(S) == S # {} /\ \A t \in S : \E u \in S : u # t /\ WaitsFor(t, u)
           Sizes == {Cardinality(S) : S \in {T \in SUBSET Sessions : Circle(T)}}
<1>1. SUFFICES ASSUME NEW S0 \in SUBSET Sessions, Circle(S0) PROVE FALSE
  BY DEF NoDeadlock
<1>2. \A S \in SUBSET Sessions : IsFiniteSet(S) /\ Cardinality(S) \in Nat
  BY LocksAssumption, FS_Subset, FS_CardinalityType
<1>3. Sizes \in SUBSET Nat /\ Sizes # {}
  BY <1>1, <1>2
<1>4. PICK S \in SUBSET Sessions :
        Circle(S) /\ \A T \in SUBSET Sessions : Circle(T) => Cardinality(S) <= Cardinality(T)
  <2>1. PICK n \in Sizes : \A m \in Sizes : n <= m BY <1>3, LeastNat
  <2> QED BY <2>1
<1> HIDE DEF Sizes
<1> DEFINE Ranks == {Rank[r] : r \in {q \in Rows : \E t \in S : IsNext(t, q)}}
<1>5. \A t \in Sessions : \A r : IsNext(t, r) => r \in Rows /\ r \in Todo(t)
  BY TouchedType DEF IsNext, Todo, Sorted, TypeOK
<1>6. Ranks \in SUBSET Nat /\ Ranks # {}
  <2>1. PICK t \in S : \E u \in S : WaitsFor(t, u) BY <1>4
  <2>2. PICK r : IsNext(t, r) BY <2>1 DEF WaitsFor
  <2> QED BY <1>5, <2>2, LocksAssumption
<1>7. PICK t \in S, r \in Rows : /\ IsNext(t, r)
                                 /\ \A u \in S, q \in Rows : IsNext(u, q) => Rank[r] <= Rank[q]
  <2>1. PICK n \in Ranks : \A m \in Ranks : n <= m BY <1>6, LeastNat
  <2> QED BY <2>1
<1> HIDE DEF Ranks
<1>8. \A u \in S : ~ WaitsFor(u, t)
  <2> SUFFICES ASSUME NEW u \in S, NEW q \in Held(t), IsNext(u, q) PROVE FALSE
    BY DEF WaitsFor
  <2>1. q \in Rows /\ r \in Todo(t) BY <1>5, <1>7
  <2>2. Rank[q] < Rank[r] BY <2>1 DEF Sorted, Ordered
  <2>3. Rank[r] <= Rank[q] BY <1>7, <2>1
  <2> QED BY <2>1, <2>2, <2>3, LocksAssumption
<1>9. Circle(S \ {t})
  <2>1. PICK u \in S : u # t /\ WaitsFor(t, u) BY <1>4
  <2>2. \A v \in S \ {t} : \E w \in S \ {t} : w # v /\ WaitsFor(v, w)
    BY <1>4, <1>8
  <2> QED BY <2>1, <2>2
<1>10. Cardinality(S \ {t}) = Cardinality(S) - 1
  BY <1>2, FS_RemoveElement
<1>11. Cardinality(S) <= Cardinality(S \ {t})
  <2>1. S \ {t} \in SUBSET Sessions OBVIOUS
  <2> HIDE DEF Circle
  <2> QED BY <1>4, <1>9, <2>1
<1>12. Cardinality(S) \in Nat BY <1>2
<1> QED BY <1>10, <1>11, <1>12

(***************************************************************************)
(* No set of transactions waits for each other in a circle, however many   *)
(* committers there are and whatever their batches (CommitBatch).          *)
(***************************************************************************)
THEOREM NobodyDeadlocks == Spec => []NoDeadlock
BY InitSorted, NextSorted, SortedNoDeadlock, PTL DEF Spec

(***************************************************************************)
(* Booking: who writes a row is alone with it until its transaction ends,  *)
(* so what it has drafted stays right; and an event is in one place.       *)
(***************************************************************************)
Alone == \A t, u \in Sessions : t # u => Held(t) \cap Held(u) = {}

Current == \A t \in Sessions : \A r \in Held(t) : draft[t][r] = Update(t, r, table[r])

OneBatch == /\ waiting \cap events = {}
            /\ \A t \in Sessions : batch[t] \cap (waiting \cup events) = {}
            /\ \A t, u \in Sessions : t # u => batch[t] \cap batch[u] = {}

Isolated == TypeOK /\ Alone /\ Current /\ OneBatch

LEMMA InitIsolated == Init => Isolated
BY InitType DEF Isolated, Alone, Current, OneBatch, Init, Held, NoRows

LEMMA NextIsolated == Isolated /\ [Next]_vars => Isolated'
<1> SUFFICES ASSUME TypeOK, Alone, Current, OneBatch, [Next]_vars
             PROVE  Alone' /\ Current' /\ OneBatch'
  BY NextType DEF Isolated
<1>1. ASSUME NEW t \in Sessions, NEW r \in Todo(t), Write(t, r)
      PROVE  Alone' /\ Current' /\ OneBatch'
  <2>1. /\ UNCHANGED <<table, events, waiting, batch>>
        /\ Held(t)' = Held(t) \cup {r}
        /\ \A u \in Sessions \ {t} : Held(u)' = Held(u) /\ draft'[u] = draft[u]
        /\ \A u \in Sessions : r \notin Held(u)
    BY <1>1 DEF Write, Held, TypeOK
  <2>2. draft'[t][r] = Update(t, r, table[r]) /\ \A s \in Held(t) : draft'[t][s] = draft[t][s]
    BY <1>1 DEF Write, TypeOK
  <2>3. Alone' BY <2>1 DEF Alone
  <2>4. ASSUME NEW u \in Sessions, NEW s \in Held(u)'
        PROVE  draft'[u][s] = Update(u, s, table[s])'
    <3>1. draft'[u][s] = Update(u, s, table[s]) BY <2>1, <2>2 DEF Current
    <3> QED BY <2>1, <3>1 DEF Update
  <2>5. OneBatch' BY <2>1 DEF OneBatch
  <2> QED BY <2>3, <2>4, <2>5 DEF Current
<1>2. ASSUME NEW t \in Sessions, Commit(t)
      PROVE  Alone' /\ Current' /\ OneBatch'
  <2>1. End(t) BY <1>2 DEF Commit
  <2>2. /\ table' = [r \in Rows |-> IF r \in Held(t) THEN draft[t][r] ELSE table[r]]
        /\ events' = events \cup batch[t] /\ waiting' = waiting
    BY <1>2 DEF Commit
  <2>3. /\ batch'[t] = {} /\ Held(t)' = {}
        /\ \A u \in Sessions \ {t} : /\ batch'[u] = batch[u] /\ draft'[u] = draft[u]
                                     /\ Held(u)' = Held(u)
    BY <2>1, EndSessions
  <2>4. Alone' BY <2>3 DEF Alone
  <2>5. ASSUME NEW u \in Sessions, NEW s \in Held(u)'
        PROVE  draft'[u][s] = Update(u, s, table[s])'
    <3>1. u # t /\ s \in Held(u) /\ s \notin Held(t) BY <2>3 DEF Alone
    <3>2. s \in Rows BY <3>1, TouchedType DEF TypeOK
    <3>3. table'[s] = table[s] BY <2>2, <3>1, <3>2
    <3>4. draft'[u][s] = Update(u, s, table[s]) BY <2>3, <3>1 DEF Current
    <3>5. batch'[u] = batch[u] BY <2>3, <3>1
    <3> QED BY <3>3, <3>4, <3>5 DEF Update
  <2>6. OneBatch' BY <2>2, <2>3 DEF OneBatch
  <2> QED BY <2>4, <2>5, <2>6 DEF Current
<1>3. ASSUME NEW t \in Sessions, Abort(t)
      PROVE  Alone' /\ Current' /\ OneBatch'
  <2>1. End(t) /\ UNCHANGED <<table, events, waiting>> BY <1>3 DEF Abort
  <2>2. /\ batch'[t] = {} /\ Held(t)' = {}
        /\ \A u \in Sessions \ {t} : /\ batch'[u] = batch[u] /\ draft'[u] = draft[u]
                                     /\ Held(u)' = Held(u)
    BY <2>1, EndSessions
  <2>3. Alone' BY <2>2 DEF Alone
  <2>4. ASSUME NEW u \in Sessions, NEW s \in Held(u)'
        PROVE  draft'[u][s] = Update(u, s, table[s])'
    <3>1. u # t /\ s \in Held(u) BY <2>2
    <3>2. draft'[u][s] = Update(u, s, table[s]) BY <2>2, <3>1 DEF Current
    <3>3. batch'[u] = batch[u] BY <2>2, <3>1
    <3> QED BY <2>1, <3>2, <3>3 DEF Update
  <2>5. OneBatch' BY <2>1, <2>2 DEF OneBatch
  <2> QED BY <2>3, <2>4, <2>5 DEF Current
<1>4. ASSUME NEW t \in Sessions, NEW B \in SUBSET waiting, Begin(t, B)
      PROVE  Alone' /\ Current' /\ OneBatch'
  <2>1. Held(t) = {} BY <1>4, TouchedType DEF Begin, TypeOK
  <2>2. UNCHANGED <<table, events, draft>> /\ waiting' = waiting \ B /\ batch'[t] = B
    BY <1>4 DEF Begin, TypeOK
  <2>3. /\ \A u \in Sessions : Held(u)' = Held(u)
        /\ \A u \in Sessions \ {t} : batch'[u] = batch[u]
    BY <1>4 DEF Begin, Held, TypeOK
  <2>4. Alone' BY <2>3 DEF Alone
  <2>5. ASSUME NEW u \in Sessions, NEW s \in Held(u)'
        PROVE  draft'[u][s] = Update(u, s, table[s])'
    <3>1. u # t /\ s \in Held(u) BY <2>1, <2>3
    <3>2. draft[u][s] = Update(u, s, table[s]) BY <3>1 DEF Current
    <3>3. batch'[u] = batch[u] BY <2>3, <3>1
    <3> QED BY <2>2, <3>2, <3>3 DEF Update
  <2>6. OneBatch' BY <2>2, <2>3 DEF OneBatch
  <2> QED BY <2>4, <2>5, <2>6 DEF Current
<1>5. ASSUME UNCHANGED <<table, events, waiting, batch, draft>>
      PROVE  Alone' /\ Current' /\ OneBatch'
  BY <1>5 DEF Alone, Current, OneBatch, Held, Update
<1> QED BY <1>1, <1>2, <1>3, <1>4, <1>5 DEF Next, Proceed, Finished, GiveUp, vars

\* BatchLedger's operators are BossStore's.
LEMMA BookedTotal ==
  ASSUME NEW f, NEW S
  PROVE  Booked!Total(f, S) = Total(f, S)
<1>1. \A T : Booked!Cardinality(T) = Cardinality(T)
  BY DEF Booked!Cardinality, Cardinality
<1>2. Booked!Points(f, S) = Points(f, S)
  BY DEF Booked!Points, Points
<1> QED BY <1>1, <1>2 DEF Booked!Total, Total

LEMMA BookedBatch ==
  ASSUME NEW l, NEW S
  PROVE  Booked!CommitBatch(l, S, PlayerOf, Applied) = CommitBatch(l, S, PlayerOf, Applied)
<1>1. Booked!Total(Applied, S) = Total(Applied, S)
  BY BookedTotal
<1>2. Booked!TotalBy(Applied, PlayerOf, S, Players) = TotalBy(Applied, PlayerOf, S, Players)
  BY BookedTotal DEF Booked!TotalBy, TotalBy
<1> QED BY <1>1, <1>2 DEF Booked!CommitBatch, CommitBatch

LEMMA InitBooked == Init => Booked!Init
<1> SUFFICES ASSUME Init PROVE Booked!Init
  OBVIOUS
<1>1. \A b \in Bosses : BossRow(b) \in Rows /\ BossRow(b) \in BossRows
  BY DEF Rows, BossRows
<1>2. \A b \in Bosses, p \in Players : ContribRow(b, p) \in Rows /\ ContribRow(b, p) \notin BossRows
  BY RowsDiffer DEF Rows, ContribRows
<1>3. ledgers = [b \in Bosses |-> Booked!Untouched]
  BY <1>1, <1>2 DEF Init, ledgers, Booked!Untouched, Booked!NoDamage
<1> QED BY <1>3 DEF Booked!Init, Init

\* The batch's hits on a boss and its player are those of the rows.
LEMMA RowHits ==
  ASSUME NEW B \in SUBSET Hits, NEW b \in Bosses
  PROVE  /\ {h \in B : BossRow(BossOf[h]) = BossRow(b)} = Booked!HitsOn(b, B)
         /\ BossRow(b) \in Touched(B) <=> Booked!HitsOn(b, B) # {}
         /\ \A p \in Players :
              /\ {h \in B : ContribRow(BossOf[h], PlayerOf[h]) = ContribRow(b, p)}
                   = {h \in Booked!HitsOn(b, B) : PlayerOf[h] = p}
              /\ ContribRow(b, p) \in Touched(B)
                   <=> {h \in Booked!HitsOn(b, B) : PlayerOf[h] = p} # {}
<1>1. \A h \in B : BossOf[h] \in Bosses /\ PlayerOf[h] \in Players
  BY LocksAssumption
<1>2. \A c \in Bosses, d \in Bosses, p \in Players : ContribRow(c, p) # BossRow(d)
  BY RowsDiffer DEF ContribRows, BossRows
<1>3. \A h \in B : BossRow(BossOf[h]) = BossRow(b) <=> BossOf[h] = b
  BY <1>1, RowsDiffer
<1>4. \A h \in B, p \in Players : ContribRow(BossOf[h], PlayerOf[h]) = ContribRow(b, p)
                                    <=> BossOf[h] = b /\ PlayerOf[h] = p
  BY <1>1, RowsDiffer
<1>5. BossRow(b) \in Touched(B) <=> \E h \in B : BossRow(BossOf[h]) = BossRow(b)
  BY <1>1, <1>2 DEF Touched
<1>6. \A p \in Players : ContribRow(b, p) \in Touched(B)
                    <=> \E h \in B : ContribRow(BossOf[h], PlayerOf[h]) = ContribRow(b, p)
  BY <1>1, <1>2 DEF Touched
<1> QED BY <1>3, <1>4, <1>5, <1>6 DEF Booked!HitsOn

\* COMMIT books the whole batch, boss by boss.
LEMMA CommitBooks ==
  ASSUME Isolated, NEW t \in Sessions, Commit(t)
  PROVE  Booked!Book(batch[t])
<1> DEFINE B == batch[t]
           on(b) == Booked!HitsOn(b, B)
<1>1. B \in SUBSET Hits /\ B \cap events = {} BY DEF Isolated, TypeOK, OneBatch
<1>2. Held(t) = Touched(B) BY DEF Commit, Todo, Isolated, TypeOK
<1>3. \A r \in Rows : table'[r] = IF r \in Touched(B) THEN Update(t, r, table[r]) ELSE table[r]
  BY <1>2 DEF Commit, Isolated, Current
<1>4. ASSUME NEW b \in Bosses
      PROVE  ledgers'[b] = IF on(b) = {} THEN ledgers[b]
                           ELSE CommitBatch(ledgers[b], on(b), PlayerOf, Applied)
  <2> DEFINE row == BossRow(b)
             perBoss == Total(Applied, on(b))
             perPlayer(p) == Total(Applied, {h \in on(b) : PlayerOf[h] = p})
             old == table[row]
  <2>1. row \in Rows /\ row \in BossRows BY DEF Rows, BossRows
  <2>2. table'[row] = IF on(b) = {} THEN old
                      ELSE [hp    |-> IF old.hp >= perBoss THEN old.hp - perBoss ELSE 0,
                            state |-> IF old.hp - perBoss <= 0 THEN "defeated" ELSE old.state]
    <3>1. Update(t, row, old) =
            [hp    |-> IF old.hp >= perBoss THEN old.hp - perBoss ELSE 0,
             state |-> IF old.hp - perBoss <= 0 THEN "defeated" ELSE old.state]
      BY <1>1, <2>1, RowHits DEF Update
    <3>2. row \in Touched(B) <=> on(b) # {} BY <1>1, RowHits
    <3> QED BY <1>3, <2>1, <3>1, <3>2
  <2>3. ASSUME NEW p \in Players
        PROVE  /\ table'[ContribRow(b, p)] = table[ContribRow(b, p)] + perPlayer(p)
               /\ on(b) = {} => table'[ContribRow(b, p)] = table[ContribRow(b, p)]
    <3> DEFINE key == ContribRow(b, p)
               mine == {h \in on(b) : PlayerOf[h] = p}
    <3>1. key \in Rows /\ key \notin BossRows BY RowsDiffer DEF Rows, ContribRows
    <3>2. Update(t, key, table[key]) = table[key] + perPlayer(p)
      <4>1. {h \in B : ContribRow(BossOf[h], PlayerOf[h]) = key} = mine
        BY <1>1, RowHits
      <4>2. Update(t, key, table[key]) =
              table[key] + Total(Applied, {h \in B : ContribRow(BossOf[h], PlayerOf[h]) = key})
        BY <3>1 DEF Update
      <4> QED BY <4>1, <4>2
    <3>3. key \in Touched(B) <=> mine # {} BY <1>1, RowHits
    <3>4. mine = {} => perPlayer(p) = 0 BY TotalEmpty
    <3>5. table[key] \in Nat BY <3>1 DEF Isolated, TypeOK, RowValue
    <3>6. on(b) = {} => mine = {} OBVIOUS
    <3> HIDE DEF mine, perPlayer, key
    <3>7. table'[key] = table[key] + perPlayer(p)
      BY <1>3, <3>1, <3>2, <3>3, <3>4, <3>5
    <3>8. on(b) = {} => table'[key] = table[key]
      BY <1>3, <3>1, <3>3, <3>6
    <3> QED BY <3>7, <3>8 DEF key
  <2>4. ledgers[b] = [hp |-> old.hp, state |-> old.state,
                      contrib |-> [p \in Players |-> table[ContribRow(b, p)]]]
    BY DEF ledgers
  <2>5. ledgers'[b] = [hp |-> table'[row].hp, state |-> table'[row].state,
                       contrib |-> [p \in Players |-> table'[ContribRow(b, p)]]]
    BY DEF ledgers
  <2>6. CommitBatch(ledgers[b], on(b), PlayerOf, Applied) =
          [hp      |-> IF old.hp >= perBoss THEN old.hp - perBoss ELSE 0,
           state   |-> IF old.hp - perBoss <= 0 THEN "defeated" ELSE old.state,
           contrib |-> [p \in Players |-> table[ContribRow(b, p)] + perPlayer(p)]]
    <3> DEFINE by == TotalBy(Applied, PlayerOf, on(b), Players)
    <3>1. /\ ledgers[b].hp = old.hp /\ ledgers[b].state = old.state
          /\ \A p \in Players : ledgers[b].contrib[p] = table[ContribRow(b, p)]
      BY <2>4
    <3>2. \A p \in Players : by[p] = perPlayer(p) BY DEF TotalBy
    <3>3. CommitBatch(ledgers[b], on(b), PlayerOf, Applied) =
            [hp      |-> IF ledgers[b].hp >= perBoss THEN ledgers[b].hp - perBoss ELSE 0,
             state   |-> IF ledgers[b].hp - perBoss <= 0 THEN "defeated" ELSE ledgers[b].state,
             contrib |-> [p \in Players |-> ledgers[b].contrib[p] + by[p]]]
      BY DEF CommitBatch
    <3> HIDE DEF perBoss, perPlayer, by, on, old
    <3> QED BY <3>1, <3>2, <3>3
  <2> HIDE DEF perBoss, perPlayer, on, row, old
  <2>7. CASE on(b) = {}
    <3>1. table'[row] = old BY <2>2, <2>7
    <3> QED BY <2>3, <2>4, <2>5, <2>7, <3>1
  <2>8. CASE on(b) # {}
    <3>1. /\ table'[row].hp = IF old.hp >= perBoss THEN old.hp - perBoss ELSE 0
          /\ table'[row].state = IF old.hp - perBoss <= 0 THEN "defeated" ELSE old.state
      BY <2>2, <2>8
    <3> QED BY <2>3, <2>5, <2>6, <2>8, <3>1
  <2> QED BY <2>7, <2>8
<1>5. ledgers' = [b \in Bosses |-> IF on(b) = {} THEN ledgers[b]
                     ELSE CommitBatch(ledgers[b], on(b), PlayerOf, Applied)]
  <2>1. DOMAIN ledgers' = Bosses /\ ledgers' = [b \in Bosses |-> ledgers'[b]]
    BY DEF ledgers
  <2> HIDE DEF on
  <2> QED BY <1>4, <2>1
<1>6. events' = events \cup B BY DEF Commit
<1> QED BY <1>1, <1>5, <1>6, BookedBatch DEF Booked!Book

LEMMA NextBooks ==
  ASSUME Isolated, [Next]_vars
  PROVE  [Booked!Next]_<<ledgers, events>>
<1>1. ASSUME NEW t \in Sessions, Commit(t) PROVE Booked!Next
  <2>1. batch[t] \in SUBSET Hits BY DEF Isolated, TypeOK
  <2> QED BY <1>1, <2>1, CommitBooks DEF Booked!Next
<1>2. ASSUME UNCHANGED <<table, events>> PROVE UNCHANGED <<ledgers, events>>
  BY <1>2 DEF ledgers
<1> QED BY <1>1, <1>2 DEF Next, Proceed, Write, Abort, GiveUp, Begin, Finished, vars

(***************************************************************************)
(* The statements of CommitBatch, whatever their transactions do to each   *)
(* other, book whole batches, one after another, and none twice:           *)
(* CommitLocks implements BatchLedger.                                     *)
(***************************************************************************)
THEOREM BatchesAreBooked == Spec => BooksWholeBatches
BY InitIsolated, NextIsolated, InitBooked, NextBooks, PTL
   DEF Spec, BooksWholeBatches, Booked!Spec
=============================================================================
