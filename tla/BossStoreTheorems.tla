-------------------------- MODULE BossStoreTheorems --------------------------
(***************************************************************************)
(* What the statements of BossStore do to the cache and to the ledger, for *)
(* any players and any maximum HP, and what that needs to know of Totals.  *)
(***************************************************************************)
EXTENDS BossStore, FiniteSetTheorems, TLAPS

(***************************************************************************)
(* What every proof about damage needs to know of Totals: a total is a     *)
(* natural number, it adds over disjoint sets, and grouping it by player   *)
(* loses nothing.                                                          *)
(***************************************************************************)

(***************************************************************************)
(* The points of a finite set of hits are finite, so their total is a      *)
(* natural number (the SUMs of postgres.go never go negative).             *)
(***************************************************************************)
LEMMA TotalNat ==
  ASSUME NEW S, IsFiniteSet(S), NEW f, \A x \in S : f[x] \in Nat
  PROVE  IsFiniteSet(Points(f, S)) /\ Total(f, S) \in Nat
<1> DEFINE column(x) == {x} \X (1 .. f[x])
           columns == {column(x) : x \in S}
           g == [x \in S |-> column(x)]
<1>1. \A x \in S : IsFiniteSet(column(x))
  <2> TAKE x \in S
  <2>1. IsFiniteSet({x}) BY FS_Singleton
  <2>2. f[x] \in Int /\ 1 \in Int OBVIOUS
  <2>3. IsFiniteSet(1 .. f[x]) BY <2>2, FS_Interval
  <2> QED BY <2>1, <2>3, FS_Product
<1>2. g \in Surjection(S, columns)
  BY DEF Surjection
<1>3. IsFiniteSet(columns)
  BY <1>2, FS_Surjection
<1>4. IsFiniteSet(UNION columns)
  BY <1>1, <1>3, FS_UNION
<1>5. Points(f, S) = UNION columns
  BY DEF Points
<1> QED BY <1>4, <1>5, FS_CardinalityType DEF Total

(***************************************************************************)
(* Nothing to add up.                                                      *)
(***************************************************************************)
LEMMA TotalEmpty ==
  ASSUME NEW f
  PROVE  Total(f, {}) = 0
<1>1. Points(f, {}) = {} BY DEF Points
<1> QED BY <1>1, FS_EmptySet DEF Total

(***************************************************************************)
(* A single hit totals the damage it landed.                               *)
(***************************************************************************)
LEMMA TotalSingleton ==
  ASSUME NEW f, NEW x, f[x] \in Nat
  PROVE  Total(f, {x}) = f[x]
<1> DEFINE A == {x}
           B == 1 .. f[x]
<1>1. Points(f, {x}) = A \X B
  BY DEF Points
<1>2. IsFiniteSet(A) /\ Cardinality(A) = 1
  BY FS_Singleton
<1>3. f[x] \in Int /\ 1 \in Int
  OBVIOUS
<1>4. IsFiniteSet(B) /\ Cardinality(B) = f[x]
  BY <1>3, FS_Interval
<1> HIDE DEF A, B
<1>5. Cardinality(A \X B) = Cardinality(A) * Cardinality(B)
  BY <1>2, <1>4, FS_Product
<1>6. Cardinality(A \X B) = f[x]
  BY <1>2, <1>4, <1>5
<1> QED BY <1>1, <1>6 DEF Total

(***************************************************************************)
(* A total only depends on the damage of the hits it adds up.              *)
(***************************************************************************)
LEMMA TotalCong ==
  ASSUME NEW f, NEW g, NEW S, \A x \in S : f[x] = g[x]
  PROVE  Total(f, S) = Total(g, S)
<1>1. Points(f, S) = Points(g, S) BY DEF Points
<1> QED BY <1>1 DEF Total

(***************************************************************************)
(* A total adds over disjoint sets of hits.                                *)
(***************************************************************************)
LEMMA TotalUnion ==
  ASSUME NEW S, NEW T, IsFiniteSet(S), IsFiniteSet(T), S \cap T = {},
         NEW f, \A x \in S \cup T : f[x] \in Nat
  PROVE  Total(f, S \cup T) = Total(f, S) + Total(f, T)
<1>1. Points(f, S \cup T) = Points(f, S) \cup Points(f, T)
  BY DEF Points
<1>2. Points(f, S) \cap Points(f, T) = {}
  BY DEF Points
<1>3. /\ IsFiniteSet(Points(f, S)) /\ IsFiniteSet(Points(f, T))
      /\ Total(f, S) \in Nat /\ Total(f, T) \in Nat
  BY TotalNat
<1>4. Cardinality(Points(f, S) \cap Points(f, T)) = 0
  BY <1>2, FS_EmptySet
<1>5. Cardinality(Points(f, S) \cup Points(f, T))
        = Total(f, S) + Total(f, T) - Cardinality(Points(f, S) \cap Points(f, T))
  BY <1>3, FS_Union DEF Total
<1>6. Total(f, S \cup T) = Cardinality(Points(f, S) \cup Points(f, T))
  BY <1>1 DEF Total
<1> QED BY <1>3, <1>4, <1>5, <1>6

(***************************************************************************)
(* Adding one more hit adds its damage.                                    *)
(***************************************************************************)
LEMMA TotalAdd ==
  ASSUME NEW S, IsFiniteSet(S), NEW x, x \notin S,
         NEW f, \A y \in S \cup {x} : f[y] \in Nat
  PROVE  Total(f, S \cup {x}) = Total(f, S) + f[x]
<1>1. IsFiniteSet({x}) BY FS_Singleton
<1>2. S \cap {x} = {} OBVIOUS
<1>3. Total(f, S \cup {x}) = Total(f, S) + Total(f, {x})
  BY <1>1, <1>2, TotalUnion
<1>4. f[x] \in Nat OBVIOUS
<1>5. Total(f, {x}) = f[x]
  BY <1>4, TotalSingleton
<1> QED BY <1>3, <1>5

(***************************************************************************)
(* A part totals no more than the whole.                                   *)
(***************************************************************************)
LEMMA TotalSubset ==
  ASSUME NEW S, IsFiniteSet(S), NEW T \in SUBSET S,
         NEW f, \A x \in S : f[x] \in Nat
  PROVE  Total(f, T) <= Total(f, S)
<1>1. IsFiniteSet(Points(f, S)) BY TotalNat
<1>2. Points(f, T) \in SUBSET Points(f, S) BY DEF Points
<1> QED BY <1>1, <1>2, FS_Subset DEF Total

(***************************************************************************)
(* Crediting k to one player of P adds k to the boss's total.              *)
(***************************************************************************)
LEMMA TotalCredit ==
  ASSUME NEW P, IsFiniteSet(P), NEW f \in [P -> Nat], NEW p \in P,
         NEW k \in Int, f[p] + k \in Nat
  PROVE  Total([f EXCEPT ![p] = f[p] + k], P) = Total(f, P) + k
<1> DEFINE g == [f EXCEPT ![p] = f[p] + k]
           Q == P \ {p}
<1>1. IsFiniteSet(Q) BY FS_RemoveElement
<1>2. p \notin Q /\ P = Q \cup {p} OBVIOUS
<1>3. \A q \in P : f[q] \in Nat /\ g[q] \in Nat OBVIOUS
<1>4. \A q \in Q : f[q] = g[q] OBVIOUS
<1>5. g[p] = f[p] + k OBVIOUS
<1> HIDE DEF g, Q
<1>6. Total(f, Q) = Total(g, Q)
  BY <1>4, TotalCong
<1>7. Total(f, Q \cup {p}) = Total(f, Q) + f[p]
  BY <1>1, <1>2, <1>3, TotalAdd
<1>8. Total(g, Q \cup {p}) = Total(g, Q) + g[p]
  BY <1>1, <1>2, <1>3, TotalAdd
<1>9. Total(f, Q) \in Nat /\ \A q \in Q : f[q] \in Nat
  BY <1>1, <1>2, <1>3, TotalNat
<1>10. Total(g, P) = Total(f, P) + k
  BY <1>2, <1>3, <1>5, <1>6, <1>7, <1>8, <1>9
<1> QED BY <1>10 DEF g

(***************************************************************************)
(* Grouping the hits of S by key and adding each group to base adds their  *)
(* total to base's: the perPlayer aggregates of CommitBatch, upserted into *)
(* contributions, add exactly the perBoss aggregate.                       *)
(***************************************************************************)
THEOREM TotalByKey ==
  ASSUME NEW S, IsFiniteSet(S), NEW K, IsFiniteSet(K),
         NEW f, \A x \in S : f[x] \in Nat,
         NEW key, \A x \in S : key[x] \in K,
         NEW base \in [K -> Nat]
  PROVE  Total([k \in K |-> base[k] + TotalBy(f, key, S, K)[k]], K)
           = Total(base, K) + Total(f, S)
<1> DEFINE group(T, k) == {x \in T : key[x] = k}
           sum(T) == [k \in K |-> base[k] + Total(f, group(T, k))]
           good(T) == Total(sum(T), K) = Total(base, K) + Total(f, T)
           bad == {T \in SUBSET S : ~ good(T)}
<1>1. \A T \in SUBSET S : IsFiniteSet(T)
  BY FS_Subset
<1>2. \A T \in SUBSET S, k \in K :
        IsFiniteSet(group(T, k)) /\ Total(f, group(T, k)) \in Nat
  <2> TAKE T \in SUBSET S, k \in K
  <2>1. group(T, k) \in SUBSET S OBVIOUS
  <2>2. IsFiniteSet(group(T, k)) BY <2>1, FS_Subset
  <2>3. \A x \in group(T, k) : f[x] \in Nat BY <2>1
  <2> HIDE DEF group
  <2> QED BY <2>2, <2>3, TotalNat
<1>3. good({})
  <2>1. \A k \in K : group({}, k) = {} OBVIOUS
  <2>2. \A k \in K : sum({})[k] = base[k]
    <3> TAKE k \in K
    <3>1. sum({})[k] = base[k] + Total(f, {}) BY <2>1
    <3>2. base[k] \in Nat OBVIOUS
    <3> QED BY <3>1, <3>2, TotalEmpty
  <2> HIDE DEF sum
  <2>3. Total(sum({}), K) = Total(base, K)
    BY <2>2, TotalCong
  <2>4. Total(base, K) \in Nat BY TotalNat
  <2> QED BY <2>3, <2>4, TotalEmpty
<1>4. ASSUME NEW T \in SUBSET S, NEW x \in T, good(T \ {x})
      PROVE  good(T)
  <2> DEFINE U == T \ {x}
  <2>1. U \in SUBSET S /\ x \notin U /\ T = U \cup {x} OBVIOUS
  <2>2. IsFiniteSet(U) BY <1>1, <2>1
  <2>3. key[x] \in K /\ f[x] \in Nat OBVIOUS
  <2>4. group(T, key[x]) = group(U, key[x]) \cup {x} OBVIOUS
  <2>5. \A k \in K : k # key[x] => group(T, k) = group(U, k) OBVIOUS
  <2>6. Total(f, group(T, key[x])) = Total(f, group(U, key[x])) + f[x]
    <3>1. IsFiniteSet(group(U, key[x])) BY <1>2, <2>1, <2>3
    <3>2. x \notin group(U, key[x]) OBVIOUS
    <3>3. \A y \in group(U, key[x]) \cup {x} : f[y] \in Nat OBVIOUS
    <3> HIDE DEF group
    <3> QED BY <2>4, <3>1, <3>2, <3>3, TotalAdd
  <2>7. sum(U) \in [K -> Nat]
    <3>1. \A k \in K : base[k] + Total(f, group(U, k)) \in Nat
      <4> TAKE k \in K
      <4>1. Total(f, group(U, k)) \in Nat BY <1>2, <2>1
      <4>2. base[k] \in Nat OBVIOUS
      <4> HIDE DEF group
      <4> QED BY <4>1, <4>2
    <3> HIDE DEF group
    <3> QED BY <3>1
  <2>8. sum(T) = [sum(U) EXCEPT ![key[x]] = sum(U)[key[x]] + f[x]]
    <3>1. \A k \in K : Total(f, group(U, k)) \in Nat /\ base[k] \in Nat
      BY <1>2, <2>1
    <3> HIDE DEF group, U
    <3> QED BY <2>3, <2>5, <2>6, <3>1
  <2>9. sum(U)[key[x]] + f[x] \in Nat
    BY <2>3, <2>7
  <2> HIDE DEF sum, U
  <2>10. Total(sum(T), K) = Total(sum(U), K) + f[x]
    <3> DEFINE g == sum(U)
               p == key[x]
               d == f[x]
    <3>1. g \in [K -> Nat] /\ p \in K /\ d \in Int /\ g[p] + d \in Nat
      BY <2>3, <2>7, <2>9
    <3>2. sum(T) = [g EXCEPT ![p] = g[p] + d] BY <2>8
    <3> HIDE DEF g, p, d
    <3>3. Total([g EXCEPT ![p] = g[p] + d], K) = Total(g, K) + d
      BY <3>1, TotalCredit
    <3>4. Total(sum(T), K) = Total(g, K) + d BY <3>2, <3>3
    <3> QED BY <3>4 DEF g, d
  <2>11. Total(f, T) = Total(f, U) + f[x]
    BY <2>1, <2>2, <2>3, TotalAdd
  <2>12. Total(sum(U), K) = Total(base, K) + Total(f, U)
    BY <1>4 DEF U
  <2>13. Total(base, K) \in Nat /\ Total(f, U) \in Nat
    <3>1. \A y \in U : f[y] \in Nat BY <2>1
    <3>2. \A k \in K : base[k] \in Nat OBVIOUS
    <3> QED BY <2>2, <3>1, <3>2, TotalNat
  <2> QED BY <2>3, <2>10, <2>11, <2>12, <2>13
<1>5. good(S)
  <2> SUFFICES ASSUME ~ good(S) PROVE FALSE
    OBVIOUS
  <2> HIDE DEF good
  <2>1. bad \subseteq FiniteSubsetsOf(S) /\ bad # {}
    BY <1>1 DEF FiniteSubsetsOf
  <2>2. PICK T \in bad : \A U \in bad : <<U, T>> \notin StrictSubsetOrdering(S)
    BY <2>1, FS_StrictSubsetOrderingWellFounded, WFMin
  <2>3. PICK x : x \in T
    BY <1>3, <2>2
  <2>4. <<T \ {x}, T>> \in StrictSubsetOrdering(S)
    BY <2>2, <2>3 DEF StrictSubsetOrdering
  <2>5. good(T \ {x})
    BY <2>2, <2>4
  <2> QED BY <1>4, <2>2, <2>3, <2>5
<1>6. sum(S) = [k \in K |-> base[k] + TotalBy(f, key, S, K)[k]]
  BY DEF TotalBy
<1> QED BY <1>5, <1>6

(***************************************************************************)
(* The totals by key of two disjoint sets of hits add, key by key.         *)
(***************************************************************************)
LEMMA TotalByUnion ==
  ASSUME NEW S, IsFiniteSet(S), NEW T, IsFiniteSet(T), S \cap T = {},
         NEW f, \A x \in S \cup T : f[x] \in Nat,
         NEW key, NEW K
  PROVE  TotalBy(f, key, S \cup T, K)
           = [k \in K |-> TotalBy(f, key, S, K)[k] + TotalBy(f, key, T, K)[k]]
<1>1. ASSUME NEW k \in K
      PROVE  Total(f, {x \in S \cup T : key[x] = k})
               = Total(f, {x \in S : key[x] = k}) + Total(f, {x \in T : key[x] = k})
  <2> DEFINE A == {x \in S : key[x] = k}
             B == {x \in T : key[x] = k}
  <2>1. A \in SUBSET S /\ B \in SUBSET T /\ A \cap B = {}
        /\ {x \in S \cup T : key[x] = k} = A \cup B
    OBVIOUS
  <2>2. IsFiniteSet(A) /\ IsFiniteSet(B)
    BY <2>1, FS_Subset
  <2>3. \A x \in A \cup B : f[x] \in Nat
    BY <2>1
  <2> HIDE DEF A, B
  <2>4. Total(f, A \cup B) = Total(f, A) + Total(f, B)
    BY <2>1, <2>2, <2>3, TotalUnion
  <2> QED BY <2>1, <2>4 DEF A, B
<1> QED BY <1>1 DEF TotalBy

(***************************************************************************)
(* Redis: the scripts keep the keys well formed; HP and the scores never   *)
(* go negative, whatever the order of hits and undos.                      *)
(***************************************************************************)
LEMMA ColdType == Cold \in Cache
<1>1. NoDamage \in [Players -> Nat] BY DEF NoDamage
<1> QED BY <1>1 DEF Cold, Cache, BossStates

LEMMA HurtType ==
  ASSUME NEW c \in Cache, NEW p \in Players, NEW d \in Nat, d <= c.hp
  PROVE  Hurt(c, p, d) \in Cache
<1>1. c.hp - d \in Nat BY DEF Cache
<1>2. [c.lb EXCEPT ![p] = @ + d] \in [Players -> Nat] BY DEF Cache
<1> QED BY <1>1, <1>2 DEF Hurt, Cache, BossStates

LEMMA DamageScriptType ==
  ASSUME NEW c \in Cache, NEW p \in Players, NEW a \in Int
  PROVE  /\ DamageScript(c, p, a).cache \in Cache
         /\ DamageScript(c, p, a).applied \in Nat
         /\ DamageScript(c, p, a).status \in {"applied", "defeated", "notloaded", "invalid"}
<1>1. c.hp \in Nat BY DEF Cache
<1>2. CASE c.loaded /\ a > 0 /\ c.hp > 0
  <2>1. Landed(c, a) \in Nat /\ Landed(c, a) <= c.hp
    BY <1>1, <1>2 DEF Landed
  <2>2. Hurt(c, p, Landed(c, a)) \in Cache
    BY <2>1, HurtType
  <2>3. DamageScript(c, p, a) = [status |-> "applied", applied |-> Landed(c, a),
                                 cache |-> Hurt(c, p, Landed(c, a))]
    BY <1>1, <1>2 DEF DamageScript
  <2> QED BY <2>1, <2>2, <2>3
<1>3. CASE ~ (c.loaded /\ a > 0 /\ c.hp > 0)
  BY <1>1, <1>3 DEF DamageScript
<1> QED BY <1>2, <1>3

LEMMA CompensateType ==
  ASSUME NEW c \in Cache, NEW p \in Players, NEW a \in Nat
  PROVE  CompensateScript(c, p, a) \in Cache
<1>1. CASE ~ c.loaded \/ a <= 0
  BY <1>1 DEF CompensateScript
<1>2. CASE c.loaded /\ a > 0
  <2>1. [c.lb EXCEPT ![p] = IF @ > a THEN @ - a ELSE 0] \in [Players -> Nat]
    BY DEF Cache
  <2>2. c.hp + a \in Nat BY DEF Cache
  <2> QED BY <1>2, <2>1, <2>2 DEF CompensateScript, Cache, BossStates
<1> QED BY <1>1, <1>2 DEF Cache

(***************************************************************************)
(* "CompensateDamage must be the exact inverse of ApplyDamage"             *)
(* (compensate_test.go): undoing a hit that landed on a live boss restores *)
(* its HP, its state and every score, a kill included.                     *)
(***************************************************************************)
THEOREM UndoInverts ==
  ASSUME NEW c \in Cache, c.loaded, c.state = "alive", NEW p \in Players,
         NEW a \in Int, DamageScript(c, p, a).status = "applied"
  PROVE  CompensateScript(DamageScript(c, p, a).cache, p,
                          DamageScript(c, p, a).applied) = c
<1>1. c.hp \in Nat /\ c.lb \in [Players -> Nat] BY DEF Cache
<1>2. a > 0 /\ c.hp > 0
  BY <1>1 DEF DamageScript
<1> DEFINE d == Landed(c, a)
<1>3. d \in Nat /\ d > 0 /\ d <= c.hp
  BY <1>1, <1>2 DEF Landed
<1>4. DamageScript(c, p, a) = [status |-> "applied", applied |-> d, cache |-> Hurt(c, p, d)]
  BY <1>1, <1>2 DEF DamageScript
<1> HIDE DEF d
<1> DEFINE c1 == Hurt(c, p, d)
           back == [c1.lb EXCEPT ![p] = IF @ > d THEN @ - d ELSE 0]
<1>5. c1.loaded = c.loaded /\ c1.hp = c.hp - d /\ c1.lb = [c.lb EXCEPT ![p] = @ + d]
  BY DEF Hurt
<1> HIDE DEF c1
<1>6. back = c.lb
  BY <1>1, <1>3, <1>5
<1>7. c1.hp + d = c.hp
  BY <1>1, <1>3, <1>5
<1> HIDE DEF back
<1>8. CompensateScript(c1, p, d) = [loaded |-> TRUE, hp |-> c.hp, state |-> "alive", lb |-> c.lb]
  BY <1>1, <1>2, <1>3, <1>5, <1>6, <1>7 DEF CompensateScript, back
<1>9. c = [loaded |-> TRUE, hp |-> c.hp, state |-> "alive", lb |-> c.lb]
  BY DEF Cache
<1>10. DamageScript(c, p, a).cache = c1 /\ DamageScript(c, p, a).applied = d
  BY <1>4 DEF c1
<1> QED BY <1>8, <1>9, <1>10

(***************************************************************************)
(* Hits and undos leave the state 'defeated' exactly at 0 HP.              *)
(***************************************************************************)
LEMMA ScriptsAgree ==
  ASSUME NEW c \in Cache, CacheAgrees(c), NEW p \in Players
  PROVE  /\ \A a \in Int : CacheAgrees(DamageScript(c, p, a).cache)
         /\ \A a \in Nat : CacheAgrees(CompensateScript(c, p, a))
<1>1. c.hp \in Nat BY DEF Cache
<1>2. ASSUME NEW a \in Int PROVE CacheAgrees(DamageScript(c, p, a).cache)
  <2>1. CASE c.loaded /\ a > 0 /\ c.hp > 0
    <3>1. Landed(c, a) \in Nat /\ Landed(c, a) <= c.hp
      BY <1>1, <2>1 DEF Landed
    <3>2. DamageScript(c, p, a).cache = Hurt(c, p, Landed(c, a))
      BY <1>1, <2>1 DEF DamageScript
    <3>3. c.state # "defeated" BY <1>1, <2>1 DEF CacheAgrees
    <3>4. CacheAgrees(Hurt(c, p, Landed(c, a)))
      BY <1>1, <3>1, <3>3 DEF Hurt, CacheAgrees
    <3> QED BY <3>2, <3>4
  <2>2. CASE ~ (c.loaded /\ a > 0 /\ c.hp > 0)
    <3>1. DamageScript(c, p, a).cache = c BY <1>1, <2>2 DEF DamageScript
    <3> QED BY <3>1
  <2> QED BY <2>1, <2>2
<1>3. ASSUME NEW a \in Nat PROVE CacheAgrees(CompensateScript(c, p, a))
  <2>1. CASE ~ c.loaded \/ a <= 0
    <3>1. CompensateScript(c, p, a) = c BY <2>1 DEF CompensateScript
    <3> QED BY <3>1
  <2>2. CASE c.loaded /\ a > 0
    BY <1>1, <2>2 DEF CompensateScript, CacheAgrees
  <2> QED BY <2>1, <2>2
<1> QED BY <1>2, <1>3

(***************************************************************************)
(* Postgres.                                                               *)
(***************************************************************************)
LEMMA TotalDamageNat ==
  ASSUME NEW l \in Ledger
  PROVE  TotalDamage(l) \in Nat /\ RecoveryHP(l) \in Nat
<1>1. \A p \in Players : l.contrib[p] \in Nat BY DEF Ledger
<1>2. TotalDamage(l) \in Nat
  BY <1>1, TotalNat, StoreAssumption DEF TotalDamage
<1> QED BY <1>2, StoreAssumption DEF RecoveryHP

LEMMA UntouchedType == Untouched \in Ledger /\ TotalDamage(Untouched) = 0 /\ LedgerAgrees(Untouched)
<1>1. NoDamage \in [Players -> Nat] BY DEF NoDamage
<1>2. Untouched \in Ledger
  BY <1>1, StoreAssumption DEF Untouched, Ledger, BossStates
<1>3. Untouched.contrib = NoDamage /\ Untouched.hp = MaxHP /\ Untouched.state = "alive"
  BY DEF Untouched
<1>4. Points(NoDamage, Players) = {}
  BY DEF Points, NoDamage
<1>5. TotalDamage(Untouched) = 0
  BY <1>3, <1>4, FS_EmptySet DEF TotalDamage, Total
<1> QED BY <1>2, <1>3, <1>5, StoreAssumption DEF LedgerAgrees, RecoveryHP

LEMMA TotalByType ==
  ASSUME NEW B, IsFiniteSet(B), NEW player, NEW applied, \A h \in B : applied[h] \in Nat
  PROVE  TotalBy(applied, player, B, Players) \in [Players -> Nat]
<1>1. \A p \in Players : Total(applied, {h \in B : player[h] = p}) \in Nat
  <2> TAKE p \in Players
  <2>1. {h \in B : player[h] = p} \in SUBSET B OBVIOUS
  <2>2. IsFiniteSet({h \in B : player[h] = p}) BY <2>1, FS_Subset
  <2> QED BY <2>2, TotalNat
<1> QED BY <1>1 DEF TotalBy

(***************************************************************************)
(* Committing a batch adds its damage to the boss's total and leaves       *)
(* current_hp and the state in agreement with the contributions, whatever  *)
(* the batch (CommitBatch: perPlayer and perBoss add up the same events).  *)
(***************************************************************************)
THEOREM CommitBatchAgrees ==
  ASSUME NEW l \in Ledger, NEW B, IsFiniteSet(B),
         NEW player, \A h \in B : player[h] \in Players,
         NEW applied, \A h \in B : applied[h] \in Nat
  PROVE  LET m == CommitBatch(l, B, player, applied)
         IN  /\ m \in Ledger
             /\ TotalDamage(m) = TotalDamage(l) + Total(applied, B)
             /\ LedgerAgrees(l) => LedgerAgrees(m)
<1> DEFINE m == CommitBatch(l, B, player, applied)
           d == Total(applied, B)
           by == TotalBy(applied, player, B, Players)
<1>1. d \in Nat BY TotalNat
<1>2. by \in [Players -> Nat] BY TotalByType
<1>3. /\ m.hp = IF l.hp >= d THEN l.hp - d ELSE 0
      /\ m.state = IF l.hp - d <= 0 THEN "defeated" ELSE l.state
      /\ m.contrib = [p \in Players |-> l.contrib[p] + by[p]]
      /\ m = [hp |-> m.hp, state |-> m.state, contrib |-> m.contrib]
  BY DEF CommitBatch
<1>4. TotalDamage(m) = TotalDamage(l) + d
  <2>1. l.contrib \in [Players -> Nat] BY DEF Ledger
  <2>2. Total([p \in Players |-> l.contrib[p] + by[p]], Players)
          = Total(l.contrib, Players) + d
    BY <2>1, TotalByKey, StoreAssumption
  <2> QED BY <1>3, <2>2 DEF TotalDamage
<1>5. l.hp \in Nat /\ l.state \in BossStates /\ l.contrib \in [Players -> Nat]
  BY DEF Ledger
<1> HIDE DEF m, d, by
<1>6. m \in Ledger
  <2>1. m.hp \in Nat BY <1>1, <1>3, <1>5
  <2>2. m.state \in BossStates BY <1>3, <1>5 DEF BossStates
  <2>3. m.contrib \in [Players -> Nat] BY <1>2, <1>3, <1>5
  <2> QED BY <1>3, <2>1, <2>2, <2>3 DEF Ledger
<1>7. ASSUME LedgerAgrees(l) PROVE LedgerAgrees(m)
  <2>1. TotalDamage(l) \in Nat BY TotalDamageNat
  <2>2. m.hp = RecoveryHP(m)
    BY <1>1, <1>3, <1>4, <1>5, <1>7, <2>1, StoreAssumption DEF LedgerAgrees, RecoveryHP
  <2>3. m.state = "defeated" <=> m.hp = 0
    BY <1>1, <1>3, <1>5, <1>7 DEF LedgerAgrees
  <2> QED BY <2>2, <2>3 DEF LedgerAgrees
<1> QED BY <1>3, <1>4, <1>6, <1>7 DEF m, d, by
=============================================================================
