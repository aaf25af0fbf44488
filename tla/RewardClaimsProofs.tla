------------------------- MODULE RewardClaimsProofs -------------------------
(***************************************************************************)
(* What a claim promises, for any requests, players, hits and max_hp.      *)
(***************************************************************************)
EXTENDS RewardClaims, BossStoreTheorems

(***************************************************************************)
(* An uncommitted row is the one of a request that found none.             *)
(***************************************************************************)
Owner ==
  \A p \in Players : pending[p] # None =>
    /\ ~ Claimed(p)
    /\ who[pending[p]] = p
    /\ pc[pending[p]] \in {"commit", "error"}
    /\ fresh[pending[p]]
    /\ reward[pending[p]] # NoReward

(***************************************************************************)
(* What a request knows at each of its steps.                              *)
(***************************************************************************)
Knows(c) ==
  /\ pc[c] \in {"new", "boss", "share", "insert", "readback"} => ~ fresh[c]
  /\ pc[c] \in {"insert", "readback", "commit"} => reward[c] # NoReward
  /\ pc[c] = "readback" => Claimed(who[c])
  /\ pc[c] = "commit" /\ fresh[c] => pending[who[c]] = c
  /\ pc[c] = "ok" \/ (pc[c] = "commit" /\ ~ fresh[c])
       => Claimed(who[c]) /\ reward[c] = claims[who[c]]

Control == TypeOK /\ Owner /\ \A c \in Requests : Knows(c)

(***************************************************************************)
(* The rewards a player has, or is about to have.                          *)
(***************************************************************************)
Held(p) == {r \in {claims[p]} \cup {reward[c] : c \in {d \in Requests : who[d] = p}} :
              r # NoReward}

\* The state a request has read is still the state.
Gated == \A c \in Requests : defeated[c] => ledger.state = "defeated"

Earned ==
  \A p \in Players : \A r \in Held(p) :
    ledger.state = "defeated" /\ 0 < r.total /\ r.total <= ledger.contrib[p]

Booked == LedgerAgrees(ledger)

Final ==
  TotalDamage(ledger) <= MaxHP =>
    \A p \in Players : \A r \in Held(p) : r = Price(ledger.contrib[p])

(***************************************************************************)
(* The types.                                                              *)
(***************************************************************************)
\* A price is a reward, and never the absence of one.
LEMMA PriceType ==
  ASSUME NEW t \in Nat, t > 0
  PROVE  Price(t) \in Rewards /\ Price(t).total = t /\ Price(t) # NoReward
<1>1. TierFor(t) \in {"legendary", "epic", "rare", "uncommon", "common"}
  <2>1. MaxHP \in Nat BY StoreAssumption
  <2> DEFINE l == 100 * t >= 20 * MaxHP
             e == 100 * t >= 10 * MaxHP
             r == 100 * t >= 5 * MaxHP
             u == 100 * t >= 1 * MaxHP
  <2>2. (l => e) /\ (e => r) /\ (r => u) BY <2>1
  <2>3. TierFor(t) = CASE l -> "legendary" [] e /\ ~ l -> "epic" [] r /\ ~ e -> "rare"
                       [] u /\ ~ r -> "uncommon" [] ~ u -> "common"
    BY DEF TierFor
  <2> HIDE DEF l, e, r, u
  <2> QED BY <2>2, <2>3
<1>2. Price(t).total = t /\ NoReward.total = 0 BY DEF Price, NoReward
<1> QED BY <1>1, <1>2 DEF Price, Rewards

\* The shares are numbers of points.
LEMMA LedgerShares == ledger \in Ledger => ledger.contrib \in [Players -> Nat]
BY DEF Ledger

\* CommitBatchAgrees for the hits of this module.
LEMMA CommitHitsType ==
  ASSUME TypeOK, NEW B \in SUBSET Hits, ledger' = CommitBatch(ledger, B, player, applied)
  PROVE  /\ ledger' \in Ledger
         /\ TotalDamage(ledger)' = TotalDamage(ledger) + Total(applied, B)
         /\ LedgerAgrees(ledger) => LedgerAgrees(ledger)'
<1>1. IsFiniteSet(B) BY ClaimAssumption, FS_Subset
<1>2. \A h \in B : player[h] \in Players /\ applied[h] \in Nat
  BY ClaimAssumption DEF TypeOK
<1>3. ledger \in Ledger BY DEF TypeOK
<1>4. LET m == CommitBatch(ledger, B, player, applied)
      IN  /\ m \in Ledger
          /\ TotalDamage(m) = TotalDamage(ledger) + Total(applied, B)
          /\ LedgerAgrees(ledger) => LedgerAgrees(m)
  BY <1>1, <1>2, <1>3, CommitBatchAgrees
<1>5. /\ TotalDamage(ledger)' = TotalDamage(ledger')
      /\ LedgerAgrees(ledger)' <=> LedgerAgrees(ledger')
  BY DEF TotalDamage, Total, Points, LedgerAgrees, RecoveryHP
<1> QED BY <1>4, <1>5

\* Init and every step of Next keep the types.
LEMMA InitType == Init => TypeOK
<1> SUFFICES ASSUME Init PROVE TypeOK
  OBVIOUS
<1>1. ledger \in Ledger BY UntouchedType DEF Init
<1>2. NoReward \in Rewards BY DEF NoReward, Rewards
<1> QED BY <1>1, <1>2 DEF Init, TypeOK, Open

LEMMA NextType == TypeOK /\ [Next]_vars => TypeOK'
<1> SUFFICES ASSUME TypeOK, [Next]_vars PROVE TypeOK'
  OBVIOUS
<1> USE DEF TypeOK, hits, requests, Goto, Open, Closed
<1>1. ASSUME NEW c \in Requests, Arrive(c) PROVE TypeOK'
  BY <1>1 DEF Arrive
<1>2. ASSUME NEW c \in Requests, ReadBoss(c) PROVE TypeOK'
  BY <1>2 DEF ReadBoss
<1>3. ASSUME NEW c \in Requests, ReadShare(c) PROVE TypeOK'
  <2>1. ledger.contrib[who[c]] \in Nat BY LedgerShares
  <2>2. ledger.contrib[who[c]] > 0 => Price(ledger.contrib[who[c]]) \in Rewards
    BY <2>1, PriceType
  <2> QED BY <1>3, <2>2 DEF ReadShare
<1>4. ASSUME NEW c \in Requests, Insert(c) PROVE TypeOK'
  BY <1>4 DEF Insert
<1>5. ASSUME NEW c \in Requests, ReadBack(c) PROVE TypeOK'
  BY <1>5 DEF ReadBack
<1>6. ASSUME NEW c \in Requests, CommitClaim(c) PROVE TypeOK'
  BY <1>6 DEF CommitClaim, Keep
<1>7. ASSUME NEW c \in Requests, Abandon(c) PROVE TypeOK'
  BY <1>7 DEF Abandon
<1>8. ASSUME NEW c \in Requests, Settle(c) PROVE TypeOK'
  BY <1>8 DEF Settle, Keep, Undo
<1>9. ASSUME NEW B \in SUBSET Hits, CommitHits(B) PROVE TypeOK'
  <2>1. ledger' \in Ledger BY <1>9, CommitHitsType DEF CommitHits
  <2> QED BY <1>9, <2>1 DEF CommitHits
<1>10. CASE Seed BY <1>10 DEF Seed
<1>11. CASE Done \/ UNCHANGED vars BY <1>11 DEF Done, vars
<1> QED BY <1>1, <1>2, <1>3, <1>4, <1>5, <1>6, <1>7, <1>8, <1>9, <1>10, <1>11
        DEF Next, Claim

(***************************************************************************)
(* TypeOK: every variable keeps its type (Claim, ClaimBasis, SaveClaim).   *)
(***************************************************************************)
THEOREM ClaimsTyped == Spec => []TypeOK
<1> QED BY InitType, NextType, PTL DEF Spec

(***************************************************************************)
(* Control is inductive.  The steps that touch a row are those of its      *)
(* owner, so a row is only ever added for a player who has none.           *)
(***************************************************************************)
LEMMA ControlInit == Init => Control
<1> SUFFICES ASSUME Init PROVE Control
  OBVIOUS
<1>1. TypeOK BY InitType
<1>2. Owner BY DEF Init, Owner
<1>3. \A c \in Requests : Knows(c) BY DEF Init, Knows
<1> QED BY <1>1, <1>2, <1>3 DEF Control

\* What the end of a transaction does to the rows.
LEMMA KeepsRows ==
  ASSUME Control, NEW c \in Requests, Keep(c)
  PROVE  /\ \A p \in Players : Claimed(p) => claims'[p] = claims[p]
         /\ \A p \in Players : pending[p] # c => /\ claims'[p] = claims[p]
                                                 /\ pending'[p] = pending[p]
         /\ pending[who[c]] = c => claims'[who[c]] = reward[c] /\ reward[c] # NoReward
         /\ \A p \in Players : pending'[p] # c
<1> USE DEF Control, TypeOK
<1>1. c # None BY ClaimAssumption
<1>2. who[c] \in Players OBVIOUS
<1>3. \A p \in Players : pending[p] = c => p = who[c] /\ ~ Claimed(p) /\ reward[c] # NoReward
  BY <1>1 DEF Owner
<1>4. claims' = IF pending[who[c]] = c THEN [claims EXCEPT ![who[c]] = reward[c]] ELSE claims
  BY DEF Keep
<1>5. pending' = [p \in Players |-> IF pending[p] = c THEN None ELSE pending[p]]
  BY DEF Keep
<1>6. claims \in [Players -> Rewards] OBVIOUS
<1>7. \A p \in Players : claims'[p] = IF p = who[c] /\ pending[p] = c THEN reward[c] ELSE claims[p]
  BY <1>2, <1>4, <1>6
<1> HIDE DEF Control, TypeOK
<1> QED BY <1>1, <1>2, <1>3, <1>5, <1>7

LEMMA ControlNext == Control /\ [Next]_vars => Control'
<1> SUFFICES ASSUME Control, [Next]_vars PROVE Control'
  OBVIOUS
<1>1. TypeOK' BY NextType DEF Control
<1>2. /\ who \in [Requests -> Players] /\ pc \in [Requests -> {"new"} \cup Open \cup Closed]
      /\ pending \in [Players -> Requests \cup {None}]
      /\ fresh \in [Requests -> BOOLEAN]
      /\ reward \in [Requests -> Rewards]
      /\ claims \in [Players -> Rewards]
  BY DEF Control, TypeOK
<1>3. \A d \in Requests : Knows(d) BY DEF Control
<1>4. Owner BY DEF Control
<1>5. \A c \in Requests : c # None BY ClaimAssumption
<1> USE DEF Goto, hits, requests
<1> SUFFICES Owner' /\ \A d \in Requests : Knows(d)'
  BY <1>1 DEF Control
<1>10. ASSUME NEW c \in Requests, Arrive(c) PROVE Owner' /\ \A d \in Requests : Knows(d)'
  BY <1>10, <1>2, <1>3, <1>4, <1>5 DEF Arrive, Knows, Owner, Claimed
<1>11. ASSUME NEW c \in Requests, ReadBoss(c) PROVE Owner' /\ \A d \in Requests : Knows(d)'
  BY <1>11, <1>2, <1>3, <1>4, <1>5 DEF ReadBoss, Knows, Owner, Claimed
<1>12. ASSUME NEW c \in Requests, ReadShare(c) PROVE Owner' /\ \A d \in Requests : Knows(d)'
  <2>1. ledger.contrib[who[c]] \in Nat BY <1>2, LedgerShares DEF Control, TypeOK
  <2>2. ledger.contrib[who[c]] > 0 => Price(ledger.contrib[who[c]]) # NoReward
    BY <2>1, PriceType
  <2>3. /\ pc[c] = "share"
        /\ UNCHANGED <<who, fresh, claims, pending>>
        /\ \/ reward' = reward /\ \/ pc' = [pc EXCEPT ![c] = "notdefeated"]
                                  \/ pc' = [pc EXCEPT ![c] = "nocontribution"]
           \/ /\ pc' = [pc EXCEPT ![c] = "insert"]
              /\ \E r : r # NoReward /\ reward' = [reward EXCEPT ![c] = r]
    BY <1>12, <2>2 DEF ReadShare
  <2> QED BY <2>3, <1>2, <1>3, <1>4, <1>5 DEF Knows, Owner, Claimed
<1>13. ASSUME NEW c \in Requests, Insert(c) PROVE Owner' /\ \A d \in Requests : Knows(d)'
  <2>1. CASE Claimed(who[c])
    <3>1. /\ pc[c] = "insert" /\ pc' = [pc EXCEPT ![c] = "readback"]
          /\ UNCHANGED <<who, reward, fresh, claims, pending>>
      BY <1>13, <2>1 DEF Insert
    <3> QED BY <3>1, <2>1, <1>2, <1>3, <1>4, <1>5 DEF Knows, Owner, Claimed
  <2>2. CASE ~ Claimed(who[c])
    <3>1. /\ pc[c] = "insert" /\ pc' = [pc EXCEPT ![c] = "commit"]
          /\ pending[who[c]] = None /\ pending' = [pending EXCEPT ![who[c]] = c]
          /\ fresh' = [fresh EXCEPT ![c] = TRUE]
          /\ UNCHANGED <<who, reward, claims>>
      BY <1>13, <2>2 DEF Insert
    <3>2. reward[c] # NoReward BY <3>1, <1>3 DEF Knows
    <3>3. Owner'
      BY <3>1, <3>2, <2>2, <1>2, <1>4, <1>5 DEF Owner, Claimed
    <3>4. \A d \in Requests : Knows(d)'
      BY <3>1, <3>2, <1>2, <1>3, <1>5 DEF Knows, Claimed
    <3> QED BY <3>3, <3>4
  <2> QED BY <2>1, <2>2
<1>14. ASSUME NEW c \in Requests, ReadBack(c) PROVE Owner' /\ \A d \in Requests : Knows(d)'
  <2>1. /\ pc[c] = "readback" /\ pc' = [pc EXCEPT ![c] = "commit"]
        /\ reward' = [reward EXCEPT ![c] = claims[who[c]]]
        /\ UNCHANGED <<who, fresh, claims, pending>>
    BY <1>14 DEF ReadBack
  <2>2. Claimed(who[c]) /\ ~ fresh[c] BY <2>1, <1>3 DEF Knows
  <2> QED BY <2>1, <2>2, <1>2, <1>3, <1>4, <1>5 DEF Knows, Owner, Claimed
<1>15. ASSUME NEW c \in Requests, Keep(c), \/ pc[c] = "commit" /\ Goto(c, "ok")
                                           \/ pc[c] = "error" /\ UNCHANGED pc,
              UNCHANGED <<who, reward, fresh>>
       PROVE  Owner' /\ \A d \in Requests : Knows(d)'
  <2>1. /\ \A p \in Players : Claimed(p) => claims'[p] = claims[p]
        /\ \A p \in Players : pending[p] # c => /\ claims'[p] = claims[p]
                                                /\ pending'[p] = pending[p]
        /\ pending[who[c]] = c => claims'[who[c]] = reward[c] /\ reward[c] # NoReward
        /\ \A p \in Players : pending'[p] # c
    BY <1>15, KeepsRows
  <2>2. \A p \in Players : pending[p] = c => pending'[p] = None
    BY <1>15 DEF Keep
  <2>3. Owner'
    BY <1>15, <2>1, <2>2, <1>2, <1>4, <1>5 DEF Owner, Claimed
  <2>4. ASSUME NEW d \in Requests, d # c PROVE Knows(d)'
    <3>1. pc'[d] = pc[d] /\ Knows(d) /\ who[d] \in Players BY <1>15, <2>4, <1>2, <1>3
    <3> QED BY <1>15, <2>1, <2>4, <3>1 DEF Knows, Claimed
  <2>5. Knows(c)'
    <3>1. Knows(c) /\ who[c] \in Players BY <1>2, <1>3
    <3>2. pc'[c] \in {"ok", "error"} BY <1>15, <1>2
    <3>3. ASSUME pc'[c] = "ok" PROVE Claimed(who[c])' /\ reward'[c] = claims'[who[c]]
      <4>1. pc[c] = "commit" BY <1>15, <3>3, <1>2
      <4> QED BY <1>15, <2>1, <3>1, <4>1 DEF Knows, Claimed
    <3> QED BY <1>15, <3>2, <3>3 DEF Knows
  <2> QED BY <2>3, <2>4, <2>5
<1>16. ASSUME NEW c \in Requests, CommitClaim(c) PROVE Owner' /\ \A d \in Requests : Knows(d)'
  BY <1>15, <1>16 DEF CommitClaim
<1>17. ASSUME NEW c \in Requests, Abandon(c) PROVE Owner' /\ \A d \in Requests : Knows(d)'
  BY <1>17, <1>2, <1>3, <1>4, <1>5 DEF Abandon, Knows, Owner, Claimed
<1>18. ASSUME NEW c \in Requests, Settle(c) PROVE Owner' /\ \A d \in Requests : Knows(d)'
  <2>1. CASE Keep(c) BY <1>15, <1>18, <2>1 DEF Settle
  <2>2. CASE Undo(c)
    <3>1. /\ pc[c] = "error"
          /\ pending' = [p \in Players |-> IF pending[p] = c THEN None ELSE pending[p]]
          /\ UNCHANGED <<who, pc, reward, fresh, claims>>
      BY <1>18, <2>2 DEF Settle, Undo
    <3>2. \A p \in Players : pending'[p] = None \/ pending'[p] = pending[p] BY <3>1
    <3>3. Owner' BY <3>1, <3>2, <1>4 DEF Owner, Claimed
    <3>4. \A d \in Requests : Knows(d)'
      <4> TAKE d \in Requests
      <4>1. who[d] \in Players /\ Knows(d) BY <1>2, <1>3
      <4> QED BY <3>1, <4>1 DEF Knows, Claimed
    <3> QED BY <3>3, <3>4
  <2> QED BY <1>18, <2>1, <2>2 DEF Settle
<1>19. ASSUME UNCHANGED <<requests, claims, pending>>
       PROVE  Owner' /\ \A d \in Requests : Knows(d)'
  BY <1>19, <1>3, <1>4 DEF Knows, Owner, Claimed
<1>20. ASSUME NEW B \in SUBSET Hits, CommitHits(B) PROVE Owner' /\ \A d \in Requests : Knows(d)'
  BY <1>19, <1>20 DEF CommitHits
<1>21. CASE Seed \/ Done \/ UNCHANGED vars
  BY <1>19, <1>21 DEF Seed, Done, vars
<1> QED BY <1>10, <1>11, <1>12, <1>13, <1>14, <1>16, <1>17, <1>18, <1>20, <1>21
        DEF Next, Claim

\* Hence Control always holds.
LEMMA ControlHolds == Spec => []Control
<1> QED BY ControlInit, ControlNext, PTL DEF Spec

(***************************************************************************)
(* SameReward: an answer 200 shows the player's row (SaveClaim).           *)
(***************************************************************************)
THEOREM RewardIsShown == Spec => []SameReward
<1>1. Control => SameReward BY DEF Control, Knows, SameReward
<1> QED BY <1>1, ControlHolds, PTL

(***************************************************************************)
(* ClaimsStay: a row is never changed or withdrawn (the primary key and ON *)
(* CONFLICT DO NOTHING in SaveClaim).                                      *)
(***************************************************************************)
THEOREM ClaimsNeverChange == Spec => ClaimsStay
<1> DEFINE Stays == \A p \in Players : Claimed(p) => claims'[p] = claims[p]
<1>1. Control /\ [Next]_vars => [Stays]_vars
  <2> SUFFICES ASSUME Control, Next PROVE Stays
    OBVIOUS
  <2>1. ASSUME NEW c \in Requests, Keep(c) PROVE Stays
    BY <2>1, KeepsRows
  <2>2. CASE \E c \in Requests : CommitClaim(c) \/ Settle(c)
    BY <2>1, <2>2 DEF CommitClaim, Settle, Undo
  <2>3. CASE UNCHANGED claims BY <2>3
  <2> QED BY <2>2, <2>3
          DEF Next, Claim, Arrive, ReadBoss, ReadShare, Insert, ReadBack, Abandon, CommitHits,
              Seed, Done, vars
<1> QED BY <1>1, ControlHolds, PTL DEF Spec, ClaimsStay

(***************************************************************************)
(* OneGrant: one answer at most says that the reward is new (SaveClaim's   *)
(* claimed): the request that inserts finds the player without a row.      *)
(***************************************************************************)
THEOREM GrantedOnce == Spec => []OneGrant
<1>1. Init => OneGrant BY DEF Init, OneGrant
<1>2. Control /\ OneGrant /\ [Next]_vars => OneGrant'
  <2> SUFFICES ASSUME Control, OneGrant, [Next]_vars PROVE OneGrant'
    OBVIOUS
  <2>0. /\ pc \in [Requests -> {"new"} \cup Open \cup Closed]
        /\ fresh \in [Requests -> BOOLEAN] /\ who \in [Requests -> Players]
    BY DEF Control, TypeOK
  <2> DEFINE Granted(c) == pc[c] = "ok" /\ fresh[c]
  <2>1. ASSUME UNCHANGED who, \A c \in Requests : Granted(c)' => Granted(c) PROVE OneGrant'
    BY <2>1 DEF OneGrant
  <2>2. ASSUME NEW c \in Requests, CommitClaim(c) PROVE OneGrant'
    <3>1. /\ pc[c] = "commit" /\ pc' = [pc EXCEPT ![c] = "ok"] /\ UNCHANGED <<who, fresh>>
      BY <2>2 DEF CommitClaim, Goto
    <3>2. \A d \in Requests : d # c => (Granted(d)' <=> Granted(d))
      BY <3>1, <2>0
    <3>3. CASE fresh[c]
      <4>1. pending[who[c]] = c /\ c # None
        BY <3>1, <3>3, ClaimAssumption DEF Control, Knows
      <4>2. ~ Claimed(who[c])
        BY <4>1, <2>0 DEF Control, Owner
      <4>3. \A d \in Requests : Granted(d) => who[d] # who[c]
        BY <4>2 DEF Control, Knows
      <4> QED BY <3>1, <3>2, <4>3 DEF OneGrant
    <3>4. CASE ~ fresh[c]
      <4>1. ~ Granted(c)' BY <3>1, <3>4
      <4> QED BY <2>1, <3>1, <3>2, <4>1
    <3> QED BY <3>3, <3>4
  <2>3. ASSUME NEW c \in Requests, Arrive(c) \/ ReadBoss(c) \/ ReadShare(c) \/ ReadBack(c)
                                   \/ Abandon(c)
        PROVE  OneGrant'
    <3>1. UNCHANGED <<who, fresh>> /\ \E s \in {"boss", "share", "notfound", "notdefeated",
               "nocontribution", "insert", "commit", "error"} : pc' = [pc EXCEPT ![c] = s]
      BY <2>3 DEF Arrive, ReadBoss, ReadShare, ReadBack, Abandon, Goto
    <3> QED BY <2>1, <3>1, <2>0
  <2>4. ASSUME NEW c \in Requests, Insert(c) PROVE OneGrant'
    <3>1. /\ UNCHANGED who
          /\ \/ pc' = [pc EXCEPT ![c] = "readback"] /\ UNCHANGED fresh
             \/ pc' = [pc EXCEPT ![c] = "commit"] /\ fresh' = [fresh EXCEPT ![c] = TRUE]
      BY <2>4 DEF Insert, Goto
    <3> QED BY <2>1, <3>1, <2>0
  <2>5. CASE UNCHANGED <<who, pc, fresh>> BY <2>1, <2>5
  <2> QED BY <2>2, <2>3, <2>4, <2>5
          DEF Next, Claim, Settle, CommitHits, Seed, Done, vars, requests
<1> QED BY <1>1, <1>2, ControlHolds, PTL DEF Spec

(***************************************************************************)
(* The ledger only grows, and the rewards come from it.                    *)
(***************************************************************************)
LEMMA LedgerSteps ==
  [Next]_vars => \/ UNCHANGED ledger
                 \/ \E B \in SUBSET Hits : /\ B # {}
                                           /\ ledger' = CommitBatch(ledger, B, player, applied)
                                           /\ UNCHANGED <<requests, claims>>
BY DEF Next, Claim, Arrive, ReadBoss, ReadShare, Insert, ReadBack, CommitClaim, Abandon, Settle,
       CommitHits, Seed, Done, vars, hits

\* A batch raises the total; it lowers no share and revives no boss.
LEMMA CommitGrows ==
  ASSUME TypeOK, NEW B \in SUBSET Hits, B # {},
         ledger' = CommitBatch(ledger, B, player, applied)
  PROVE  /\ ledger.state = "defeated" => ledger'.state = "defeated"
         /\ \A p \in Players : /\ ledger.contrib[p] \in Nat /\ ledger'.contrib[p] \in Nat
                               /\ ledger.contrib[p] <= ledger'.contrib[p]
         /\ TotalDamage(ledger) < TotalDamage(ledger)'
<1>1. IsFiniteSet(B) BY ClaimAssumption, FS_Subset
<1>2. \A h \in B : applied[h] \in Nat /\ applied[h] > 0
  <2>1. applied \in [Hits -> Landing] BY DEF TypeOK
  <2>2. \A x \in Landing : x \in Nat /\ x > 0
    <3>1. \A x \in Nat \ {0} : x \in Nat /\ x > 0 OBVIOUS
    <3> QED BY <3>1, ClaimAssumption
  <2> QED BY <2>1, <2>2
<1> DEFINE by == TotalBy(applied, player, B, Players)
<1>3. by \in [Players -> Nat] BY <1>1, <1>2, TotalByType
<1>4. ledger.contrib \in [Players -> Nat] BY LedgerShares DEF TypeOK
<1>5. /\ ledger'.contrib = [p \in Players |-> ledger.contrib[p] + by[p]]
      /\ ledger'.state = IF ledger.hp - Total(applied, B) <= 0 THEN "defeated" ELSE ledger.state
  BY DEF CommitBatch
<1> HIDE DEF by
<1>6. Total(applied, B) > 0
  <2>1. PICK h \in B : TRUE OBVIOUS
  <2>2. Total(applied, {h}) = applied[h] BY <1>2, <2>1, TotalSingleton
  <2>3. Total(applied, {h}) <= Total(applied, B) BY <1>1, <1>2, <2>1, TotalSubset
  <2>4. Total(applied, B) \in Nat BY <1>1, <1>2, TotalNat
  <2> QED BY <1>2, <2>1, <2>2, <2>3, <2>4
<1>7. TotalDamage(ledger)' = TotalDamage(ledger) + Total(applied, B)
  BY CommitHitsType
<1>8. TotalDamage(ledger) \in Nat /\ Total(applied, B) \in Nat
  BY <1>1, <1>2, TotalNat, TotalDamageNat DEF TypeOK
<1> QED BY <1>3, <1>4, <1>5, <1>6, <1>7, <1>8

\* The state ClaimBasis has read stays the state.
LEMMA GatedHolds == Spec => []Gated
<1>1. Init => Gated BY DEF Init, Gated
<1>2. TypeOK /\ Gated /\ [Next]_vars => Gated'
  <2> SUFFICES ASSUME TypeOK, Gated, [Next]_vars PROVE Gated'
    OBVIOUS
  <2>1. ledger.state = "defeated" => ledger'.state = "defeated"
    BY LedgerSteps, CommitGrows
  <2>2. CASE \E c \in Requests : ReadBoss(c)
    BY <2>2 DEF ReadBoss, Gated, TypeOK, hits
  <2>3. CASE UNCHANGED defeated BY <2>1, <2>3 DEF Gated
  <2> QED BY <2>2, <2>3
          DEF Next, Claim, Arrive, ReadShare, Insert, ReadBack, CommitClaim, Abandon, Settle,
              CommitHits, Seed, Done, vars, requests
<1> QED BY <1>1, <1>2, ClaimsTyped, PTL DEF Spec

\* The ledger agrees with itself (CommitBatch).
LEMMA BookedHolds == Spec => []Booked
<1>1. Init => Booked BY UntouchedType DEF Init, Booked
<1>2. TypeOK /\ Booked /\ [Next]_vars => Booked'
  <2> SUFFICES ASSUME TypeOK, Booked, [Next]_vars PROVE Booked'
    OBVIOUS
  <2>1. CASE UNCHANGED ledger
    BY <2>1 DEF Booked, LedgerAgrees, RecoveryHP, TotalDamage, Total, Points
  <2>2. CASE \E B \in SUBSET Hits : ledger' = CommitBatch(ledger, B, player, applied)
    BY <2>2, CommitHitsType DEF Booked
  <2> QED BY <2>1, <2>2, LedgerSteps
<1> QED BY <1>1, <1>2, ClaimsTyped, PTL DEF Spec

(***************************************************************************)
(* A reward a player comes to hold is one held before, or is priced on the *)
(* ledger of a defeated boss (Claim's checks).                             *)
(***************************************************************************)
LEMMA NewRewards ==
  ASSUME Control, Gated, [Next]_vars, NEW p \in Players, NEW r \in Held(p)'
  PROVE  \/ r \in Held(p)
         \/ /\ UNCHANGED ledger
            /\ ledger.state = "defeated"
            /\ ledger.contrib[p] \in Nat /\ ledger.contrib[p] > 0
            /\ r = Price(ledger.contrib[p])
<1>1. /\ reward \in [Requests -> Rewards] /\ who \in [Requests -> Players]
      /\ claims \in [Players -> Rewards]
  BY DEF Control, TypeOK
<1>2. r # NoReward /\ (r = claims'[p] \/ \E d \in Requests : who'[d] = p /\ r = reward'[d])
  BY DEF Held
<1>3. ASSUME \/ r = claims[p]
             \/ \E d \in Requests : who[d] = p /\ r = reward[d]
      PROVE  r \in Held(p)
  BY <1>2, <1>3 DEF Held
<1> HIDE DEF Held
<1>4. UNCHANGED who
  BY DEF Next, Claim, Arrive, ReadBoss, ReadShare, Insert, ReadBack, CommitClaim, Abandon,
         Settle, CommitHits, Seed, Done, vars, requests
<1>5. CASE \E c \in Requests : ReadShare(c)
  <2>1. PICK c \in Requests : ReadShare(c) BY <1>5
  <2>2. UNCHANGED claims BY <2>1 DEF ReadShare
  <2>3. CASE reward' = reward BY <1>2, <1>3, <1>4, <2>2, <2>3
  <2>4. CASE reward' # reward
    <3>1. /\ UNCHANGED ledger /\ defeated[c] /\ ledger.contrib[who[c]] > 0
          /\ reward' = [reward EXCEPT ![c] = Price(ledger.contrib[who[c]])]
      BY <2>1, <2>4 DEF ReadShare, hits
    <3>2. ledger.state = "defeated" BY <3>1 DEF Gated
    <3>3. ledger.contrib[p] \in Nat BY LedgerShares DEF Control, TypeOK
    <3>4. CASE r = claims'[p] BY <1>3, <2>2, <3>4
    <3>5. CASE \E d \in Requests : who'[d] = p /\ r = reward'[d]
      <4>1. PICK d \in Requests : who[d] = p /\ r = reward'[d] BY <1>4, <3>5
      <4>2. CASE d = c BY <1>1, <3>1, <3>2, <3>3, <4>1, <4>2
      <4>3. CASE d # c
        <5>1. reward'[d] = reward[d] BY <1>1, <3>1, <4>3
        <5> QED BY <1>3, <4>1, <5>1
      <4> QED BY <4>2, <4>3
    <3> QED BY <1>2, <3>4, <3>5
  <2> QED BY <2>3, <2>4
<1>6. CASE \E c \in Requests : ReadBack(c)
  <2>1. PICK c \in Requests : /\ UNCHANGED claims
                              /\ reward' = [reward EXCEPT ![c] = claims[who[c]]]
    BY <1>6 DEF ReadBack
  <2>2. \A d \in Requests : reward'[d] = reward[d] \/ reward'[d] = claims[who[d]]
    BY <1>1, <2>1
  <2> QED BY <1>2, <1>3, <1>4, <2>1, <2>2
<1>7. CASE \E c \in Requests : Keep(c) /\ UNCHANGED reward
  <2>1. PICK c \in Requests : Keep(c) /\ UNCHANGED reward BY <1>7
  <2>2. claims'[p] = claims[p] \/ (who[c] = p /\ claims'[p] = reward[c])
    BY <1>1, <2>1 DEF Keep
  <2> QED BY <1>2, <1>3, <1>4, <2>1, <2>2
<1>8. CASE UNCHANGED <<reward, claims>> BY <1>2, <1>3, <1>4, <1>8
<1> QED BY <1>5, <1>6, <1>7, <1>8
        DEF Next, Claim, Arrive, ReadBoss, Insert, CommitClaim, Abandon, Settle, Undo,
            CommitHits, Seed, Done, vars, requests

\* Every reward held, committed or not, is earned.
LEMMA EarnedHolds == Spec => []Earned
<1>1. Init => Earned BY DEF Init, Earned, Held
<1>2. Control /\ Gated /\ Earned /\ [Next]_vars => Earned'
  <2> SUFFICES ASSUME Control, Gated, Earned, [Next]_vars,
                      NEW p \in Players, NEW r \in Held(p)'
               PROVE  ledger'.state = "defeated" /\ 0 < r.total /\ r.total <= ledger'.contrib[p]
    BY DEF Earned
  <2>1. CASE r \in Held(p)
    <3>1. /\ ledger.state = "defeated" /\ 0 < r.total /\ r.total <= ledger.contrib[p]
      BY <2>1 DEF Earned
    <3>2. r \in Rewards BY <2>1 DEF Held, Control, TypeOK
    <3>3. r.total \in Nat BY <3>2 DEF Rewards
    <3>4. CASE UNCHANGED ledger BY <3>1, <3>4
    <3>5. CASE \E B \in SUBSET Hits :
                 B # {} /\ ledger' = CommitBatch(ledger, B, player, applied)
      <4>1. /\ ledger'.state = "defeated"
            /\ ledger.contrib[p] \in Nat /\ ledger'.contrib[p] \in Nat
            /\ ledger.contrib[p] <= ledger'.contrib[p]
        BY <3>1, <3>5, CommitGrows DEF Control
      <4> QED BY <3>1, <3>3, <4>1
    <3> QED BY <3>4, <3>5, LedgerSteps
  <2>2. CASE r \notin Held(p)
    <3>1. /\ UNCHANGED ledger /\ ledger.state = "defeated"
          /\ ledger.contrib[p] \in Nat /\ ledger.contrib[p] > 0
          /\ r = Price(ledger.contrib[p])
      BY <2>2, NewRewards
    <3>2. r.total = ledger.contrib[p] BY <3>1, PriceType
    <3> QED BY <3>1, <3>2
  <2> QED BY <2>1, <2>2
<1> QED BY <1>1, <1>2, ControlHolds, GatedHolds, PTL DEF Spec

(***************************************************************************)
(* RewardEarned: whoever has a claim has a share in a boss whose kill is   *)
(* durable, and was not paid for more (ClaimBasis).                        *)
(***************************************************************************)
THEOREM RewardsAreEarned == Spec => []RewardEarned
<1>1. Earned => RewardEarned BY DEF Earned, Held, Claimed, RewardEarned
<1> QED BY <1>1, EarnedHolds, PTL

(***************************************************************************)
(* PricedOnFinalShare: unless more than MaxHP is stored, nothing is        *)
(* committed after the kill, so the price that was right when it was read  *)
(* stays right (Claim).                                                    *)
(***************************************************************************)
THEOREM SharesAreFinal == Spec => []PricedOnFinalShare
<1>1. Init => Final BY DEF Init, Final, Held
<1>2. Control /\ Gated /\ Booked /\ Earned /\ Final /\ [Next]_vars => Final'
  <2> SUFFICES ASSUME Control, Gated, Booked, Earned, Final, [Next]_vars,
                      TotalDamage(ledger)' <= MaxHP,
                      NEW p \in Players, NEW r \in Held(p)'
               PROVE  r = Price(ledger'.contrib[p])
    BY DEF Final, Price, TierFor
  <2>1. CASE UNCHANGED ledger
    <3>1. TotalDamage(ledger) <= MaxHP BY <2>1 DEF TotalDamage, Total, Points
    <3>2. CASE r \in Held(p) BY <2>1, <3>1, <3>2 DEF Final
    <3>3. CASE r \notin Held(p) BY <2>1, <3>3, NewRewards
    <3> QED BY <3>2, <3>3
  <2>2. CASE ~ UNCHANGED ledger
    <3>1. r \in Held(p) BY <2>2, NewRewards
    <3>2. ledger.hp = 0 BY <3>1 DEF Earned, Booked, LedgerAgrees
    <3>3. TotalDamage(ledger) \in Nat BY TotalDamageNat DEF Control, TypeOK
    <3>4. TotalDamage(ledger) >= MaxHP
      BY <3>2, <3>3, StoreAssumption DEF Booked, LedgerAgrees, RecoveryHP
    <3>5. PICK B \in SUBSET Hits : /\ B # {}
                                   /\ ledger' = CommitBatch(ledger, B, player, applied)
      BY <2>2, LedgerSteps
    <3>6. TotalDamage(ledger) < TotalDamage(ledger)' BY <3>5, CommitGrows DEF Control
    <3>7. ledger' \in Ledger BY <3>5, CommitHitsType DEF Control
    <3>8. TotalDamage(ledger)' \in Nat
      <4>1. TotalDamage(ledger') \in Nat BY <3>7, TotalDamageNat
      <4> QED BY <4>1 DEF TotalDamage, Total, Points
    <3> QED BY <3>3, <3>4, <3>6, <3>8, StoreAssumption
  <2> QED BY <2>1, <2>2
<1>3. Final => PricedOnFinalShare BY DEF Final, Held, Claimed, PricedOnFinalShare
<1> QED BY <1>1, <1>2, <1>3, ControlHolds, GatedHolds, BookedHolds, EarnedHolds, PTL DEF Spec
=============================================================================
