---------------------------- MODULE RewardClaims ----------------------------
(***************************************************************************)
(* POST /rewards/claim on one boss: Service.Claim prices a reward from two *)
(* reads of Postgres (ClaimBasis) and saves it in a transaction whose      *)
(* INSERT meets the primary key (SaveClaim), while the writer goes on      *)
(* committing hits.                                                        *)
(*                                                                         *)
(* A request may be abandoned at any step (its context ends, a statement   *)
(* fails, the process dies).  Its transaction then ends without it: the    *)
(* server rolls it back or, if COMMIT was on its way, may commit it.       *)
(***************************************************************************)
EXTENDS BossStore

CONSTANTS Requests,   \* the POST /rewards/claim requests
          Hits,       \* the hits the writer has or will get
          Landing,    \* the points a hit may have landed
          None        \* no transaction

ASSUME ClaimAssumption ==
  /\ IsFiniteSet(Hits)
  /\ Landing \subseteq Nat \ {0}   \* damageScript lands at least a point
  /\ None \notin Requests

VARIABLES
  seeded,      \* whether the boss is in Postgres
  ledger,      \* its row and contributions
  stored,      \* the hits committed so far
  player,      \* who landed a hit, and how much
  applied,
  who,         \* who makes the request
  pc,          \* where it is, or its answer
  defeated,    \* what ClaimBasis read first: whether the boss is defeated
  reward,      \* the reward the request has priced, or read back
  fresh,       \* the opposite of already_claimed
  claims,      \* the committed rows of reward_claims
  pending      \* the transaction with an uncommitted row for the player, or None

hits     == <<seeded, ledger, stored, player, applied>>
requests == <<who, pc, defeated, reward, fresh>>
vars     == <<hits, requests, claims, pending>>

Open    == {"boss", "share", "insert", "readback", "commit"}

Closed  == {"ok", "notfound", "notdefeated", "nocontribution", "error"}

\* TierFor: the share in percent against inclusive lower bounds (0.01, 0.05, 0.1
\* and 0.2 times 100 are exact in float64).
TierFor(total) ==
  LET atLeast(pct) == 100 * total >= pct * MaxHP
  IN  CASE atLeast(20) -> "legendary"
        [] atLeast(10) /\ ~ atLeast(20) -> "epic"
        [] atLeast(5) /\ ~ atLeast(10) -> "rare"
        [] atLeast(1) /\ ~ atLeast(5) -> "uncommon"
        [] ~ atLeast(1) -> "common"

\* damage_pct (kept as the points it was computed from), and the tier, which
\* decides the payload.
Price(total) == [total |-> total, tier |-> TierFor(total)]

NoReward == [total |-> 0, tier |-> "none"]

Rewards == [total : Nat,
            tier : {"legendary", "epic", "rare", "uncommon", "common", "none"}]

TypeOK ==
  /\ seeded \in BOOLEAN
  /\ ledger \in Ledger
  /\ stored \subseteq Hits
  /\ player \in [Hits -> Players]
  /\ applied \in [Hits -> Landing]
  /\ who \in [Requests -> Players]
  /\ pc \in [Requests -> {"new"} \cup Open \cup Closed]
  /\ defeated \in [Requests -> BOOLEAN]
  /\ reward \in [Requests -> Rewards]
  /\ fresh \in [Requests -> BOOLEAN]
  /\ claims \in [Players -> Rewards]
  /\ pending \in [Players -> Requests \cup {None}]

Init ==
  /\ seeded \in BOOLEAN
  /\ ledger = Untouched
  /\ stored = {}
  /\ player \in [Hits -> Players]
  /\ applied \in [Hits -> Landing]
  /\ who \in [Requests -> Players]
  /\ pc = [c \in Requests |-> "new"]
  /\ defeated = [c \in Requests |-> FALSE]
  /\ reward = [c \in Requests |-> NoReward]
  /\ fresh = [c \in Requests |-> FALSE]
  /\ claims = [p \in Players |-> NoReward]
  /\ pending = [p \in Players |-> None]

Goto(c, step) == pc' = [pc EXCEPT ![c] = step]

Claimed(p) == claims[p] # NoReward

(***************************************************************************)
(* Claim, up to the save.                                                  *)
(***************************************************************************)
Arrive(c) ==
  /\ pc[c] = "new"
  /\ Goto(c, "boss")
  /\ UNCHANGED <<hits, who, defeated, reward, fresh, claims, pending>>

\* ClaimBasis: SELECT max_hp, state.
ReadBoss(c) ==
  /\ pc[c] = "boss"
  /\ Goto(c, IF seeded THEN "share" ELSE "notfound")
  /\ defeated' = [defeated EXCEPT ![c] = ledger.state = "defeated"]
  /\ UNCHANGED <<hits, who, reward, fresh, claims, pending>>

\* Mutants: the state is not looked at; a player without a row gets a reward.
ReadShare_NoGate(c) ==
  LET total == ledger.contrib[who[c]]
  IN  /\ pc[c] = "share"
      /\ IF total = 0
           THEN Goto(c, "nocontribution") /\ UNCHANGED reward
           ELSE Goto(c, "insert") /\ reward' = [reward EXCEPT ![c] = Price(total)]
      /\ UNCHANGED <<hits, who, defeated, fresh, claims, pending>>

ReadShare_NoShareCheck(c) ==
  LET total == ledger.contrib[who[c]]
  IN  /\ pc[c] = "share"
      /\ IF defeated[c]
           THEN Goto(c, "insert") /\ reward' = [reward EXCEPT ![c] = Price(total)]
           ELSE Goto(c, "notdefeated") /\ UNCHANGED reward
      /\ UNCHANGED <<hits, who, defeated, fresh, claims, pending>>

\* ClaimBasis: SELECT total_damage.  The checks of Claim follow; a reward is
\* priced if they pass.
ReadShare(c) ==
  LET total == ledger.contrib[who[c]]
  IN  /\ pc[c] = "share"
      /\ \/ ~ defeated[c] /\ Goto(c, "notdefeated") /\ UNCHANGED reward
         \/ defeated[c] /\ total = 0 /\ Goto(c, "nocontribution") /\ UNCHANGED reward
         \/ /\ defeated[c] /\ total > 0
            /\ Goto(c, "insert")
            /\ reward' = [reward EXCEPT ![c] = Price(total)]
      /\ UNCHANGED <<hits, who, defeated, fresh, claims, pending>>

(***************************************************************************)
(* SaveClaim.                                                              *)
(***************************************************************************)
\* Mutants: a SELECT for the row and then an INSERT, without the primary key;
\* ON CONFLICT DO UPDATE.
Insert_NoKey(c) ==
  LET p == who[c]
  IN  /\ pc[c] = "insert"
      /\ IF Claimed(p)
           THEN Goto(c, "readback") /\ UNCHANGED <<pending, fresh>>
           ELSE /\ Goto(c, "commit")
                /\ pending' = [pending EXCEPT ![p] = c]
                /\ fresh' = [fresh EXCEPT ![c] = TRUE]
      /\ UNCHANGED <<hits, who, defeated, reward, claims>>

Insert_Upsert(c) ==
  /\ pc[c] = "insert"
  /\ pending[who[c]] = None
  /\ Goto(c, "commit")
  /\ pending' = [pending EXCEPT ![who[c]] = c]
  /\ fresh' = [fresh EXCEPT ![c] = ~ Claimed(who[c])]
  /\ UNCHANGED <<hits, who, defeated, reward, claims>>

\* INSERT ... ON CONFLICT DO NOTHING: waits for another transaction's row of
\* this player, and inserts unless there is one.
Insert(c) ==
  LET p == who[c]
  IN  /\ pc[c] = "insert"
      /\ pending[p] = None
      /\ IF Claimed(p)
           THEN Goto(c, "readback") /\ UNCHANGED <<pending, fresh>>
           ELSE /\ Goto(c, "commit")
                /\ pending' = [pending EXCEPT ![p] = c]
                /\ fresh' = [fresh EXCEPT ![c] = TRUE]
      /\ UNCHANGED <<hits, who, defeated, reward, claims>>

\* Mutant: the request answers with the reward it has priced itself.
ReadBack_OwnPrice(c) ==
  /\ pc[c] = "readback"
  /\ Goto(c, "commit")
  /\ UNCHANGED <<hits, who, defeated, reward, fresh, claims, pending>>

\* The row that was there decides the answer.
ReadBack(c) ==
  /\ pc[c] = "readback"
  /\ reward' = [reward EXCEPT ![c] = claims[who[c]]]
  /\ Goto(c, "commit")
  /\ UNCHANGED <<hits, who, defeated, fresh, claims, pending>>

\* The transaction of c ends; its row, if it inserted one, is there or not.
Keep(c) ==
  /\ claims' = IF pending[who[c]] = c
                 THEN [claims EXCEPT ![who[c]] = reward[c]] ELSE claims
  /\ pending' = [p \in Players |-> IF pending[p] = c THEN None ELSE pending[p]]

Undo(c) ==
  /\ pending' = [p \in Players |-> IF pending[p] = c THEN None ELSE pending[p]]
  /\ UNCHANGED claims

\* Mutant: no COMMIT, and no deferred rollback.
CommitClaim_Forgotten(c) ==
  /\ pc[c] = "commit"
  /\ Goto(c, "ok")
  /\ UNCHANGED <<hits, who, defeated, reward, fresh, claims, pending>>

CommitClaim(c) ==
  /\ pc[c] = "commit"
  /\ Keep(c)
  /\ Goto(c, "ok")
  /\ UNCHANGED <<hits, who, defeated, reward, fresh>>

(***************************************************************************)
(* The rest of the world.                                                  *)
(***************************************************************************)
Abandon(c) ==
  /\ pc[c] \in Open
  /\ Goto(c, "error")
  /\ UNCHANGED <<hits, who, defeated, reward, fresh, claims, pending>>

\* The transaction of an abandoned request.
Settle(c) ==
  /\ pc[c] = "error"
  /\ pending[who[c]] = c
  /\ Keep(c) \/ Undo(c)
  /\ UNCHANGED <<hits, requests>>

CommitHits(B) ==
  /\ seeded
  /\ B # {} /\ B \cap stored = {}
  /\ ledger' = CommitBatch(ledger, B, player, applied)
  /\ stored' = stored \cup B
  /\ UNCHANGED <<seeded, player, applied, requests, claims, pending>>

Seed ==
  /\ ~ seeded
  /\ seeded' = TRUE
  /\ UNCHANGED <<ledger, stored, player, applied, requests, claims, pending>>

Done ==
  /\ \A c \in Requests : pc[c] \in Closed
  /\ UNCHANGED vars

Claim(c) == \/ ReadBoss(c) \/ ReadShare(c)
            \/ Insert(c) \/ ReadBack(c) \/ CommitClaim(c)

Next ==
  \/ \E c \in Requests : Arrive(c) \/ Claim(c) \/ Abandon(c) \/ Settle(c)
  \/ \E B \in SUBSET Hits : CommitHits(B)
  \/ Seed
  \/ Done

Spec == Init /\ [][Next]_vars

(***************************************************************************)
(* Requests are served, and Postgres ends the transactions it is left      *)
(* with.  No request, no failure, no hit and no boss is owed.              *)
(***************************************************************************)
Fairness == \A c \in Requests : WF_vars(Claim(c)) /\ WF_vars(Settle(c))

FairSpec == Spec /\ Fairness

(***************************************************************************)
(* "duplicates read back the same record and get the identical reward"     *)
(* (ARCHITECT.md): every answer 200 to a player shows the row, although    *)
(* the contributions may have grown between two requests.                  *)
(***************************************************************************)
SameReward ==
  \A c \in Requests : pc[c] = "ok" => Claimed(who[c]) /\ reward[c] = claims[who[c]]

(***************************************************************************)
(* Only one request is told that its reward is new (already_claimed).      *)
(***************************************************************************)
OneGrant ==
  \A c, d \in Requests :
    pc[c] = "ok" /\ pc[d] = "ok" /\ fresh[c] /\ fresh[d] /\ who[c] = who[d] => c = d

(***************************************************************************)
(* A claim "only proceeds once the killing blow is durably committed", by  *)
(* a player who has a share in it (Claim, ClaimBasis: two reads that may   *)
(* lie on both sides of any number of commits).                            *)
(***************************************************************************)
RewardEarned ==
  \A p \in Players :
    Claimed(p) => /\ ledger.state = "defeated"
                  /\ 0 < claims[p].total /\ claims[p].total <= ledger.contrib[p]

(***************************************************************************)
(* As long as no more than MaxHP points are stored (ExactKill), a defeated *)
(* boss has all the hits it will ever have: the reward was priced on the   *)
(* player's final share, in whatever order the batches were committed.     *)
(***************************************************************************)
PricedOnFinalShare ==
  TotalDamage(ledger) <= MaxHP =>
    \A p \in Players : Claimed(p) => claims[p] = Price(ledger.contrib[p])

(***************************************************************************)
(* A claim is never changed or withdrawn (no statement updates the table). *)
(***************************************************************************)
ClaimsStay ==
  [][\A p \in Players : Claimed(p) => claims'[p] = claims[p]]_vars

(***************************************************************************)
(* A request that waits for another's row is answered in the end, whether  *)
(* that transaction commits, fails or is left behind.                      *)
(***************************************************************************)
ClaimAnswered == \A c \in Requests : pc[c] \in Open ~> pc[c] \in Closed
=============================================================================
