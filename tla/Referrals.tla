------------------------------ MODULE Referrals ------------------------------
(***************************************************************************)
(* The referral service: who brought whom, and what that earns.            *)
(*                                                                         *)
(* services/referral_service.ts (registerWithReferralCode,                 *)
(* check24HourCompletion, calculateTaskReward, calculateUptimeReward, the  *)
(* monthly cap) and the cap reset of referral_distribution_service.ts, over *)
(* single Redis keys that are read, changed and written back.              *)
(*                                                                         *)
(* A call is one asynchronous chain: an action is one Redis command with   *)
(* the code up to the next.  Codes stand for their owners; a client that   *)
(* exists is never deleted.  The percentage of a reward that a tier gets   *)
(* is a number of points here; the ledger's answer is ignored by the code. *)
(*                                                                         *)
(* Task rewards come from updateJobCompleted.  Uptime rewards come from    *)
(* processWeeklyUptimeRewards, which at present never finds the minutes it *)
(* looks for: here it is as if getWeeklyUptimeData read the tracker's key. *)
(***************************************************************************)
EXTENDS Naturals, FiniteSets, Sequences

CONSTANTS RefUsers,     \* principals
          RefCalls,     \* call chains
          RefNone,      \* no principal
          RefTaskShare, \* tier -> points a task earns a referrer
          RefWeekShare, \* tier -> points a week's uptime earns a referrer
          RefBonus,     \* points of the installation reward
          RefCap,       \* monthly_cap_amount
          RefMonths,    \* bound: months
          RefCrashes    \* bound: crashes of the server process

RefTiers == {1, 2}

ASSUME ReferralsAssumption ==
    /\ RefNone \notin RefUsers /\ IsFiniteSet(RefCalls)
    /\ RefTaskShare \in [RefTiers -> Nat] /\ RefWeekShare \in [RefTiers -> Nat]
    /\ {RefBonus, RefCap, RefMonths, RefCrashes} \subseteq Nat /\ RefMonths # 0

VARIABLES
    relation,       \* user -> its relationship record
    referrals,      \* tier -> referrer -> index of the users it brought
    pending24h,     \* index of users whose first 24 hours are pending
    totalReferral,  \* user -> count in its client record
    points,         \* user -> what referrals credited to its client record
    recorded,       \* user -> sum of the rewards stored as DISTRIBUTED for it
    monthlyCap,     \* month -> referrer -> its cap record
    month,          \* the current month
    refCall,        \* call -> where it stands and what it read
    weekPoints,     \* month -> referrer -> uptime points credited   (history)
    bonuses,        \* user -> installation rewards credited for it  (history)
    contested,      \* users with two registrations or checks at once (history)
    overlapping,    \* a weekly distribution met another, or a reset  (history)
    refCrashes      \* crashes so far

recordVars == <<relation, referrals, pending24h, totalReferral>>
rewardVars == <<points, recorded, monthlyCap>>
refHistories == <<weekPoints, bonuses, contested, overlapping>>
refVars == <<recordVars, rewardVars, month, refCall, refHistories, refCrashes>>

NoRelation == [chain |-> <<>>, status |-> "none", claimed |-> FALSE]
NoCap == [earned |-> 0, reached |-> FALSE]

\* user: the referee; chain: its referrers; rel: the relationship read; read:
\* the count, balance or cap read; paid: the month of an uptime reward.
RefIdle == [pc |-> "idle", op |-> "none", user |-> RefNone, rel |-> NoRelation, tier |-> 1,
            amount |-> 0, read |-> 0, cap |-> NoCap, paid |-> 1]

RefInit ==
    /\ relation = [u \in RefUsers |-> NoRelation]
    /\ referrals = [t \in RefTiers |-> [u \in RefUsers |-> {}]]
    /\ pending24h = {}
    /\ totalReferral = [u \in RefUsers |-> 0]
    /\ points = [u \in RefUsers |-> 0]
    /\ recorded = [u \in RefUsers |-> 0]
    /\ monthlyCap = [m \in 1 .. RefMonths |-> [u \in RefUsers |-> NoCap]]
    /\ month = 1
    /\ refCall = [c \in RefCalls |-> RefIdle]
    /\ weekPoints = [m \in 1 .. RefMonths |-> [u \in RefUsers |-> 0]]
    /\ bonuses = [u \in RefUsers |-> 0]
    /\ contested = {}
    /\ overlapping = FALSE
    /\ refCrashes = 0

Referrer(c) == refCall[c].rel.chain[refCall[c].tier]
Running(c) == refCall[c].pc \notin {"idle", "done"}
RefDone(c) == refCall' = [refCall EXCEPT ![c] = [RefIdle EXCEPT !.pc = "done"]]
RefGoes(c, pc) == refCall' = [refCall EXCEPT ![c].pc = pc]

\* Registrations and checks of u that are under way besides c's.
Contending(c, u) ==
    \E d \in RefCalls \ {c} :
        Running(d) /\ refCall[d].user = u /\ refCall[d].op \in {"register", "install"}

Distributing == \E c \in RefCalls : Running(c) /\ refCall[c].op = "week"
-----------------------------------------------------------------------------
\* registerWithReferralCode: the code is valid, and its owner is r; nothing
\* keeps r from being u.
RefRegisters(c, u, r) ==
    /\ refCall[c].pc = "idle"
    /\ refCall' = [refCall EXCEPT ![c] = [RefIdle EXCEPT
          !.pc = "exists", !.op = "register", !.user = u, !.rel.chain = <<r>>]]
    /\ contested' = IF Contending(c, u) THEN contested \cup {u} ELSE contested
    /\ UNCHANGED <<recordVars, rewardVars, month, weekPoints, bonuses, overlapping, refCrashes>>

\* "Check if user already has a referral relationship".
RefExists(c) ==
    /\ refCall[c].pc = "exists"
    /\ IF relation[refCall[c].user] # NoRelation THEN RefDone(c) ELSE RefGoes(c, "chain")
    /\ UNCHANGED <<recordVars, rewardVars, month, refHistories, refCrashes>>

\* The referrer's own referrer is the second of the chain, the last within
\* max_tier_depth.
ChainOver(r) == IF relation[r] = NoRelation THEN <<r>> ELSE <<r, relation[r].chain[1]>>

RefBuildsChain(c) ==
    /\ refCall[c].pc = "chain"
    /\ refCall' = [refCall EXCEPT ![c] =
           [@ EXCEPT !.pc = "store",
                     !.rel.chain = ChainOver(refCall[c].rel.chain[1])]]
    /\ UNCHANGED <<recordVars, rewardVars, month, refHistories, refCrashes>>

RefStores(c) ==
    /\ refCall[c].pc = "store"
    /\ relation' = [relation EXCEPT ![refCall[c].user] =
          [chain |-> refCall[c].rel.chain, status |-> "PENDING", claimed |-> FALSE]]
    /\ RefGoes(c, "index")
    /\ UNCHANGED <<referrals, pending24h, totalReferral, rewardVars, month, refHistories,
                   refCrashes>>

\* "Update indexes for all tiers in the chain".  (Mutant first: for the first.)
LastTier_First(c) == 1
LastTier(c) == Len(refCall[c].rel.chain)

RefIndexes(c) ==
    /\ refCall[c].pc = "index"
    /\ referrals' = [referrals EXCEPT ![refCall[c].tier][Referrer(c)] = @ \cup {refCall[c].user}]
    /\ refCall' = [refCall EXCEPT
          ![c] = [@ EXCEPT
             !.tier = IF refCall[c].tier < LastTier(c) THEN refCall[c].tier + 1 ELSE 1,
             !.pc = IF refCall[c].tier < LastTier(c) THEN "index" ELSE "pend"]]
    /\ UNCHANGED <<relation, pending24h, totalReferral, rewardVars, month, refHistories,
                   refCrashes>>

RefPends(c) ==
    /\ refCall[c].pc = "pend"
    /\ pending24h' = pending24h \cup {refCall[c].user}
    /\ RefGoes(c, "referrer")
    /\ UNCHANGED <<relation, referrals, totalReferral, rewardVars, month, refHistories,
                   refCrashes>>

\* "Update referrer's totalReferral count", from a copy read before.
RefReadsCount(c) ==
    /\ refCall[c].pc = "referrer"
    /\ refCall' = [refCall EXCEPT ![c] = [@ EXCEPT !.pc = "count",
                                                   !.read = totalReferral[Referrer(c)]]]
    /\ UNCHANGED <<recordVars, rewardVars, month, refHistories, refCrashes>>

RefCounts(c) ==
    /\ refCall[c].pc = "count"
    /\ totalReferral' = [totalReferral EXCEPT ![Referrer(c)] = refCall[c].read + 1]
    /\ RefDone(c)
    /\ UNCHANGED <<relation, referrals, pending24h, rewardVars, month, refHistories, refCrashes>>
-----------------------------------------------------------------------------
\* "Check if already completed".  (Mutant first: if already paid.)
MayComplete_Unclaimed(rel) == ~ rel.claimed
MayComplete(rel) == rel.status # "COMPLETED"

\* check24HourCompletion of a user with 24 hours, whenever a session ends.
RefChecks(c, u) ==
    /\ refCall[c].pc = "idle"
    /\ relation[u] # NoRelation /\ MayComplete(relation[u])
    /\ refCall' = [refCall EXCEPT ![c] = [RefIdle EXCEPT
          !.pc = "complete", !.op = "install", !.user = u, !.rel = relation[u],
          !.amount = RefBonus]]
    /\ contested' = IF Contending(c, u) THEN contested \cup {u} ELSE contested
    /\ UNCHANGED <<recordVars, rewardVars, month, weekPoints, bonuses, overlapping, refCrashes>>

RefCompletes(c) ==
    /\ refCall[c].pc = "complete"
    /\ relation' = [relation EXCEPT ![refCall[c].user] =
          [refCall[c].rel EXCEPT !.status = "COMPLETED"]]
    /\ RefGoes(c, "unpend")
    /\ UNCHANGED <<referrals, pending24h, totalReferral, rewardVars, month, refHistories,
                   refCrashes>>

RefUnpends(c) ==
    /\ refCall[c].pc = "unpend"
    /\ pending24h' = pending24h \ {refCall[c].user}
    /\ IF refCall[c].rel.claimed THEN RefDone(c) ELSE RefGoes(c, "reward")
    /\ UNCHANGED <<relation, referrals, totalReferral, rewardVars, month, refHistories,
                   refCrashes>>

\* installation_reward_claimed, in the copy read at the start.
RefClaims(c) ==
    /\ refCall[c].pc = "claim"
    /\ relation' = [relation EXCEPT ![refCall[c].user] =
          [refCall[c].rel EXCEPT !.status = "COMPLETED", !.claimed = TRUE]]
    /\ RefDone(c)
    /\ UNCHANGED <<referrals, pending24h, totalReferral, rewardVars, month, refHistories,
                   refCrashes>>
-----------------------------------------------------------------------------
Share(op, tier) == IF op = "task" THEN RefTaskShare[tier] ELSE RefWeekShare[tier]
FirstStep(op) == IF op = "task" THEN "reward" ELSE "cap"

\* calculateTaskReward and calculateUptimeReward, of a user with referrers.
RefEarns(c, u, op) ==
    /\ refCall[c].pc = "idle"
    /\ relation[u] # NoRelation
    /\ refCall' = [refCall EXCEPT ![c] = [RefIdle EXCEPT
          !.pc = FirstStep(op), !.op = op, !.user = u, !.rel = relation[u],
          !.amount = Share(op, 1), !.paid = month]]
    /\ overlapping' = (overlapping \/ (op = "week" /\ Distributing))
    /\ UNCHANGED <<recordVars, rewardVars, month, weekPoints, bonuses, contested, refCrashes>>

\* The next tier of the chain, if there is one.
RefNextTier(c) ==
    LET next == refCall[c].tier + 1
    IN  IF next \in DOMAIN refCall[c].rel.chain
        THEN refCall' = [refCall EXCEPT
               ![c] = [@ EXCEPT !.pc = FirstStep(refCall[c].op), !.tier = next,
                                !.amount = Share(refCall[c].op, next), !.paid = month]]
        ELSE RefDone(c)

\* checkMonthlyCap: CAPPED, the remainder, or all of it.  (Mutant first: all of
\* it unless CAPPED.)
Allowed_Whole(cap, amount) == IF cap.reached THEN 0 ELSE amount
Allowed(cap, amount) ==
    LET remaining == IF cap.earned < RefCap THEN RefCap - cap.earned ELSE 0
    IN  IF cap.reached THEN 0 ELSE IF amount > remaining THEN remaining ELSE amount

RefChecksCap(c) ==
    /\ refCall[c].pc = "cap"
    /\ refCall' = [refCall EXCEPT
          ![c] = [@ EXCEPT
             !.pc = "reward",
             !.amount = Allowed(monthlyCap[refCall[c].paid][Referrer(c)], refCall[c].amount)]]
    /\ UNCHANGED <<recordVars, rewardVars, month, refHistories, refCrashes>>

\* The reward is stored and indexed before it is paid.
RefRecords(c) ==
    /\ refCall[c].pc = "reward"
    /\ recorded' = [recorded EXCEPT ![Referrer(c)] = @ + refCall[c].amount]
    /\ IF refCall[c].op # "week" THEN RefGoes(c, "balance")
       ELSE IF refCall[c].amount > 0 THEN RefGoes(c, "capRead")
       ELSE RefNextTier(c)
    /\ UNCHANGED <<recordVars, points, monthlyCap, month, refHistories, refCrashes>>

\* updateMonthlyCap.
RefReadsCap(c) ==
    /\ refCall[c].pc = "capRead"
    /\ refCall' = [refCall EXCEPT ![c] =
           [@ EXCEPT !.pc = "capWrite",
                     !.cap = monthlyCap[refCall[c].paid][Referrer(c)]]]
    /\ UNCHANGED <<recordVars, rewardVars, month, refHistories, refCrashes>>

RaisedCap(cap, amount) ==
    [earned |-> cap.earned + amount, reached |-> cap.reached \/ cap.earned + amount >= RefCap]

RefRaisesCap(c) ==
    /\ refCall[c].pc = "capWrite"
    /\ monthlyCap' = [monthlyCap EXCEPT ![refCall[c].paid][Referrer(c)] =
                         RaisedCap(refCall[c].cap, refCall[c].amount)]
    /\ RefGoes(c, "balance")
    /\ UNCHANGED <<recordVars, points, recorded, month, refHistories, refCrashes>>

\* "Add points to referrer's balance", from a copy read before.
RefReadsBalance(c) ==
    /\ refCall[c].pc = "balance"
    /\ refCall' = [refCall EXCEPT ![c] = [@ EXCEPT !.pc = "credit",
                                                   !.read = points[Referrer(c)]]]
    /\ UNCHANGED <<recordVars, rewardVars, month, refHistories, refCrashes>>

\* (Mutant first: paid in full, whatever is recorded.)
Credited_Full(c) ==
    IF refCall[c].op = "install" THEN RefBonus ELSE Share(refCall[c].op, refCall[c].tier)
Credited(c) == refCall[c].amount

RefCredits(c) ==
    /\ refCall[c].pc = "credit"
    /\ points' = [points EXCEPT ![Referrer(c)] = refCall[c].read + Credited(c)]
    /\ IF refCall[c].op = "install" THEN RefGoes(c, "claim") ELSE RefNextTier(c)
    /\ weekPoints' = IF refCall[c].op # "week" THEN weekPoints
                     ELSE [weekPoints EXCEPT ![refCall[c].paid][Referrer(c)] = @ + Credited(c)]
    /\ bonuses' = IF refCall[c].op # "install" THEN bonuses
                  ELSE [bonuses EXCEPT ![refCall[c].user] = @ + 1]
    /\ UNCHANGED <<recordVars, recorded, monthlyCap, month, contested, overlapping, refCrashes>>
-----------------------------------------------------------------------------
NewMonth ==
    /\ month < RefMonths
    /\ month' = month + 1
    /\ UNCHANGED <<recordVars, rewardVars, refCall, refHistories, refCrashes>>

\* resetMonthlyCaps deletes the records of earlier months, key by key.
RefResetsCap(m, u) ==
    /\ m < month
    /\ monthlyCap[m][u] # NoCap
    /\ monthlyCap' = [monthlyCap EXCEPT ![m][u] = NoCap]
    /\ overlapping' = (overlapping \/ Distributing)
    /\ UNCHANGED <<recordVars, points, recorded, month, refCall, weekPoints, bonuses, contested,
                   refCrashes>>

\* The process dies: Redis stays, every call chain is gone.
RefCrash ==
    /\ refCrashes < RefCrashes
    /\ refCrashes' = refCrashes + 1
    /\ refCall' = [c \in RefCalls |-> IF Running(c) THEN [RefIdle EXCEPT !.pc = "done"] ELSE refCall[c]]
    /\ UNCHANGED <<recordVars, rewardVars, month, refHistories>>

RegisterStep(c) ==
    \/ RefExists(c) \/ RefBuildsChain(c) \/ RefStores(c) \/ RefIndexes(c) \/ RefPends(c)
    \/ RefReadsCount(c) \/ RefCounts(c)
CheckStep(c) == RefCompletes(c) \/ RefUnpends(c) \/ RefClaims(c)
RewardStep(c) ==
    \/ RefChecksCap(c) \/ RefRecords(c) \/ RefReadsCap(c) \/ RefRaisesCap(c)
    \/ RefReadsBalance(c) \/ RefCredits(c)

RefNext ==
    \/ \E c \in RefCalls :
          \/ \E u, r \in RefUsers : RefRegisters(c, u, r)
          \/ \E u \in RefUsers : RefChecks(c, u) \/ \E op \in {"task", "week"} : RefEarns(c, u, op)
          \/ RegisterStep(c) \/ CheckStep(c) \/ RewardStep(c)
    \/ NewMonth
    \/ \E m \in 1 .. RefMonths, u \in RefUsers : RefResetsCap(m, u)
    \/ RefCrash

RefSpec == RefInit /\ [][RefNext]_refVars
-----------------------------------------------------------------------------
Chains12 == {<<>>} \cup {<<r>> : r \in RefUsers} \cup (RefUsers \X RefUsers)
Relations == [chain : Chains12, status : {"none", "PENDING", "COMPLETED"}, claimed : BOOLEAN]
CapRecords == [earned : Nat, reached : BOOLEAN]
RefCallRecords ==
    [pc : {"idle", "exists", "chain", "store", "index", "pend", "referrer", "count", "complete",
           "unpend", "claim", "cap", "reward", "capRead", "capWrite", "balance", "credit", "done"},
     op : {"none", "register", "install", "task", "week"}, user : RefUsers \cup {RefNone},
     rel : Relations, tier : RefTiers, amount : Nat, read : Nat, cap : CapRecords,
     paid : 1 .. RefMonths]

\* Relationships, caps and calls are well formed, and a chain has a referrer.
RefTypeOK ==
    /\ relation \in [RefUsers -> Relations]
    /\ \A u \in RefUsers : (relation[u].chain = <<>>) = (relation[u].status = "none")
    /\ referrals \in [RefTiers -> [RefUsers -> SUBSET RefUsers]]
    /\ pending24h \in SUBSET RefUsers
    /\ totalReferral \in [RefUsers -> Nat]
    /\ points \in [RefUsers -> Nat] /\ recorded \in [RefUsers -> Nat]
    /\ monthlyCap \in [1 .. RefMonths -> [RefUsers -> CapRecords]]
    /\ month \in 1 .. RefMonths
    /\ refCall \in [RefCalls -> RefCallRecords]
    /\ weekPoints \in [1 .. RefMonths -> [RefUsers -> Nat]]
    /\ bonuses \in [RefUsers -> Nat]
    /\ contested \in SUBSET RefUsers
    /\ overlapping \in BOOLEAN
    /\ refCrashes \in 0 .. RefCrashes

\* Once registrations have ended, a user is listed with every referrer in its
\* relationship, also when two registrations overwrote each other.
ReferralListed ==
    refCrashes = 0 =>
        \A u \in RefUsers :
            (\A c \in RefCalls : Running(c) => refCall[c].user # u \/ refCall[c].op # "register") =>
                \A t \in DOMAIN relation[u].chain : u \in referrals[t][relation[u].chain[t]]

\* "500 points for 24h completion" (db/types.ts), once: through crashes, and
\* however often sessions end, unless two calls for the user overlap.
BonusPaidOnce == \A u \in RefUsers \ contested : bonuses[u] <= 1

\* Rewards are stored before they are paid, and balances are written back from
\* copies: a referrer never has more points than the rewards its dashboard adds
\* up.
PointsAreRecorded == \A u \in RefUsers : points[u] <= recorded[u]

\* monthly_cap_amount: as long as a weekly distribution meets neither another
\* nor a reset, a referrer is not credited more uptime points in a month, across
\* referees, tiers, crashes, resets and the turn of the month.
CapRespected ==
    ~ overlapping => \A m \in 1 .. RefMonths, u \in RefUsers : weekPoints[m][u] <= RefCap
=============================================================================
