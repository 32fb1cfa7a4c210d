-------------------------- MODULE Referrals_proofs --------------------------
(***************************************************************************)
(* Proofs about the two components a node's owner meets: Referrals, for    *)
(* any number of users and of calls, and Sessions, for any number of       *)
(* sockets, frames, principals and restarts.                               *)
(***************************************************************************)
EXTENDS Sessions, Referrals, SumLemmas, TLAPS

RegisterPcs == {"exists", "chain", "store", "index", "pend", "referrer", "count"}
CheckPcs == {"complete", "unpend", "claim"}
CapPcs == {"cap", "capRead", "capWrite"}
RewardPcs == {"reward", "balance", "credit"}
RefPcs == {"idle", "done"} \cup RegisterPcs \cup CheckPcs \cup CapPcs \cup RewardPcs
RefOps == {"none", "register", "install", "task", "week"}

\* What a call under way knows: whom it is for, a chain of referrers, a tier of
\* that chain, and an operation its step belongs to.
Knows(x) ==
    /\ x.user \in RefUsers
    /\ x.rel.chain # <<>>
    /\ x.tier \in DOMAIN x.rel.chain
    /\ x.paid <= month
    /\ x.pc \in RegisterPcs => x.op = "register" /\ (x.pc # "index" => x.tier = 1)
    /\ x.pc \in CheckPcs => x.op = "install"
    /\ x.pc \in CapPcs => x.op = "week"
    /\ x.pc \in RewardPcs => x.op \in {"install", "task", "week"}
CallsKnow == \A c \in RefCalls : Running(c) => Knows(refCall[c])

\* A relationship without referrers is none at all.
RelationKnown == \A u \in RefUsers : relation[u].chain = <<>> => relation[u] = NoRelation

IInv == RefTypeOK /\ CallsKnow /\ RelationKnown

-----------------------------------------------------------------------------
\* A chain that is not empty has a first referrer, and only users in it.
LEMMA ChainFacts ==
    ASSUME NEW s \in Chains12, s # <<>>
    PROVE  /\ Len(s) \in RefTiers /\ DOMAIN s = 1 .. Len(s)
           /\ 1 \in DOMAIN s
           /\ \A t \in DOMAIN s : t \in RefTiers /\ s[t] \in RefUsers
<1>1. CASE \E r \in RefUsers : s = <<r>>
  BY <1>1 DEF RefTiers
<1>2. CASE s \in RefUsers \X RefUsers
  <2>1. PICK a \in RefUsers, b \in RefUsers : s = <<a, b>>
    BY <1>2
  <2> QED
    BY <2>1 DEF RefTiers
<1> QED
  BY <1>1, <1>2 DEF Chains12

LEMMA ChainsBuilt ==
    ASSUME NEW r \in RefUsers
    PROVE  /\ <<r>> \in Chains12 /\ <<r>> # <<>> /\ <<r>>[1] = r
           /\ \A q \in RefUsers : <<r, q>> \in Chains12 /\ <<r, q>> # <<>>
<1>1. <<r>> # <<>> /\ \A q \in RefUsers : <<r, q>> # <<>>
  BY SMT
<1> QED
  BY <1>1 DEF Chains12

LEMMA OverType ==
    ASSUME IInv, NEW r \in RefUsers
    PROVE  ChainOver(r) \in Chains12 /\ ChainOver(r) # <<>>
<1>1. CASE relation[r] = NoRelation
  BY <1>1, ChainsBuilt DEF ChainOver
<1>2. CASE relation[r] # NoRelation
  <2>1. relation[r].chain \in Chains12 /\ relation[r].chain # <<>>
    BY <1>2 DEF IInv, RefTypeOK, RelationKnown, Relations
  <2>2. relation[r].chain[1] \in RefUsers
    BY <2>1, ChainFacts
  <2> QED
    BY <1>2, <2>2, ChainsBuilt DEF ChainOver
<1> QED
  BY <1>1, <1>2

\* The fields of a call's record.
LEMMA CallFields ==
    ASSUME NEW x \in RefCallRecords
    PROVE  /\ x.pc \in RefPcs /\ x.op \in RefOps /\ x.user \in RefUsers \cup {RefNone}
           /\ x.rel \in Relations /\ x.tier \in RefTiers /\ x.amount \in Nat /\ x.read \in Nat
           /\ x.cap \in CapRecords /\ x.paid \in 1 .. RefMonths
BY DEF RefCallRecords, RefPcs, RegisterPcs, CheckPcs, CapPcs, RewardPcs, RefOps

\* A record stays one of a call's records when a field takes a value of its type,
\* and the other fields stay as they were.
LEMMA PutTier ==
    ASSUME NEW x \in RefCallRecords, NEW t \in RefTiers, NEW z, z = [x EXCEPT !.tier = t]
    PROVE  /\ z \in RefCallRecords /\ z.tier = t
           /\ z.pc = x.pc /\ z.op = x.op /\ z.user = x.user /\ z.rel = x.rel
           /\ z.amount = x.amount /\ z.paid = x.paid
BY DEF RefCallRecords

LEMMA PutPc ==
    ASSUME NEW x \in RefCallRecords, NEW pc \in RefPcs, NEW z, z = [x EXCEPT !.pc = pc]
    PROVE  /\ z \in RefCallRecords /\ z.pc = pc
           /\ z.op = x.op /\ z.user = x.user /\ z.rel = x.rel
           /\ z.tier = x.tier /\ z.amount = x.amount /\ z.paid = x.paid
BY DEF RefCallRecords, RefPcs, RegisterPcs, CheckPcs, CapPcs, RewardPcs

LEMMA PutRel ==
    ASSUME NEW x \in RefCallRecords, NEW r \in Relations, NEW z, z = [x EXCEPT !.rel = r]
    PROVE  /\ z \in RefCallRecords /\ z.rel = r
           /\ z.pc = x.pc /\ z.op = x.op /\ z.user = x.user
           /\ z.tier = x.tier /\ z.amount = x.amount /\ z.paid = x.paid
BY DEF RefCallRecords

LEMMA PutAmount ==
    ASSUME NEW x \in RefCallRecords, NEW a \in Nat, NEW z, z = [x EXCEPT !.amount = a]
    PROVE  /\ z \in RefCallRecords /\ z.amount = a
           /\ z.pc = x.pc /\ z.op = x.op /\ z.user = x.user /\ z.rel = x.rel
           /\ z.tier = x.tier /\ z.paid = x.paid
BY DEF RefCallRecords

LEMMA PutPaid ==
    ASSUME NEW x \in RefCallRecords, NEW m \in 1 .. RefMonths, NEW z, z = [x EXCEPT !.paid = m]
    PROVE  /\ z \in RefCallRecords /\ z.paid = m
           /\ z.pc = x.pc /\ z.op = x.op /\ z.user = x.user /\ z.rel = x.rel
           /\ z.tier = x.tier /\ z.amount = x.amount
BY DEF RefCallRecords

\* What a call under way knows, with what its record's type says.
LEMMA Running1 ==
    ASSUME IInv, NEW c \in RefCalls, Running(c)
    PROVE  /\ refCall[c] \in RefCallRecords
           /\ refCall[c].user \in RefUsers
           /\ refCall[c].rel \in Relations /\ refCall[c].rel.chain \in Chains12
           /\ refCall[c].rel.chain # <<>>
           /\ refCall[c].tier \in DOMAIN refCall[c].rel.chain
           /\ refCall[c].tier \in RefTiers
           /\ Referrer(c) \in RefUsers
           /\ refCall[c].paid \in 1 .. RefMonths /\ refCall[c].paid <= month
           /\ Knows(refCall[c])
<1>1. refCall[c] \in RefCallRecords /\ Knows(refCall[c])
  BY DEF IInv, RefTypeOK, CallsKnow
<1>2. refCall[c].rel \in Relations /\ refCall[c].rel.chain \in Chains12
  BY <1>1, CallFields DEF Relations
<1> QED
  BY <1>1, <1>2, CallFields, ChainFacts DEF Knows, Referrer

\* A step that gives one call another record.
LEMMA CallMoves ==
    ASSUME IInv, NEW c \in RefCalls, NEW x \in RefCallRecords,
           x.pc \notin {"idle", "done"} => Knows(x),
           refCall' = [refCall EXCEPT ![c] = x], month' = month
    PROVE  /\ refCall' \in [RefCalls -> RefCallRecords]
           /\ CallsKnow'
           /\ refCall'[c] = x
           /\ \A d \in RefCalls \ {c} : refCall'[d] = refCall[d]
<1>1. refCall \in [RefCalls -> RefCallRecords]
  BY DEF IInv, RefTypeOK
<1>2. /\ refCall' \in [RefCalls -> RefCallRecords]
      /\ refCall'[c] = x
      /\ \A d \in RefCalls \ {c} : refCall'[d] = refCall[d]
  BY <1>1
<1>3. ASSUME NEW d \in RefCalls, Running(d)' PROVE Knows(refCall[d])'
  <2>1. CASE d = c
    BY <2>1, <1>2, <1>3 DEF Running, Knows
  <2>2. CASE d # c
    BY <2>2, <1>2, <1>3 DEF Running, Knows, IInv, CallsKnow
  <2> QED
    BY <2>1, <2>2
<1> QED
  BY <1>2, <1>3 DEF CallsKnow

LEMMA IdleType ==
    /\ RefIdle \in RefCallRecords
    /\ NoRelation \in Relations /\ NoCap \in CapRecords
    /\ RefIdle.pc = "idle" /\ RefIdle.tier = 1 /\ RefIdle.amount = 0 /\ RefIdle.rel = NoRelation
    /\ RefIdle.op = "none"
    /\ NoRelation.chain = <<>> /\ NoRelation.status = "none"
<1>1. NoRelation \in Relations /\ NoCap \in CapRecords
  BY DEF NoRelation, Relations, Chains12, NoCap, CapRecords
<1>2. 1 \in 1 .. RefMonths
  BY ReferralsAssumption
<1>3. RefIdle \in RefCallRecords
  BY <1>1, <1>2 DEF RefIdle, RefCallRecords, RefTiers
<1>4. NoRelation.chain = <<>> /\ NoRelation.status = "none"
  BY DEF NoRelation
<1> QED
  BY <1>1, <1>3, <1>4 DEF RefIdle

LEMMA DonePreserves ==
    ASSUME IInv, NEW c \in RefCalls, RefDone(c), month' = month
    PROVE  /\ refCall' \in [RefCalls -> RefCallRecords] /\ CallsKnow'
           /\ refCall'[c].pc = "done"
           /\ \A d \in RefCalls \ {c} : refCall'[d] = refCall[d]
<1> DEFINE x == [RefIdle EXCEPT !.pc = "done"]
<1>1. x \in RefCallRecords /\ x.pc = "done"
  BY IdleType DEF RefCallRecords
<1>2. refCall' = [refCall EXCEPT ![c] = x]
  BY DEF RefDone
<1> HIDE DEF x
<1> QED
  BY <1>1, <1>2, CallMoves

\* A step that moves one call to another place in its operation.
Fits(x, pc) ==
    /\ pc \in RegisterPcs => x.op = "register" /\ (pc # "index" => x.tier = 1)
    /\ pc \in CheckPcs => x.op = "install"
    /\ pc \in CapPcs => x.op = "week"
    /\ pc \in RewardPcs => x.op \in {"install", "task", "week"}

LEMMA GoesPreserves ==
    ASSUME IInv, NEW c \in RefCalls, NEW pc \in RefPcs, Running(c), Fits(refCall[c], pc),
           RefGoes(c, pc), month' = month
    PROVE  /\ refCall' \in [RefCalls -> RefCallRecords] /\ CallsKnow'
           /\ refCall'[c] = [refCall[c] EXCEPT !.pc = pc]
           /\ \A d \in RefCalls \ {c} : refCall'[d] = refCall[d]
<1> DEFINE x == [refCall[c] EXCEPT !.pc = pc]
<1>1. refCall[c] \in RefCallRecords /\ Knows(refCall[c])
  BY Running1
<1>2. x \in RefCallRecords
  BY <1>1 DEF RefCallRecords, RefPcs, RegisterPcs, CheckPcs, CapPcs, RewardPcs
<1>3. Knows(x)
  BY <1>1, CallFields DEF RefCallRecords, Knows, Fits
<1>4. refCall' = [refCall EXCEPT ![c] = x]
  BY DEF RefGoes
<1> QED
  <2> HIDE DEF x
  <2>1. /\ refCall' \in [RefCalls -> RefCallRecords] /\ CallsKnow'
        /\ refCall'[c] = x
        /\ \A d \in RefCalls \ {c} : refCall'[d] = refCall[d]
    BY <1>2, <1>3, <1>4, CallMoves
  <2> QED
    BY <2>1 DEF x

LEMMA InitIInv == RefInit => IInv
<1> SUFFICES ASSUME RefInit PROVE IInv
  OBVIOUS
<1>1. RefTypeOK
  <2>1. month \in 1 .. RefMonths /\ refCrashes \in 0 .. RefCrashes /\ 0 \in Nat
    BY ReferralsAssumption DEF RefInit
  <2>2. /\ relation \in [RefUsers -> Relations]
        /\ monthlyCap \in [1 .. RefMonths -> [RefUsers -> CapRecords]]
        /\ refCall \in [RefCalls -> RefCallRecords]
    BY IdleType DEF RefInit
  <2>3. \A u \in RefUsers : (relation[u].chain = <<>>) = (relation[u].status = "none")
    BY IdleType DEF RefInit
  <2> QED
    BY <2>1, <2>2, <2>3 DEF RefInit, RefTypeOK
<1>2. CallsKnow
  BY IdleType DEF RefInit, CallsKnow, Running
<1>3. RelationKnown
  BY DEF RefInit, RelationKnown
<1> QED
  BY <1>1, <1>2, <1>3 DEF IInv

\* Steps that change calls and histories only.
LEMMA CallsOnly ==
    ASSUME IInv, refCall' \in [RefCalls -> RefCallRecords], CallsKnow',
           UNCHANGED <<recordVars, rewardVars, month, weekPoints, bonuses, refCrashes>>,
           contested' \in SUBSET RefUsers, overlapping' \in BOOLEAN
    PROVE  IInv'
<1>1. RefTypeOK'
  BY DEF IInv, RefTypeOK, recordVars, rewardVars
<1>2. RelationKnown'
  BY DEF IInv, RelationKnown, recordVars
<1> QED
  BY <1>1, <1>2 DEF IInv

\* Steps that change calls and relationships only.
LEMMA CallsAndRelation ==
    ASSUME IInv, refCall' \in [RefCalls -> RefCallRecords], CallsKnow',
           NEW u \in RefUsers, NEW rel \in Relations, rel.chain # <<>>, rel.status # "none",
           relation' = [relation EXCEPT ![u] = rel],
           UNCHANGED <<referrals, pending24h, totalReferral, rewardVars, month, refHistories,
                       refCrashes>>
    PROVE  IInv' /\ relation'[u] = rel /\ \A v \in RefUsers \ {u} : relation'[v] = relation[v]
<1>1. /\ relation' \in [RefUsers -> Relations]
      /\ relation'[u] = rel /\ \A v \in RefUsers \ {u} : relation'[v] = relation[v]
  BY DEF IInv, RefTypeOK
<1>2. \A v \in RefUsers : (relation'[v].chain = <<>>) = (relation'[v].status = "none")
  <2> SUFFICES ASSUME NEW v \in RefUsers
               PROVE  (relation'[v].chain = <<>>) = (relation'[v].status = "none")
    OBVIOUS
  <2>1. CASE v = u
    BY <2>1, <1>1
  <2>2. CASE v # u
    BY <2>2, <1>1 DEF IInv, RefTypeOK
  <2> QED
    BY <2>1, <2>2
<1>3. RefTypeOK'
  BY <1>1, <1>2 DEF IInv, RefTypeOK, rewardVars, refHistories
<1>4. RelationKnown'
  <2>1. \A v \in RefUsers : relation'[v].chain = <<>> => v # u
    BY <1>1
  <2> QED
    BY <2>1, <1>1 DEF IInv, RelationKnown
<1> QED
  BY <1>1, <1>3, <1>4 DEF IInv

-----------------------------------------------------------------------------
\* One lemma per action.
LEMMA RegistersPreserves ==
    ASSUME IInv, NEW c \in RefCalls, NEW u \in RefUsers, NEW r \in RefUsers, RefRegisters(c, u, r)
    PROVE  /\ IInv'
           /\ Running(c)' /\ refCall'[c].op = "register" /\ refCall'[c].user = u
           /\ refCall'[c].pc = "exists"
           /\ \A d \in RefCalls \ {c} : refCall'[d] = refCall[d]
<1> DEFINE x == [RefIdle EXCEPT !.pc = "exists", !.op = "register", !.user = u,
                                !.rel.chain = <<r>>]
<1>1. [NoRelation EXCEPT !.chain = <<r>>] \in Relations
  BY ChainsBuilt DEF NoRelation, Relations
<1>2. /\ x = [RefIdle EXCEPT !.pc = "exists", !.op = "register", !.user = u,
                             !.rel = [NoRelation EXCEPT !.chain = <<r>>]]
      /\ x.rel.chain = <<r>> /\ x.pc = "exists" /\ x.op = "register" /\ x.user = u /\ x.tier = 1
      /\ x.paid = 1
  BY DEF RefIdle, NoRelation
<1>3. x \in RefCallRecords
  BY <1>1, <1>2, IdleType DEF RefCallRecords
<1>4. Knows(x)
  <2>1. 1 \in DOMAIN <<r>> /\ <<r>> # <<>>
    BY ChainsBuilt, ChainFacts
  <2>2. 1 <= month
    BY ReferralsAssumption DEF IInv, RefTypeOK
  <2> QED
    BY <1>2, <2>1, <2>2 DEF Knows, RegisterPcs, CheckPcs, CapPcs, RewardPcs
<1>5. refCall' = [refCall EXCEPT ![c] = x] /\ month' = month
  BY DEF RefRegisters
<1>6. contested' \in SUBSET RefUsers
  BY DEF RefRegisters, IInv, RefTypeOK
<1> HIDE DEF x
<1>7. /\ refCall' \in [RefCalls -> RefCallRecords] /\ CallsKnow' /\ refCall'[c] = x
      /\ \A d \in RefCalls \ {c} : refCall'[d] = refCall[d]
  BY <1>3, <1>4, <1>5, CallMoves
<1> QED
  BY <1>2, <1>6, <1>7, CallsOnly DEF RefRegisters, Running, IInv, RefTypeOK

LEMMA ExistsPreserves ==
    ASSUME IInv, NEW c \in RefCalls, RefExists(c)
    PROVE  /\ IInv'
           /\ \A d \in RefCalls \ {c} : refCall'[d] = refCall[d]
           /\ \/ refCall'[c].pc = "done"
              \/ /\ relation[refCall[c].user] = NoRelation
                 /\ refCall'[c] = [refCall[c] EXCEPT !.pc = "chain"]
<1>1. Running(c) /\ Fits(refCall[c], "chain")
  BY Running1 DEF RefExists, Running, Knows, Fits, RegisterPcs, CheckPcs, CapPcs, RewardPcs
<1>2. /\ refCall' \in [RefCalls -> RefCallRecords] /\ CallsKnow'
      /\ \A d \in RefCalls \ {c} : refCall'[d] = refCall[d]
      /\ \/ refCall'[c].pc = "done"
         \/ /\ relation[refCall[c].user] = NoRelation
            /\ refCall'[c] = [refCall[c] EXCEPT !.pc = "chain"]
  <2>1. CASE RefDone(c)
    BY <2>1, DonePreserves DEF RefExists
  <2>2. CASE RefGoes(c, "chain") /\ relation[refCall[c].user] = NoRelation
    BY <2>2, <1>1, GoesPreserves DEF RefExists, RefPcs, RegisterPcs
  <2> QED
    BY <2>1, <2>2 DEF RefExists
<1> QED
  BY <1>2, CallsOnly DEF RefExists, refHistories, IInv, RefTypeOK

LEMMA BuildsChainPreserves ==
    ASSUME IInv, NEW c \in RefCalls, RefBuildsChain(c)
    PROVE  /\ IInv'
           /\ \A d \in RefCalls \ {c} : refCall'[d] = refCall[d]
           /\ Running(c)' /\ refCall'[c].pc = "store" /\ refCall'[c].tier = 1
           /\ refCall'[c].op = "register" /\ refCall'[c].user = refCall[c].user
<1> DEFINE ch == ChainOver(refCall[c].rel.chain[1])
           y == [refCall[c].rel EXCEPT !.chain = ch]
           x == [refCall[c] EXCEPT !.pc = "store", !.rel = y]
<1>1. Running(c) /\ refCall[c].tier = 1 /\ refCall[c].op = "register"
  BY Running1 DEF RefBuildsChain, Running, Knows, RegisterPcs
<1>2. ch \in Chains12 /\ ch # <<>>
  <2>1. refCall[c].rel.chain[1] \in RefUsers
    BY <1>1, Running1, ChainFacts
  <2> QED
    BY <2>1, OverType
<1> HIDE DEF ch
<1>3. y \in Relations /\ y.chain = ch
  <2>1. refCall[c].rel \in Relations
    BY <1>1, Running1
  <2> QED
    BY <1>2, <2>1 DEF Relations
<1>4. x \in RefCallRecords /\ x.rel = y
  <2> HIDE DEF y
  <2>1. refCall[c] \in RefCallRecords
    BY <1>1, Running1
  <2>2. PICK one : one = [refCall[c] EXCEPT !.pc = "store"]
    OBVIOUS
  <2>3. one \in RefCallRecords
    BY <2>1, <2>2, PutPc DEF RefPcs, RegisterPcs
  <2>4. x = [one EXCEPT !.rel = y]
    BY <2>2
  <2> HIDE DEF x
  <2> QED
    BY <1>3, <2>3, <2>4, PutRel
<1>5. Knows(x)
  <2> HIDE DEF y
  <2>1. 1 \in DOMAIN ch
    BY <1>2, ChainFacts
  <2>2. /\ x.pc = "store" /\ x.op = "register" /\ x.user = refCall[c].user /\ x.tier = 1
        /\ x.paid = refCall[c].paid
    BY <1>1, Running1 DEF RefCallRecords
  <2> QED
    BY <1>1, <1>2, <1>3, <1>4, <2>1, <2>2, Running1
       DEF Knows, RegisterPcs, CheckPcs, CapPcs, RewardPcs
<1>6. refCall' = [refCall EXCEPT ![c] = x]
  <2>1. refCall[c] \in RefCallRecords /\ refCall \in [RefCalls -> RefCallRecords]
    BY <1>1, Running1 DEF IInv, RefTypeOK
  <2>2. PICK g : g = [refCall[c] EXCEPT !.pc = "store"]
    OBVIOUS
  <2>3. g \in RefCallRecords /\ g.rel = refCall[c].rel
    BY <2>1, <2>2, PutPc DEF RefPcs, RegisterPcs
  <2>4. refCall' = [refCall EXCEPT ![c] = [g EXCEPT !.rel.chain = ch]]
    BY <2>1, <2>2, <2>3 DEF RefBuildsChain, ch
  <2>5. x = [g EXCEPT !.rel = y]
    BY <2>2
  <2>6. [g EXCEPT !.rel.chain = ch] = [g EXCEPT !.rel = y]
    BY <2>3
  <2> HIDE DEF x, y
  <2> QED
    BY <2>4, <2>5, <2>6
<1> HIDE DEF y
<1>7. x.pc = "store" /\ x.tier = 1 /\ x.op = "register" /\ x.user = refCall[c].user
  BY <1>1, Running1 DEF RefCallRecords
<1> HIDE DEF x
<1>8. /\ refCall' \in [RefCalls -> RefCallRecords] /\ CallsKnow' /\ refCall'[c] = x
      /\ \A d \in RefCalls \ {c} : refCall'[d] = refCall[d]
  BY <1>4, <1>5, <1>6, CallMoves DEF RefBuildsChain
<1> QED
  BY <1>7, <1>8, CallsOnly DEF RefBuildsChain, refHistories, Running, IInv, RefTypeOK

LEMMA StoresPreserves ==
    ASSUME IInv, NEW c \in RefCalls, RefStores(c)
    PROVE  /\ IInv'
           /\ refCall'[c] = [refCall[c] EXCEPT !.pc = "index"]
           /\ \A d \in RefCalls \ {c} : refCall'[d] = refCall[d]
           /\ relation'[refCall[c].user] =
                 [chain |-> refCall[c].rel.chain, status |-> "PENDING", claimed |-> FALSE]
           /\ \A v \in RefUsers \ {refCall[c].user} : relation'[v] = relation[v]
<1> DEFINE rel == [chain |-> refCall[c].rel.chain, status |-> "PENDING", claimed |-> FALSE]
<1>1. Running(c) /\ Fits(refCall[c], "index")
  BY Running1 DEF RefStores, Running, Knows, Fits, RegisterPcs, CheckPcs, CapPcs, RewardPcs
<1>2. /\ refCall' \in [RefCalls -> RefCallRecords] /\ CallsKnow'
      /\ refCall'[c] = [refCall[c] EXCEPT !.pc = "index"]
      /\ \A d \in RefCalls \ {c} : refCall'[d] = refCall[d]
  BY <1>1, GoesPreserves DEF RefStores, RefPcs, RegisterPcs
<1>3. rel \in Relations /\ rel.chain # <<>> /\ rel.status # "none"
  BY <1>1, Running1 DEF Relations
<1>4. relation' = [relation EXCEPT ![refCall[c].user] = rel] /\ refCall[c].user \in RefUsers
  BY <1>1, Running1 DEF RefStores
<1> HIDE DEF rel
<1>5. /\ IInv' /\ relation'[refCall[c].user] = rel
      /\ \A v \in RefUsers \ {refCall[c].user} : relation'[v] = relation[v]
  BY <1>2, <1>3, <1>4, CallsAndRelation DEF RefStores
<1> QED
  BY <1>2, <1>5 DEF rel

\* Steps that leave the relationships alone.
LEMMA RelationKept ==
    ASSUME IInv, refCall' \in [RefCalls -> RefCallRecords], CallsKnow',
           UNCHANGED <<relation, refCrashes>>,
           referrals' \in [RefTiers -> [RefUsers -> SUBSET RefUsers]],
           pending24h' \in SUBSET RefUsers, totalReferral' \in [RefUsers -> Nat],
           points' \in [RefUsers -> Nat], recorded' \in [RefUsers -> Nat],
           monthlyCap' \in [1 .. RefMonths -> [RefUsers -> CapRecords]],
           weekPoints' \in [1 .. RefMonths -> [RefUsers -> Nat]],
           bonuses' \in [RefUsers -> Nat],
           UNCHANGED <<month, contested>>, overlapping' \in BOOLEAN
    PROVE  IInv'
<1>1. RefTypeOK'
  BY DEF IInv, RefTypeOK
<1>2. RelationKnown'
  BY DEF IInv, RelationKnown
<1> QED
  BY <1>1, <1>2 DEF IInv

LEMMA IndexesPreserves ==
    ASSUME IInv, NEW c \in RefCalls, RefIndexes(c)
    PROVE  /\ IInv'
           /\ Running(c)' /\ refCall'[c].op = "register" /\ refCall'[c].user = refCall[c].user
           /\ refCall'[c].rel = refCall[c].rel
           /\ \A t \in DOMAIN refCall[c].rel.chain : refCall[c].tier < t =>
                 refCall'[c].pc = "index" /\ refCall'[c].tier = refCall[c].tier + 1
           /\ refCall'[c].pc \in {"index", "pend"}
           /\ \A d \in RefCalls \ {c} : refCall'[d] = refCall[d]
           /\ referrals' \in [RefTiers -> [RefUsers -> SUBSET RefUsers]]
           /\ refCall[c].user \in referrals'[refCall[c].tier][Referrer(c)]
           /\ \A t \in RefTiers, r \in RefUsers : referrals[t][r] \subseteq referrals'[t][r]
<1> DEFINE k == refCall[c].tier
           more == k < LastTier(c)
           x == [refCall[c] EXCEPT !.tier = IF more THEN k + 1 ELSE 1,
                                   !.pc = IF more THEN "index" ELSE "pend"]
<1>1. Running(c) /\ refCall[c].op = "register"
  BY Running1 DEF RefIndexes, Running, Knows, RegisterPcs
<1>2. /\ Len(refCall[c].rel.chain) \in RefTiers
      /\ DOMAIN refCall[c].rel.chain = 1 .. Len(refCall[c].rel.chain)
      /\ 1 \in DOMAIN refCall[c].rel.chain
      /\ k \in DOMAIN refCall[c].rel.chain
      /\ \A t \in DOMAIN refCall[c].rel.chain : t \in RefTiers
  BY <1>1, Running1, ChainFacts
<1>3. /\ more => k + 1 \in DOMAIN refCall[c].rel.chain
      /\ \A t \in DOMAIN refCall[c].rel.chain : k < t => more
  BY <1>2 DEF LastTier, RefTiers
<1>4. x \in RefCallRecords /\ x.pc \in {"index", "pend"}
      /\ x.tier = (IF more THEN k + 1 ELSE 1) /\ x.pc = (IF more THEN "index" ELSE "pend")
      /\ x.user = refCall[c].user /\ x.rel = refCall[c].rel /\ x.op = "register"
      /\ x.paid = refCall[c].paid
  <2>1. (IF more THEN k + 1 ELSE 1) \in RefTiers
    BY <1>2, <1>3
  <2>2. PICK t \in RefTiers : t = IF more THEN k + 1 ELSE 1
    BY <2>1
  <2>3. PICK pc \in {"index", "pend"} : pc = IF more THEN "index" ELSE "pend"
    OBVIOUS
  <2>4. PICK one : one = [refCall[c] EXCEPT !.tier = t]
    OBVIOUS
  <2>5. refCall[c] \in RefCallRecords
    BY <1>1, Running1
  <2>6. /\ one \in RefCallRecords /\ one.tier = t /\ one.op = refCall[c].op
        /\ one.user = refCall[c].user /\ one.rel = refCall[c].rel /\ one.paid = refCall[c].paid
    BY <2>4, <2>5, PutTier
  <2>7. x = [one EXCEPT !.pc = pc]
    BY <2>2, <2>3, <2>4
  <2>8. pc \in RefPcs
    BY DEF RefPcs, RegisterPcs
  <2> HIDE DEF more, x
  <2> QED
    BY <1>1, <2>2, <2>3, <2>6, <2>7, <2>8, PutPc
<1>5. Knows(x)
  <2>1. x.tier \in DOMAIN refCall[c].rel.chain
    BY <1>2, <1>3, <1>4
  <2>2. x.pc \notin CapPcs \cup RewardPcs \cup CheckPcs
    BY <1>4 DEF CapPcs, RewardPcs, CheckPcs
  <2> HIDE DEF more, x
  <2>3. Knows(refCall[c]) /\ refCall[c].op = "register"
    BY <1>1, Running1
  <2> QED
    BY <1>4, <2>1, <2>2, <2>3 DEF Knows, RegisterPcs
<1>6. refCall' = [refCall EXCEPT ![c] = x]
  BY <1>1, Running1 DEF RefIndexes, IInv, RefTypeOK, RefCallRecords
<1> HIDE DEF x
<1>7. /\ refCall' \in [RefCalls -> RefCallRecords] /\ CallsKnow' /\ refCall'[c] = x
      /\ \A d \in RefCalls \ {c} : refCall'[d] = refCall[d]
  BY <1>4, <1>5, <1>6, CallMoves DEF RefIndexes
<1>8. /\ referrals' \in [RefTiers -> [RefUsers -> SUBSET RefUsers]]
      /\ refCall[c].user \in referrals'[refCall[c].tier][Referrer(c)]
      /\ \A t \in RefTiers, r \in RefUsers : referrals[t][r] \subseteq referrals'[t][r]
  <2>1. /\ referrals \in [RefTiers -> [RefUsers -> SUBSET RefUsers]]
        /\ k \in RefTiers /\ Referrer(c) \in RefUsers /\ refCall[c].user \in RefUsers
    BY <1>1, Running1 DEF IInv, RefTypeOK
  <2>2. referrals' = [referrals EXCEPT ![k][Referrer(c)] = @ \cup {refCall[c].user}]
    BY DEF RefIndexes
  <2> HIDE DEF k
  <2>3. /\ referrals'[k] = [referrals[k] EXCEPT ![Referrer(c)] = @ \cup {refCall[c].user}]
        /\ \A t \in RefTiers \ {k} : referrals'[t] = referrals[t]
        /\ referrals' \in [RefTiers -> [RefUsers -> SUBSET RefUsers]]
    BY <2>1, <2>2
  <2>4. referrals[k] \in [RefUsers -> SUBSET RefUsers]
    BY <2>1
  <2>5. /\ refCall[c].user \in referrals'[k][Referrer(c)]
        /\ \A r \in RefUsers : referrals[k][r] \subseteq referrals'[k][r]
    BY <2>1, <2>3, <2>4
  <2> QED
    BY <2>3, <2>5 DEF k
<1>9. IInv'
  BY <1>7, <1>8, RelationKept DEF RefIndexes, rewardVars, refHistories, IInv, RefTypeOK
<1> QED
  BY <1>3, <1>4, <1>7, <1>8, <1>9 DEF Running

LEMMA PendsPreserves ==
    ASSUME IInv, NEW c \in RefCalls, RefPends(c)
    PROVE  /\ IInv'
           /\ refCall'[c] = [refCall[c] EXCEPT !.pc = "referrer"]
           /\ \A d \in RefCalls \ {c} : refCall'[d] = refCall[d]
<1>1. Running(c) /\ Fits(refCall[c], "referrer")
  BY Running1 DEF RefPends, Running, Knows, Fits, RegisterPcs, CheckPcs, CapPcs, RewardPcs
<1>2. /\ refCall' \in [RefCalls -> RefCallRecords] /\ CallsKnow'
      /\ refCall'[c] = [refCall[c] EXCEPT !.pc = "referrer"]
      /\ \A d \in RefCalls \ {c} : refCall'[d] = refCall[d]
  BY <1>1, GoesPreserves DEF RefPends, RefPcs, RegisterPcs
<1>3. pending24h' \in SUBSET RefUsers
  BY <1>1, Running1 DEF RefPends, IInv, RefTypeOK
<1> QED
  BY <1>2, <1>3, RelationKept DEF RefPends, rewardVars, refHistories, IInv, RefTypeOK

\* Both reads before a write back: of the count, and of the balance.
LEMMA ReadsPreserves ==
    ASSUME IInv, NEW c \in RefCalls, Running(c), NEW pc \in RefPcs, NEW n \in Nat,
           Fits(refCall[c], pc), month' = month,
           refCall' = [refCall EXCEPT ![c] = [@ EXCEPT !.pc = pc, !.read = n]]
    PROVE  /\ refCall' \in [RefCalls -> RefCallRecords] /\ CallsKnow'
           /\ refCall'[c] = [refCall[c] EXCEPT !.pc = pc, !.read = n]
           /\ \A d \in RefCalls \ {c} : refCall'[d] = refCall[d]
<1> DEFINE x == [refCall[c] EXCEPT !.pc = pc, !.read = n]
<1>1. refCall[c] \in RefCallRecords /\ Knows(refCall[c])
  BY Running1
<1>2. x \in RefCallRecords
  BY <1>1 DEF RefCallRecords, RefPcs, RegisterPcs, CheckPcs, CapPcs, RewardPcs
<1>3. Knows(x)
  BY <1>1 DEF RefCallRecords, Knows, Fits
<1>4. refCall' = [refCall EXCEPT ![c] = x]
  BY DEF IInv, RefTypeOK
<1> HIDE DEF x
<1>5. /\ refCall' \in [RefCalls -> RefCallRecords] /\ CallsKnow'
      /\ refCall'[c] = x
      /\ \A d \in RefCalls \ {c} : refCall'[d] = refCall[d]
  BY <1>2, <1>3, <1>4, CallMoves
<1> QED
  BY <1>5 DEF x

LEMMA ReadsCountPreserves ==
    ASSUME IInv, NEW c \in RefCalls, RefReadsCount(c)
    PROVE  /\ IInv'
           /\ refCall'[c] = [refCall[c] EXCEPT !.pc = "count", !.read = totalReferral[Referrer(c)]]
           /\ \A d \in RefCalls \ {c} : refCall'[d] = refCall[d]
<1>1. Running(c) /\ Fits(refCall[c], "count")
  BY Running1 DEF RefReadsCount, Running, Knows, Fits, RegisterPcs, CheckPcs, CapPcs, RewardPcs
<1>2. totalReferral[Referrer(c)] \in Nat
  BY <1>1, Running1 DEF IInv, RefTypeOK
<1>3. /\ refCall' \in [RefCalls -> RefCallRecords] /\ CallsKnow'
      /\ refCall'[c] = [refCall[c] EXCEPT !.pc = "count", !.read = totalReferral[Referrer(c)]]
      /\ \A d \in RefCalls \ {c} : refCall'[d] = refCall[d]
  BY <1>1, <1>2, ReadsPreserves DEF RefReadsCount, RefPcs, RegisterPcs
<1> QED
  BY <1>3, CallsOnly DEF RefReadsCount, refHistories, IInv, RefTypeOK

LEMMA CountsPreserves ==
    ASSUME IInv, NEW c \in RefCalls, RefCounts(c)
    PROVE  /\ IInv'
           /\ refCall'[c].pc = "done"
           /\ \A d \in RefCalls \ {c} : refCall'[d] = refCall[d]
<1>1. Running(c)
  BY DEF RefCounts, Running
<1>2. /\ refCall' \in [RefCalls -> RefCallRecords] /\ CallsKnow' /\ refCall'[c].pc = "done"
      /\ \A d \in RefCalls \ {c} : refCall'[d] = refCall[d]
  BY DonePreserves DEF RefCounts
<1>3. totalReferral' \in [RefUsers -> Nat]
  <2>1. Referrer(c) \in RefUsers /\ refCall[c].read + 1 \in Nat
    BY <1>1, Running1, CallFields
  <2> QED
    BY <2>1 DEF RefCounts, IInv, RefTypeOK
<1> QED
  BY <1>2, <1>3, RelationKept DEF RefCounts, rewardVars, refHistories, IInv, RefTypeOK

LEMMA ChecksPreserves ==
    ASSUME IInv, NEW c \in RefCalls, NEW u \in RefUsers, RefChecks(c, u)
    PROVE  /\ IInv'
           /\ Running(c)' /\ refCall'[c].pc = "complete" /\ refCall'[c].op = "install"
           /\ refCall'[c].user = u /\ refCall'[c].rel = relation[u]
           /\ \A d \in RefCalls \ {c} : refCall'[d] = refCall[d]
<1> DEFINE x == [RefIdle EXCEPT !.pc = "complete", !.op = "install", !.user = u,
                                !.rel = relation[u], !.amount = RefBonus]
<1>1. relation[u] \in Relations /\ relation[u].chain \in Chains12 /\ relation[u].chain # <<>>
  BY DEF RefChecks, IInv, RefTypeOK, RelationKnown, Relations
<1>2. RefBonus \in Nat /\ 1 <= month /\ RefIdle.paid = 1
  BY ReferralsAssumption DEF IInv, RefTypeOK, RefIdle
<1>3. /\ x \in RefCallRecords
      /\ x.pc = "complete" /\ x.op = "install" /\ x.user = u /\ x.rel = relation[u]
      /\ x.tier = 1 /\ x.paid = 1
  BY <1>1, <1>2, IdleType DEF RefCallRecords
<1>4. 1 \in DOMAIN relation[u].chain
  BY <1>1, ChainFacts
<1>5. refCall' = [refCall EXCEPT ![c] = x] /\ month' = month
  BY DEF RefChecks
<1> HIDE DEF x
<1>6. Knows(x)
  BY <1>1, <1>2, <1>3, <1>4 DEF Knows, RegisterPcs, CheckPcs, CapPcs, RewardPcs
<1>7. /\ refCall' \in [RefCalls -> RefCallRecords] /\ CallsKnow' /\ refCall'[c] = x
      /\ \A d \in RefCalls \ {c} : refCall'[d] = refCall[d]
  BY <1>3, <1>5, <1>6, CallMoves
<1>8. contested' \in SUBSET RefUsers
  BY DEF RefChecks, IInv, RefTypeOK
<1> QED
  BY <1>3, <1>7, <1>8, CallsOnly DEF RefChecks, Running, IInv, RefTypeOK

LEMMA EarnsPreserves ==
    ASSUME IInv, NEW c \in RefCalls, NEW u \in RefUsers, NEW op \in {"task", "week"},
           RefEarns(c, u, op)
    PROVE  /\ IInv'
           /\ Running(c)' /\ refCall'[c].op = op /\ refCall'[c].user = u
           /\ refCall'[c].rel = relation[u] /\ refCall'[c].paid = month
           /\ refCall'[c].pc = FirstStep(op)
           /\ \A d \in RefCalls \ {c} : refCall'[d] = refCall[d]
<1> DEFINE x == [RefIdle EXCEPT !.pc = FirstStep(op), !.op = op, !.user = u,
                                !.rel = relation[u], !.amount = Share(op, 1), !.paid = month]
<1>1. relation[u] \in Relations /\ relation[u].chain \in Chains12 /\ relation[u].chain # <<>>
  BY DEF RefEarns, IInv, RefTypeOK, RelationKnown, Relations
<1>2. Share(op, 1) \in Nat /\ month \in 1 .. RefMonths /\ month <= month
      /\ FirstStep(op) \in {"reward", "cap"} /\ FirstStep(op) = (IF op = "task" THEN "reward" ELSE "cap")
  BY ReferralsAssumption DEF IInv, RefTypeOK, Share, FirstStep, RefTiers
<1>3. /\ x \in RefCallRecords
      /\ x.pc = FirstStep(op) /\ x.op = op /\ x.user = u /\ x.rel = relation[u]
      /\ x.tier = 1 /\ x.paid = month
  BY <1>1, <1>2, IdleType DEF RefCallRecords
<1>4. 1 \in DOMAIN relation[u].chain
  BY <1>1, ChainFacts
<1>5. refCall' = [refCall EXCEPT ![c] = x] /\ month' = month
  BY DEF RefEarns
<1> HIDE DEF x
<1>6. Knows(x)
  BY <1>1, <1>2, <1>3, <1>4 DEF Knows, RegisterPcs, CheckPcs, CapPcs, RewardPcs
<1>7. /\ refCall' \in [RefCalls -> RefCallRecords] /\ CallsKnow' /\ refCall'[c] = x
      /\ \A d \in RefCalls \ {c} : refCall'[d] = refCall[d]
  BY <1>3, <1>5, <1>6, CallMoves
<1>8. overlapping' \in BOOLEAN
  BY DEF RefEarns, IInv, RefTypeOK
<1> QED
  BY <1>2, <1>3, <1>7, <1>8, CallsOnly DEF RefEarns, Running, IInv, RefTypeOK

LEMMA CompletesPreserves ==
    ASSUME IInv, NEW c \in RefCalls, RefCompletes(c)
    PROVE  /\ IInv'
           /\ refCall'[c] = [refCall[c] EXCEPT !.pc = "unpend"]
           /\ \A d \in RefCalls \ {c} : refCall'[d] = refCall[d]
           /\ relation'[refCall[c].user].chain = refCall[c].rel.chain
           /\ relation'[refCall[c].user].status = "COMPLETED"
           /\ \A v \in RefUsers \ {refCall[c].user} : relation'[v] = relation[v]
<1> DEFINE rel == [refCall[c].rel EXCEPT !.status = "COMPLETED"]
<1>1. Running(c) /\ Fits(refCall[c], "unpend")
  BY Running1 DEF RefCompletes, Running, Knows, Fits, RegisterPcs, CheckPcs, CapPcs, RewardPcs
<1>2. /\ refCall' \in [RefCalls -> RefCallRecords] /\ CallsKnow'
      /\ refCall'[c] = [refCall[c] EXCEPT !.pc = "unpend"]
      /\ \A d \in RefCalls \ {c} : refCall'[d] = refCall[d]
  BY <1>1, GoesPreserves DEF RefCompletes, RefPcs, CheckPcs
<1>3. rel \in Relations /\ rel.chain = refCall[c].rel.chain /\ rel.status = "COMPLETED"
  BY <1>1, Running1 DEF Relations
<1>4. /\ relation' = [relation EXCEPT ![refCall[c].user] = rel] /\ refCall[c].user \in RefUsers
      /\ refCall[c].rel.chain # <<>>
  BY <1>1, Running1 DEF RefCompletes
<1> HIDE DEF rel
<1>5. /\ IInv' /\ relation'[refCall[c].user] = rel
      /\ \A v \in RefUsers \ {refCall[c].user} : relation'[v] = relation[v]
  BY <1>2, <1>3, <1>4, CallsAndRelation DEF RefCompletes
<1> QED
  BY <1>2, <1>3, <1>5

LEMMA UnpendsPreserves ==
    ASSUME IInv, NEW c \in RefCalls, RefUnpends(c)
    PROVE  /\ IInv'
           /\ refCall'[c].pc = "done" \/ refCall'[c] = [refCall[c] EXCEPT !.pc = "reward"]
           /\ \A d \in RefCalls \ {c} : refCall'[d] = refCall[d]
<1>1. Running(c) /\ Fits(refCall[c], "reward")
  BY Running1 DEF RefUnpends, Running, Knows, Fits, RegisterPcs, CheckPcs, CapPcs, RewardPcs
<1>2. /\ refCall' \in [RefCalls -> RefCallRecords] /\ CallsKnow'
      /\ refCall'[c].pc = "done" \/ refCall'[c] = [refCall[c] EXCEPT !.pc = "reward"]
      /\ \A d \in RefCalls \ {c} : refCall'[d] = refCall[d]
  <2>1. CASE RefDone(c)
    BY <2>1, DonePreserves DEF RefUnpends
  <2>2. CASE RefGoes(c, "reward")
    BY <2>2, <1>1, GoesPreserves DEF RefUnpends, RefPcs, RewardPcs
  <2> QED
    BY <2>1, <2>2 DEF RefUnpends
<1>3. pending24h' \in SUBSET RefUsers
  BY DEF RefUnpends, IInv, RefTypeOK
<1> QED
  BY <1>2, <1>3, RelationKept DEF RefUnpends, rewardVars, refHistories, IInv, RefTypeOK

LEMMA ClaimsPreserves ==
    ASSUME IInv, NEW c \in RefCalls, RefClaims(c)
    PROVE  /\ IInv'
           /\ refCall'[c].pc = "done"
           /\ \A d \in RefCalls \ {c} : refCall'[d] = refCall[d]
           /\ relation'[refCall[c].user].chain = refCall[c].rel.chain
           /\ relation'[refCall[c].user].status = "COMPLETED"
           /\ \A v \in RefUsers \ {refCall[c].user} : relation'[v] = relation[v]
<1> DEFINE rel == [refCall[c].rel EXCEPT !.status = "COMPLETED", !.claimed = TRUE]
<1>1. Running(c)
  BY DEF RefClaims, Running
<1>2. /\ refCall' \in [RefCalls -> RefCallRecords] /\ CallsKnow' /\ refCall'[c].pc = "done"
      /\ \A d \in RefCalls \ {c} : refCall'[d] = refCall[d]
  BY DonePreserves DEF RefClaims
<1>3. rel \in Relations /\ rel.chain = refCall[c].rel.chain /\ rel.status = "COMPLETED"
  BY <1>1, Running1 DEF Relations
<1>4. /\ relation' = [relation EXCEPT ![refCall[c].user] = rel] /\ refCall[c].user \in RefUsers
      /\ refCall[c].rel.chain # <<>>
  BY <1>1, Running1 DEF RefClaims
<1> HIDE DEF rel
<1>5. /\ IInv' /\ relation'[refCall[c].user] = rel
      /\ \A v \in RefUsers \ {refCall[c].user} : relation'[v] = relation[v]
  BY <1>2, <1>3, <1>4, CallsAndRelation DEF RefClaims
<1> QED
  BY <1>2, <1>3, <1>5

LEMMA NextTierMoves ==
    ASSUME IInv, NEW c \in RefCalls, Running(c), refCall[c].op \in {"task", "week"},
           RefNextTier(c), month' = month
    PROVE  /\ refCall' \in [RefCalls -> RefCallRecords] /\ CallsKnow'
           /\ \A d \in RefCalls \ {c} : refCall'[d] = refCall[d]
           /\ \/ refCall'[c].pc = "done"
              \/ /\ refCall'[c].pc = FirstStep(refCall[c].op)
                 /\ refCall'[c].op = refCall[c].op /\ refCall'[c].user = refCall[c].user
                 /\ refCall'[c].rel = refCall[c].rel /\ refCall'[c].paid = month
<1> DEFINE next == refCall[c].tier + 1
           op == refCall[c].op
           x == [refCall[c] EXCEPT !.pc = FirstStep(op), !.tier = next,
                                   !.amount = Share(op, next), !.paid = month]
<1>1. CASE RefDone(c)
  BY <1>1, DonePreserves
<1>2. CASE ~ RefDone(c)
  <2>1. next \in DOMAIN refCall[c].rel.chain /\ next \in RefTiers
    BY <1>2, Running1, ChainFacts DEF RefNextTier
  <2>2. refCall' = [refCall EXCEPT ![c] = [@ EXCEPT !.pc = FirstStep(op), !.tier = next,
                                                    !.amount = Share(op, next), !.paid = month]]
    BY <1>2 DEF RefNextTier
  <2>3. /\ Share(op, next) \in Nat /\ month \in 1 .. RefMonths /\ month <= month
        /\ FirstStep(op) \in {"reward", "cap"}
        /\ FirstStep(op) = (IF op = "task" THEN "reward" ELSE "cap")
    BY <2>1, ReferralsAssumption DEF IInv, RefTypeOK, Share, FirstStep
  <2>4. refCall' = [refCall EXCEPT ![c] = x]
    BY <2>2 DEF IInv, RefTypeOK
  <2> HIDE DEF next
  <2>5. /\ x \in RefCallRecords
        /\ x.pc = FirstStep(op) /\ x.op = op /\ x.user = refCall[c].user /\ x.rel = refCall[c].rel
        /\ x.tier = next /\ x.paid = month
    <3>1. PICK one, two, three : /\ one = [refCall[c] EXCEPT !.pc = FirstStep(op)]
                                 /\ two = [one EXCEPT !.tier = next]
                                 /\ three = [two EXCEPT !.amount = Share(op, next)]
      OBVIOUS
    <3>2. x = [three EXCEPT !.paid = month]
      BY <3>1
    <3>3. op = refCall[c].op
      OBVIOUS
    <3> HIDE DEF x, op
    <3>4. refCall[c] \in RefCallRecords /\ FirstStep(op) \in RefPcs
      BY <2>3, Running1 DEF RefPcs, CapPcs, RewardPcs
    <3>5. /\ one \in RefCallRecords /\ one.pc = FirstStep(op) /\ one.op = op
          /\ one.user = refCall[c].user /\ one.rel = refCall[c].rel
      BY <3>1, <3>3, <3>4, PutPc
    <3>6. /\ two \in RefCallRecords /\ two.pc = FirstStep(op) /\ two.op = op
          /\ two.user = refCall[c].user /\ two.rel = refCall[c].rel /\ two.tier = next
      <4>1. next \in RefTiers /\ two = [one EXCEPT !.tier = next]
        BY <2>1, <3>1
      <4> QED
        BY <3>5, <4>1, PutTier
    <3>7. /\ three \in RefCallRecords /\ three.pc = FirstStep(op) /\ three.op = op
          /\ three.user = refCall[c].user /\ three.rel = refCall[c].rel /\ three.tier = next
      <4>1. PICK a \in Nat : a = Share(op, next)
        BY <2>3
      <4>2. three = [two EXCEPT !.amount = a]
        BY <3>1, <4>1
      <4> QED
        BY <3>6, <4>2, PutAmount
    <3> QED
      BY <2>3, <3>2, <3>7, PutPaid
  <2> HIDE DEF x
  <2>6. Knows(x)
    BY <2>1, <2>3, <2>5, Running1 DEF Knows, RegisterPcs, CheckPcs, CapPcs, RewardPcs
  <2> QED
    BY <2>4, <2>5, <2>6, CallMoves
<1> QED
  BY <1>1, <1>2

\* What checkMonthlyCap lets through never passes the cap.
LEMMA AllowedFits ==
    ASSUME NEW cap \in CapRecords, NEW amount \in Nat
    PROVE  /\ Allowed(cap, amount) \in Nat
           /\ cap.earned <= RefCap => cap.earned + Allowed(cap, amount) <= RefCap
BY ReferralsAssumption DEF Allowed, CapRecords

LEMMA ChecksCapPreserves ==
    ASSUME IInv, NEW c \in RefCalls, RefChecksCap(c)
    PROVE  /\ IInv'
           /\ refCall'[c] = [refCall[c] EXCEPT !.pc = "reward",
                  !.amount = Allowed(monthlyCap[refCall[c].paid][Referrer(c)], @)]
           /\ \A d \in RefCalls \ {c} : refCall'[d] = refCall[d]
<1> DEFINE n == Allowed(monthlyCap[refCall[c].paid][Referrer(c)], refCall[c].amount)
           x == [refCall[c] EXCEPT !.pc = "reward", !.amount = n]
<1>1. Running(c) /\ refCall[c].op = "week"
  BY Running1 DEF RefChecksCap, Running, Knows, CapPcs
<1>2. n \in Nat
  <2>1. monthlyCap[refCall[c].paid][Referrer(c)] \in CapRecords /\ refCall[c].amount \in Nat
    BY <1>1, Running1, CallFields DEF IInv, RefTypeOK
  <2> QED
    BY <2>1, AllowedFits
<1>3. refCall' = [refCall EXCEPT ![c] = x]
  BY DEF RefChecksCap, IInv, RefTypeOK
<1>4. x = [refCall[c] EXCEPT !.pc = "reward",
               !.amount = Allowed(monthlyCap[refCall[c].paid][Referrer(c)], @)]
  OBVIOUS
<1> HIDE DEF n
<1>5. /\ x \in RefCallRecords
      /\ x.pc = "reward" /\ x.op = "week" /\ x.user = refCall[c].user /\ x.rel = refCall[c].rel
      /\ x.tier = refCall[c].tier /\ x.paid = refCall[c].paid
  BY <1>1, <1>2, Running1 DEF RefCallRecords
<1> HIDE DEF x
<1>6. Knows(x)
  BY <1>1, <1>5, Running1 DEF Knows, RegisterPcs, CheckPcs, CapPcs, RewardPcs
<1>7. /\ refCall' \in [RefCalls -> RefCallRecords] /\ CallsKnow' /\ refCall'[c] = x
      /\ \A d \in RefCalls \ {c} : refCall'[d] = refCall[d]
  BY <1>3, <1>5, <1>6, CallMoves DEF RefChecksCap
<1> QED
  BY <1>4, <1>7, CallsOnly DEF RefChecksCap, refHistories, IInv, RefTypeOK

LEMMA RecordsPreserves ==
    ASSUME IInv, NEW c \in RefCalls, RefRecords(c)
    PROVE  /\ IInv'
           /\ \A d \in RefCalls \ {c} : refCall'[d] = refCall[d]
           /\ \/ refCall'[c].pc = "done"
              \/ /\ refCall[c].op # "week"
                 /\ refCall'[c] = [refCall[c] EXCEPT !.pc = "balance"]
              \/ /\ refCall[c].op = "week" /\ refCall[c].amount > 0
                 /\ refCall'[c] = [refCall[c] EXCEPT !.pc = "capRead"]
              \/ /\ refCall[c].op = "week"
                 /\ refCall'[c].pc = "cap" /\ refCall'[c].op = "week"
                 /\ refCall'[c].user = refCall[c].user /\ refCall'[c].rel = refCall[c].rel
                 /\ refCall'[c].paid = month
<1>1. Running(c) /\ refCall[c].op \in {"install", "task", "week"}
  BY Running1 DEF RefRecords, Running, Knows, RewardPcs
<1>2. month' = month /\ refCall[c].amount \in Nat
  BY <1>1, Running1, CallFields DEF RefRecords
<1>3. /\ refCall' \in [RefCalls -> RefCallRecords] /\ CallsKnow'
      /\ \A d \in RefCalls \ {c} : refCall'[d] = refCall[d]
      /\ \/ refCall'[c].pc = "done"
         \/ /\ refCall[c].op # "week"
            /\ refCall'[c] = [refCall[c] EXCEPT !.pc = "balance"]
         \/ /\ refCall[c].op = "week" /\ refCall[c].amount > 0
            /\ refCall'[c] = [refCall[c] EXCEPT !.pc = "capRead"]
         \/ /\ refCall[c].op = "week"
            /\ refCall'[c].pc = "cap" /\ refCall'[c].op = "week"
            /\ refCall'[c].user = refCall[c].user /\ refCall'[c].rel = refCall[c].rel
            /\ refCall'[c].paid = month
  <2>1. CASE refCall[c].op # "week"
    <3>1. RefGoes(c, "balance") /\ Fits(refCall[c], "balance") /\ "balance" \in RefPcs
      BY <1>1, <2>1 DEF RefRecords, Fits, RefPcs, RegisterPcs, CheckPcs, CapPcs, RewardPcs
    <3> QED
      BY <1>1, <1>2, <2>1, <3>1, GoesPreserves
  <2>2. CASE refCall[c].op = "week" /\ refCall[c].amount > 0
    <3>1. RefGoes(c, "capRead") /\ Fits(refCall[c], "capRead") /\ "capRead" \in RefPcs
      BY <1>1, <2>2 DEF RefRecords, Fits, RefPcs, RegisterPcs, CheckPcs, CapPcs, RewardPcs
    <3> QED
      BY <1>1, <1>2, <2>2, <3>1, GoesPreserves
  <2>3. CASE refCall[c].op = "week" /\ ~(refCall[c].amount > 0)
    <3>1. RefNextTier(c) /\ FirstStep(refCall[c].op) = "cap"
      BY <2>3 DEF RefRecords, FirstStep
    <3> QED
      BY <1>1, <1>2, <2>3, <3>1, NextTierMoves
  <2> QED
    BY <2>1, <2>2, <2>3
<1>4. recorded' \in [RefUsers -> Nat]
  BY <1>1, <1>2, Running1 DEF RefRecords, IInv, RefTypeOK
<1>5. IInv'
  BY <1>3, <1>4, RelationKept DEF RefRecords, recordVars, refHistories, IInv, RefTypeOK
<1> QED
  BY <1>3, <1>5

LEMMA ReadsCapPreserves ==
    ASSUME IInv, NEW c \in RefCalls, RefReadsCap(c)
    PROVE  /\ IInv'
           /\ refCall'[c] = [refCall[c] EXCEPT !.pc = "capWrite",
                  !.cap = monthlyCap[refCall[c].paid][Referrer(c)]]
           /\ \A d \in RefCalls \ {c} : refCall'[d] = refCall[d]
<1> DEFINE n == monthlyCap[refCall[c].paid][Referrer(c)]
           x == [refCall[c] EXCEPT !.pc = "capWrite", !.cap = n]
<1>1. Running(c) /\ refCall[c].op = "week"
  BY Running1 DEF RefReadsCap, Running, Knows, CapPcs
<1>2. n \in CapRecords
  BY <1>1, Running1 DEF IInv, RefTypeOK
<1>3. refCall' = [refCall EXCEPT ![c] = x]
  BY DEF RefReadsCap, IInv, RefTypeOK
<1> HIDE DEF n
<1>5. /\ x \in RefCallRecords
      /\ x.pc = "capWrite" /\ x.op = "week" /\ x.user = refCall[c].user /\ x.rel = refCall[c].rel
      /\ x.tier = refCall[c].tier /\ x.paid = refCall[c].paid
  BY <1>1, <1>2, Running1 DEF RefCallRecords
<1>6. Knows(x)
  <2> HIDE DEF x
  <2> QED
    BY <1>1, <1>5, Running1 DEF Knows, RegisterPcs, CheckPcs, CapPcs, RewardPcs
<1>7. /\ refCall' \in [RefCalls -> RefCallRecords] /\ CallsKnow' /\ refCall'[c] = x
      /\ \A d \in RefCalls \ {c} : refCall'[d] = refCall[d]
  <2> HIDE DEF x
  <2> QED
    BY <1>3, <1>5, <1>6, CallMoves DEF RefReadsCap
<1> QED
  BY <1>7, CallsOnly DEF n, RefReadsCap, refHistories, IInv, RefTypeOK

\* A store into a table by month and user.
LEMMA TableWrite ==
    ASSUME NEW S, NEW f \in [1 .. RefMonths -> [RefUsers -> S]],
           NEW m \in 1 .. RefMonths, NEW u \in RefUsers, NEW v \in S
    PROVE  LET g == [f EXCEPT ![m][u] = v]
           IN  /\ g \in [1 .. RefMonths -> [RefUsers -> S]]
               /\ g[m][u] = v
               /\ \A k \in 1 .. RefMonths, w \in RefUsers :
                     k # m \/ w # u => g[k][w] = f[k][w]
<1> DEFINE g == [f EXCEPT ![m][u] = v]
<1>1. g[m] = [f[m] EXCEPT ![u] = v] /\ \A k \in (1 .. RefMonths) \ {m} : g[k] = f[k]
  OBVIOUS
<1>2. f[m] \in [RefUsers -> S]
  OBVIOUS
<1>3. g[m] \in [RefUsers -> S] /\ g[m][u] = v /\ \A w \in RefUsers \ {u} : g[m][w] = f[m][w]
  BY <1>1, <1>2
<1>4. g \in [1 .. RefMonths -> [RefUsers -> S]]
  BY <1>1, <1>3
<1> QED
  BY <1>1, <1>3, <1>4

LEMMA RaisesCapPreserves ==
    ASSUME IInv, NEW c \in RefCalls, RefRaisesCap(c)
    PROVE  /\ IInv'
           /\ refCall'[c] = [refCall[c] EXCEPT !.pc = "balance"]
           /\ \A d \in RefCalls \ {c} : refCall'[d] = refCall[d]
           /\ monthlyCap'[refCall[c].paid][Referrer(c)].earned =
                 refCall[c].cap.earned + refCall[c].amount
           /\ \A m \in 1 .. RefMonths, u \in RefUsers :
                 m # refCall[c].paid \/ u # Referrer(c) => monthlyCap'[m][u] = monthlyCap[m][u]
<1> DEFINE v == RaisedCap(refCall[c].cap, refCall[c].amount)
<1>1. Running(c) /\ Fits(refCall[c], "balance") /\ "balance" \in RefPcs
  BY Running1 DEF RefRaisesCap, Running, Knows, Fits, RefPcs, RegisterPcs, CheckPcs, CapPcs, RewardPcs
<1>2. /\ refCall' \in [RefCalls -> RefCallRecords] /\ CallsKnow'
      /\ refCall'[c] = [refCall[c] EXCEPT !.pc = "balance"]
      /\ \A d \in RefCalls \ {c} : refCall'[d] = refCall[d]
  BY <1>1, GoesPreserves DEF RefRaisesCap
<1>3. v \in CapRecords /\ v.earned = refCall[c].cap.earned + refCall[c].amount
  <2>1. refCall[c].cap.earned \in Nat /\ refCall[c].amount \in Nat
    BY <1>1, Running1, CallFields DEF CapRecords
  <2> QED
    BY <2>1 DEF RaisedCap, CapRecords
<1>4. /\ refCall[c].paid \in 1 .. RefMonths /\ Referrer(c) \in RefUsers
      /\ monthlyCap \in [1 .. RefMonths -> [RefUsers -> CapRecords]]
      /\ monthlyCap' = [monthlyCap EXCEPT ![refCall[c].paid][Referrer(c)] = v]
  BY <1>1, Running1 DEF RefRaisesCap, IInv, RefTypeOK
<1> HIDE DEF v
<1>5. /\ monthlyCap' \in [1 .. RefMonths -> [RefUsers -> CapRecords]]
      /\ monthlyCap'[refCall[c].paid][Referrer(c)] = v
      /\ \A m \in 1 .. RefMonths, u \in RefUsers :
            m # refCall[c].paid \/ u # Referrer(c) => monthlyCap'[m][u] = monthlyCap[m][u]
  BY <1>3, <1>4, TableWrite
<1>6. IInv'
  BY <1>2, <1>5, RelationKept DEF RefRaisesCap, recordVars, refHistories, IInv, RefTypeOK
<1> QED
  BY <1>2, <1>3, <1>5, <1>6

LEMMA ReadsBalancePreserves ==
    ASSUME IInv, NEW c \in RefCalls, RefReadsBalance(c)
    PROVE  /\ IInv'
           /\ refCall'[c] = [refCall[c] EXCEPT !.pc = "credit", !.read = points[Referrer(c)]]
           /\ \A d \in RefCalls \ {c} : refCall'[d] = refCall[d]
<1>1. Running(c) /\ Fits(refCall[c], "credit")
  BY Running1 DEF RefReadsBalance, Running, Knows, Fits, RegisterPcs, CheckPcs, CapPcs, RewardPcs
<1>2. points[Referrer(c)] \in Nat
  BY <1>1, Running1 DEF IInv, RefTypeOK
<1>3. /\ refCall' \in [RefCalls -> RefCallRecords] /\ CallsKnow'
      /\ refCall'[c] = [refCall[c] EXCEPT !.pc = "credit", !.read = points[Referrer(c)]]
      /\ \A d \in RefCalls \ {c} : refCall'[d] = refCall[d]
  BY <1>1, <1>2, ReadsPreserves DEF RefReadsBalance, RefPcs, RewardPcs
<1> QED
  BY <1>3, CallsOnly DEF RefReadsBalance, refHistories, IInv, RefTypeOK

LEMMA CreditsPreserves ==
    ASSUME IInv, NEW c \in RefCalls, RefCredits(c)
    PROVE  /\ IInv'
           /\ \A d \in RefCalls \ {c} : refCall'[d] = refCall[d]
           /\ \/ refCall'[c].pc = "done" /\ refCall[c].op # "install"
              \/ refCall[c].op = "install" /\ refCall'[c] = [refCall[c] EXCEPT !.pc = "claim"]
              \/ /\ refCall[c].op \in {"task", "week"}
                 /\ refCall'[c].pc = FirstStep(refCall[c].op)
                 /\ refCall'[c].op = refCall[c].op /\ refCall'[c].user = refCall[c].user
                 /\ refCall'[c].rel = refCall[c].rel /\ refCall'[c].paid = month
           /\ refCall[c].op # "week" => weekPoints' = weekPoints
           /\ refCall[c].op = "week" =>
                 /\ weekPoints'[refCall[c].paid][Referrer(c)] =
                       weekPoints[refCall[c].paid][Referrer(c)] + refCall[c].amount
                 /\ \A m \in 1 .. RefMonths, u \in RefUsers :
                       m # refCall[c].paid \/ u # Referrer(c) => weekPoints'[m][u] = weekPoints[m][u]
           /\ refCall[c].op # "install" => bonuses' = bonuses
           /\ refCall[c].op = "install" =>
                 /\ bonuses'[refCall[c].user] = bonuses[refCall[c].user] + 1
                 /\ \A u \in RefUsers \ {refCall[c].user} : bonuses'[u] = bonuses[u]
<1>1. Running(c) /\ refCall[c].op \in {"install", "task", "week"} /\ month' = month
  BY Running1 DEF RefCredits, Running, Knows, RewardPcs
<1>2. /\ refCall' \in [RefCalls -> RefCallRecords] /\ CallsKnow'
      /\ \A d \in RefCalls \ {c} : refCall'[d] = refCall[d]
      /\ \/ refCall'[c].pc = "done" /\ refCall[c].op # "install"
         \/ refCall[c].op = "install" /\ refCall'[c] = [refCall[c] EXCEPT !.pc = "claim"]
         \/ /\ refCall[c].op \in {"task", "week"}
            /\ refCall'[c].pc = FirstStep(refCall[c].op)
            /\ refCall'[c].op = refCall[c].op /\ refCall'[c].user = refCall[c].user
            /\ refCall'[c].rel = refCall[c].rel /\ refCall'[c].paid = month
  <2>1. CASE refCall[c].op = "install"
    <3>1. RefGoes(c, "claim") /\ Fits(refCall[c], "claim") /\ "claim" \in RefPcs
      BY <2>1 DEF RefCredits, Fits, RefPcs, RegisterPcs, CheckPcs, CapPcs, RewardPcs
    <3> QED
      BY <1>1, <2>1, <3>1, GoesPreserves
  <2>2. CASE refCall[c].op \in {"task", "week"}
    <3>1. RefNextTier(c)
      BY <2>2 DEF RefCredits
    <3> QED
      BY <1>1, <2>2, <3>1, NextTierMoves
  <2> QED
    BY <1>1, <2>1, <2>2
<1>3. /\ refCall[c].amount \in Nat /\ refCall[c].read \in Nat
      /\ refCall[c].paid \in 1 .. RefMonths /\ Referrer(c) \in RefUsers /\ refCall[c].user \in RefUsers
  BY <1>1, Running1, CallFields
<1>4. points' \in [RefUsers -> Nat]
  <2>1. refCall[c].read + refCall[c].amount \in Nat
    BY <1>3
  <2>2. points' = [points EXCEPT ![Referrer(c)] = refCall[c].read + refCall[c].amount]
    BY DEF RefCredits, Credited
  <2>3. points \in [RefUsers -> Nat]
    BY DEF IInv, RefTypeOK
  <2> QED
    BY <2>1, <2>2, <2>3
<1>5. /\ bonuses' \in [RefUsers -> Nat]
      /\ refCall[c].op # "install" => bonuses' = bonuses
      /\ refCall[c].op = "install" =>
            /\ bonuses'[refCall[c].user] = bonuses[refCall[c].user] + 1
            /\ \A u \in RefUsers \ {refCall[c].user} : bonuses'[u] = bonuses[u]
  <2>1. bonuses \in [RefUsers -> Nat]
    BY DEF IInv, RefTypeOK
  <2>2. CASE refCall[c].op # "install"
    BY <2>1, <2>2 DEF RefCredits
  <2>3. CASE refCall[c].op = "install"
    <3>1. bonuses' = [bonuses EXCEPT ![refCall[c].user] = @ + 1]
      BY <2>3 DEF RefCredits
    <3> QED
      BY <1>3, <2>1, <2>3, <3>1
  <2> QED
    BY <2>2, <2>3
<1>6. /\ weekPoints' \in [1 .. RefMonths -> [RefUsers -> Nat]]
      /\ refCall[c].op # "week" => weekPoints' = weekPoints
      /\ refCall[c].op = "week" =>
            /\ weekPoints'[refCall[c].paid][Referrer(c)] =
                  weekPoints[refCall[c].paid][Referrer(c)] + refCall[c].amount
            /\ \A m \in 1 .. RefMonths, u \in RefUsers :
                  m # refCall[c].paid \/ u # Referrer(c) => weekPoints'[m][u] = weekPoints[m][u]
  <2>1. weekPoints \in [1 .. RefMonths -> [RefUsers -> Nat]]
    BY DEF IInv, RefTypeOK
  <2>2. CASE refCall[c].op # "week"
    BY <2>1, <2>2 DEF RefCredits
  <2>3. CASE refCall[c].op = "week"
    <3> DEFINE v == weekPoints[refCall[c].paid][Referrer(c)] + refCall[c].amount
    <3>1. v \in Nat
      BY <1>3, <2>1
    <3>2. weekPoints' = [weekPoints EXCEPT ![refCall[c].paid][Referrer(c)] = v]
      BY <2>3 DEF RefCredits, Credited
    <3> QED
      <4> HIDE DEF v
      <4>1. /\ weekPoints' \in [1 .. RefMonths -> [RefUsers -> Nat]]
            /\ weekPoints'[refCall[c].paid][Referrer(c)] = v
            /\ \A m \in 1 .. RefMonths, u \in RefUsers :
                  m # refCall[c].paid \/ u # Referrer(c) => weekPoints'[m][u] = weekPoints[m][u]
        BY <1>3, <2>1, <3>1, <3>2, TableWrite
      <4> QED
        BY <2>3, <4>1 DEF v
  <2> QED
    BY <2>2, <2>3
<1>7. IInv'
  BY <1>2, <1>4, <1>5, <1>6, RelationKept DEF RefCredits, recordVars, IInv, RefTypeOK
<1> QED
  BY <1>2, <1>5, <1>6, <1>7

LEMMA NewMonthPreserves == ASSUME IInv, NewMonth PROVE IInv'
<1>1. month' \in 1 .. RefMonths /\ month' = month + 1 /\ month \in 1 .. RefMonths
  BY ReferralsAssumption DEF NewMonth, IInv, RefTypeOK
<1>2. RefTypeOK'
  BY <1>1 DEF NewMonth, IInv, RefTypeOK, recordVars, rewardVars, refHistories
<1>3. CallsKnow'
  <2> SUFFICES ASSUME NEW c \in RefCalls, Running(c)' PROVE Knows(refCall[c])'
    BY DEF CallsKnow
  <2>1. refCall' = refCall /\ Running(c)
    BY DEF NewMonth, Running
  <2>2. Knows(refCall[c]) /\ refCall[c].paid \in 1 .. RefMonths
    BY <2>1, Running1
  <2> QED
    BY <1>1, <2>1, <2>2 DEF Knows
<1>4. RelationKnown'
  BY DEF NewMonth, IInv, RelationKnown, recordVars
<1> QED
  BY <1>2, <1>3, <1>4 DEF IInv

LEMMA ResetsCapPreserves ==
    ASSUME IInv, NEW m \in 1 .. RefMonths, NEW u \in RefUsers, RefResetsCap(m, u)
    PROVE  /\ IInv'
           /\ monthlyCap'[m][u] = NoCap
           /\ \A k \in 1 .. RefMonths, w \in RefUsers :
                 k # m \/ w # u => monthlyCap'[k][w] = monthlyCap[k][w]
<1>1. /\ monthlyCap' \in [1 .. RefMonths -> [RefUsers -> CapRecords]]
      /\ monthlyCap'[m][u] = NoCap
      /\ \A k \in 1 .. RefMonths, w \in RefUsers :
            k # m \/ w # u => monthlyCap'[k][w] = monthlyCap[k][w]
  <2>1. /\ monthlyCap \in [1 .. RefMonths -> [RefUsers -> CapRecords]] /\ NoCap \in CapRecords
        /\ monthlyCap' = [monthlyCap EXCEPT ![m][u] = NoCap]
    BY IdleType DEF RefResetsCap, IInv, RefTypeOK
  <2> QED
    BY <2>1, TableWrite
<1>2. CallsKnow' /\ refCall' \in [RefCalls -> RefCallRecords]
  BY DEF RefResetsCap, IInv, RefTypeOK, CallsKnow, Knows, Running
<1>3. overlapping' \in BOOLEAN
  BY DEF RefResetsCap, IInv, RefTypeOK
<1> QED
  BY <1>1, <1>2, <1>3, RelationKept DEF RefResetsCap, recordVars, IInv, RefTypeOK

LEMMA CrashPreserves ==
    ASSUME IInv, RefCrash
    PROVE  IInv' /\ refCrashes' # 0 /\ \A c \in RefCalls : ~ Running(c)'
<1>1. \A c \in RefCalls : refCall'[c] \in RefCallRecords /\ ~ Running(c)'
  <2> SUFFICES ASSUME NEW c \in RefCalls PROVE refCall'[c] \in RefCallRecords /\ ~ Running(c)'
    OBVIOUS
  <2>1. CASE Running(c)
    <3>1. refCall'[c] = [RefIdle EXCEPT !.pc = "done"]
      BY <2>1 DEF RefCrash
    <3>2. [RefIdle EXCEPT !.pc = "done"] \in RefCallRecords /\ [RefIdle EXCEPT !.pc = "done"].pc = "done"
      BY IdleType DEF RefCallRecords
    <3> QED
      BY <3>1, <3>2 DEF Running
  <2>2. CASE ~ Running(c)
    BY <2>2 DEF RefCrash, Running, IInv, RefTypeOK
  <2> QED
    BY <2>1, <2>2
<1>2. refCall' \in [RefCalls -> RefCallRecords]
  <2>1. refCall' = [c \in RefCalls |-> refCall'[c]]
    BY DEF RefCrash
  <2> QED
    BY <1>1, <2>1
<1>3. refCrashes' \in 0 .. RefCrashes /\ refCrashes' # 0
  BY ReferralsAssumption DEF RefCrash, IInv, RefTypeOK
<1>4. RefTypeOK' /\ RelationKnown'
  BY <1>2, <1>3 DEF RefCrash, IInv, RefTypeOK, RelationKnown, recordVars, rewardVars, refHistories
<1> QED
  BY <1>1, <1>3, <1>4 DEF IInv, CallsKnow

-----------------------------------------------------------------------------
\* The steps of the specification, one by one.
LEMMA Steps ==
    ASSUME RefNext
    PROVE  \/ \E c \in RefCalls :
                 \/ \E u, r \in RefUsers : RefRegisters(c, u, r)
                 \/ \E u \in RefUsers : RefChecks(c, u)
                 \/ \E u \in RefUsers, op \in {"task", "week"} : RefEarns(c, u, op)
                 \/ RefExists(c) \/ RefBuildsChain(c) \/ RefStores(c) \/ RefIndexes(c)
                 \/ RefPends(c) \/ RefReadsCount(c) \/ RefCounts(c)
                 \/ RefCompletes(c) \/ RefUnpends(c) \/ RefClaims(c)
                 \/ RefChecksCap(c) \/ RefRecords(c) \/ RefReadsCap(c) \/ RefRaisesCap(c)
                 \/ RefReadsBalance(c) \/ RefCredits(c)
           \/ NewMonth
           \/ \E m \in 1 .. RefMonths, u \in RefUsers : RefResetsCap(m, u)
           \/ RefCrash
BY Zenon DEF RefNext, RegisterStep, CheckStep, RewardStep

LEMMA StepIInv == IInv /\ [RefNext]_refVars => IInv'
<1> SUFFICES ASSUME IInv, [RefNext]_refVars PROVE IInv'
  OBVIOUS
<1>1. CASE UNCHANGED refVars
  <2>1. RefTypeOK' /\ RelationKnown' /\ refCall' = refCall /\ month' = month
    BY <1>1 DEF refVars, recordVars, rewardVars, refHistories, IInv, RefTypeOK, RelationKnown
  <2>2. CallsKnow'
    BY <2>1 DEF IInv, CallsKnow, Knows, Running
  <2> QED
    BY <2>1, <2>2 DEF IInv
<1>2. ASSUME NEW c \in RefCalls,
             \/ \E u, r \in RefUsers : RefRegisters(c, u, r)
             \/ \E u \in RefUsers : RefChecks(c, u)
             \/ \E u \in RefUsers, op \in {"task", "week"} : RefEarns(c, u, op)
      PROVE  IInv'
  BY <1>2, RegistersPreserves, ChecksPreserves, EarnsPreserves
<1>3. ASSUME NEW c \in RefCalls,
             \/ RefExists(c) \/ RefBuildsChain(c) \/ RefStores(c) \/ RefIndexes(c)
             \/ RefPends(c) \/ RefReadsCount(c) \/ RefCounts(c)
      PROVE  IInv'
  BY <1>3, ExistsPreserves, BuildsChainPreserves, StoresPreserves, IndexesPreserves,
     PendsPreserves, ReadsCountPreserves, CountsPreserves
<1>4. ASSUME NEW c \in RefCalls,
             \/ RefCompletes(c) \/ RefUnpends(c) \/ RefClaims(c)
             \/ RefChecksCap(c) \/ RefRecords(c) \/ RefReadsCap(c) \/ RefRaisesCap(c)
             \/ RefReadsBalance(c) \/ RefCredits(c)
      PROVE  IInv'
  BY <1>4, CompletesPreserves, UnpendsPreserves, ClaimsPreserves, ChecksCapPreserves,
     RecordsPreserves, ReadsCapPreserves, RaisesCapPreserves, ReadsBalancePreserves, CreditsPreserves
<1>5. CASE NewMonth \/ RefCrash \/ \E m \in 1 .. RefMonths, u \in RefUsers : RefResetsCap(m, u)
  BY <1>5, NewMonthPreserves, CrashPreserves, ResetsCapPreserves
<1> QED
  BY <1>1, <1>2, <1>3, <1>4, <1>5, Steps

LEMMA IInvHolds == RefSpec => []IInv
<1>1. RefInit => IInv
  BY InitIInv
<1>2. IInv /\ [RefNext]_refVars => IInv'
  BY StepIInv
<1> QED
  BY <1>1, <1>2, PTL DEF RefSpec

\* Relationships, indexes, caps, balances and calls of the referral service stay
\* well formed, and a chain of referrers never lacks its first.
THEOREM TypeCorrect == RefSpec => []RefTypeOK
<1>1. IInv => RefTypeOK
  BY DEF IInv
<1> QED
  BY <1>1, IInvHolds, PTL

-----------------------------------------------------------------------------
(***************************************************************************)
(* Users are listed with their referrers.  A relationship, or a copy of it *)
(* that a check or a reward holds, may be older than what is stored; its   *)
(* chain is listed all the same, or a registration is about to list it.    *)
(***************************************************************************)
Listing(u, ch) ==
    \A t \in DOMAIN ch :
        \/ u \in referrals[t][ch[t]]
        \/ \E d \in RefCalls :
              /\ refCall[d].pc = "index" /\ refCall[d].user = u
              /\ refCall[d].rel.chain = ch /\ refCall[d].tier <= t

StoredListed == \A u \in RefUsers : Listing(u, relation[u].chain)
CopiesListed ==
    \A c \in RefCalls :
        Running(c) /\ refCall[c].op # "register" => Listing(refCall[c].user, refCall[c].rel.chain)

ListedInv == refCrashes = 0 => StoredListed /\ CopiesListed

\* A step of a call that is not indexing keeps what is listed, or about to be.
LEMMA ListingKept ==
    ASSUME NEW c \in RefCalls, refCall[c].pc # "index",
           \A d \in RefCalls \ {c} : refCall'[d] = refCall[d], referrals' = referrals,
           NEW u, NEW ch, Listing(u, ch)
    PROVE  Listing(u, ch)'
<1> SUFFICES ASSUME NEW t \in DOMAIN ch
             PROVE  \/ u \in referrals'[t][ch[t]]
                    \/ \E d \in RefCalls :
                          /\ refCall'[d].pc = "index" /\ refCall'[d].user = u
                          /\ refCall'[d].rel.chain = ch /\ refCall'[d].tier <= t
  BY DEF Listing
<1>1. CASE u \in referrals[t][ch[t]]
  BY <1>1
<1>2. CASE \E d \in RefCalls : /\ refCall[d].pc = "index" /\ refCall[d].user = u
                               /\ refCall[d].rel.chain = ch /\ refCall[d].tier <= t
  <2>1. PICK d \in RefCalls : /\ refCall[d].pc = "index" /\ refCall[d].user = u
                              /\ refCall[d].rel.chain = ch /\ refCall[d].tier <= t
    BY <1>2
  <2>2. refCall'[d] = refCall[d]
    BY <2>1
  <2> QED
    BY <2>1, <2>2
<1> QED
  BY <1>1, <1>2 DEF Listing

\* A step of an indexing call lists the user under the tier it leaves.
LEMMA ListingIndexed ==
    ASSUME IInv, NEW c \in RefCalls, RefIndexes(c), NEW u \in RefUsers, NEW ch \in Chains12,
           Listing(u, ch)
    PROVE  Listing(u, ch)'
<1> SUFFICES ASSUME NEW t \in DOMAIN ch
             PROVE  \/ u \in referrals'[t][ch[t]]
                    \/ \E d \in RefCalls :
                          /\ refCall'[d].pc = "index" /\ refCall'[d].user = u
                          /\ refCall'[d].rel.chain = ch /\ refCall'[d].tier <= t
  BY DEF Listing
<1>1. t \in RefTiers /\ ch[t] \in RefUsers
  BY ChainFacts
<1>2. CASE u \in referrals[t][ch[t]]
  BY <1>1, <1>2, IndexesPreserves
<1>3. CASE \E d \in RefCalls : /\ refCall[d].pc = "index" /\ refCall[d].user = u
                               /\ refCall[d].rel.chain = ch /\ refCall[d].tier <= t
  <2>1. PICK d \in RefCalls : /\ refCall[d].pc = "index" /\ refCall[d].user = u
                              /\ refCall[d].rel.chain = ch /\ refCall[d].tier <= t
    BY <1>3
  <2>2. CASE d # c
    BY <2>1, <2>2, IndexesPreserves
  <2>3. CASE d = c /\ refCall[c].tier = t
    BY <2>1, <2>3, IndexesPreserves DEF Referrer
  <2>4. CASE d = c /\ refCall[c].tier # t
    <3>1. refCall[c].tier \in RefTiers
      BY Running1 DEF RefIndexes, Running
    <3>2. refCall[c].tier < t /\ refCall[c].tier + 1 <= t
      BY <1>1, <2>1, <2>4, <3>1 DEF RefTiers
    <3> QED
      BY <2>1, <2>4, <3>2, IndexesPreserves
  <2> QED
    BY <2>2, <2>3, <2>4
<1> QED
  BY <1>2, <1>3 DEF Listing

\* A step that leaves the relationships, and gives its call no copy but one that
\* is listed, keeps everything listed.
LEMMA CopyStep ==
    ASSUME IInv, StoredListed, CopiesListed, NEW c \in RefCalls, refCall[c].pc # "index",
           \A d \in RefCalls \ {c} : refCall'[d] = refCall[d],
           UNCHANGED <<relation, referrals>>,
           Running(c)' /\ refCall'[c].op # "register" =>
              \/ /\ Running(c) /\ refCall[c].op # "register"
                 /\ refCall'[c].user = refCall[c].user /\ refCall'[c].rel = refCall[c].rel
              \/ /\ refCall'[c].user \in RefUsers /\ refCall'[c].rel = relation[refCall'[c].user]
    PROVE  StoredListed' /\ CopiesListed'
<1>1. \A u, ch : Listing(u, ch) => Listing(u, ch)'
  BY ListingKept
<1>2. StoredListed'
  BY <1>1 DEF StoredListed
<1>3. ASSUME NEW d \in RefCalls, Running(d)', refCall'[d].op # "register"
      PROVE  Listing(refCall[d].user, refCall[d].rel.chain)'
  <2>1. CASE d # c
    <3>1. refCall'[d] = refCall[d] /\ Running(d)
      BY <1>3, <2>1 DEF Running
    <3>2. Listing(refCall[d].user, refCall[d].rel.chain)
      BY <1>3, <3>1 DEF CopiesListed
    <3> QED
      BY <1>1, <3>1, <3>2
  <2>2. CASE d = c
    <3>1. Listing(refCall'[c].user, refCall'[c].rel.chain)
      BY <1>3, <2>2 DEF StoredListed, CopiesListed
    <3> QED
      BY <1>1, <2>2, <3>1
  <2> QED
    BY <2>1, <2>2
<1> QED
  BY <1>2, <1>3 DEF CopiesListed

\* A step that stores a relationship with a chain that is listed.
LEMMA StoredStep ==
    ASSUME IInv, StoredListed, CopiesListed, NEW c \in RefCalls,
           refCall[c].pc # "index",
           \A d \in RefCalls \ {c} : refCall'[d] = refCall[d], referrals' = referrals,
           NEW u \in RefUsers, \A v \in RefUsers \ {u} : relation'[v] = relation[v],
           NEW ch, relation'[u].chain = ch, Listing(u, ch)',
           Running(c)' => \/ refCall'[c].op = "register"
                          \/ refCall'[c].user = u /\ refCall'[c].rel.chain = ch
    PROVE  StoredListed' /\ CopiesListed'
<1>1. \A w, h : Listing(w, h) => Listing(w, h)'
  BY ListingKept
<1>2. StoredListed'
  <2> SUFFICES ASSUME NEW v \in RefUsers PROVE Listing(v, relation[v].chain)'
    BY DEF StoredListed
  <2>1. CASE v # u
    <3>1. Listing(v, relation[v].chain) /\ relation'[v] = relation[v]
      BY <2>1 DEF StoredListed
    <3> QED
      BY <1>1, <3>1
  <2>2. CASE v = u
    BY <2>2
  <2> QED
    BY <2>1, <2>2
<1>3. ASSUME NEW d \in RefCalls, Running(d)', refCall'[d].op # "register"
      PROVE  Listing(refCall[d].user, refCall[d].rel.chain)'
  <2>1. CASE d # c
    <3>1. refCall'[d] = refCall[d] /\ Running(d)
      BY <1>3, <2>1 DEF Running
    <3>2. Listing(refCall[d].user, refCall[d].rel.chain)
      BY <1>3, <3>1 DEF CopiesListed
    <3> QED
      BY <1>1, <3>1, <3>2
  <2>2. CASE d = c
    BY <1>3, <2>2
  <2> QED
    BY <2>1, <2>2
<1> QED
  BY <1>2, <1>3 DEF CopiesListed

LEMMA RegisterStepListed ==
    ASSUME IInv, StoredListed, CopiesListed, NEW c \in RefCalls,
           \/ RefExists(c) \/ RefBuildsChain(c) \/ RefStores(c) \/ RefIndexes(c)
           \/ RefPends(c) \/ RefReadsCount(c) \/ RefCounts(c)
    PROVE  StoredListed' /\ CopiesListed'
<1>0. Running(c) /\ refCall[c].op = "register" /\ refCall[c] \in RefCallRecords
  <2>1. refCall[c].pc \in RegisterPcs
    BY DEF RefExists, RefBuildsChain, RefStores, RefIndexes, RefPends, RefReadsCount, RefCounts,
           RegisterPcs
  <2>2. Running(c)
    BY <2>1 DEF Running, RegisterPcs
  <2> QED
    BY <2>1, <2>2, Running1 DEF Knows
<1>1. CASE RefExists(c)
  <2>1. Running(c)' => refCall'[c].op = "register"
    BY <1>0, <1>1, ExistsPreserves DEF Running, RefCallRecords
  <2> QED
    BY <1>1, <2>1, ExistsPreserves, CopyStep DEF RefExists, recordVars
<1>2. CASE RefBuildsChain(c)
  BY <1>2, BuildsChainPreserves, CopyStep DEF RefBuildsChain, recordVars
<1>3. CASE RefStores(c)
  <2>0. PICK u \in RefUsers, ch \in Chains12 : u = refCall[c].user /\ ch = refCall[c].rel.chain
    BY <1>0, Running1
  <2>1. refCall'[c].pc = "index" /\ refCall'[c].user = u /\ refCall'[c].rel.chain = ch
        /\ refCall'[c].tier = 1 /\ refCall'[c].op = "register"
    <3>1. refCall'[c] = [refCall[c] EXCEPT !.pc = "index"] /\ refCall[c].tier = 1
      BY <1>0, <1>3, StoresPreserves, Running1 DEF RefStores, Knows, RegisterPcs
    <3> QED
      BY <1>0, <2>0, <3>1 DEF RefCallRecords
  <2>2. relation'[u].chain = ch
    <3>1. relation'[refCall[c].user] =
              [chain |-> refCall[c].rel.chain, status |-> "PENDING", claimed |-> FALSE]
      BY <1>3, StoresPreserves
    <3>2. relation'[u] = [chain |-> ch, status |-> "PENDING", claimed |-> FALSE]
      BY <2>0, <3>1
    <3> QED
      BY <3>2
  <2>3. \A t \in DOMAIN ch : 1 <= t
    BY <1>0, <2>0, Running1, ChainFacts
  <2>4. Listing(u, ch)'
    BY <2>1, <2>3 DEF Listing
  <2>6. \A v \in RefUsers \ {u} : relation'[v] = relation[v]
    BY <1>3, <2>0, StoresPreserves
  <2>7. /\ \A d \in RefCalls \ {c} : refCall'[d] = refCall[d]
        /\ referrals' = referrals /\ refCall[c].pc # "index"
    BY <1>3, StoresPreserves DEF RefStores
  <2> QED
    BY <2>1, <2>2, <2>4, <2>6, <2>7, StoredStep
<1>4. CASE RefIndexes(c)
  <2>1. \A u \in RefUsers : relation[u].chain \in Chains12
    BY DEF IInv, RefTypeOK, Relations
  <2>2. relation' = relation
    BY <1>4 DEF RefIndexes
  <2>3. StoredListed'
    BY <1>4, <2>1, <2>2, ListingIndexed DEF StoredListed
  <2>4. ASSUME NEW d \in RefCalls, Running(d)', refCall'[d].op # "register"
        PROVE  Listing(refCall[d].user, refCall[d].rel.chain)'
    <3>1. refCall'[d] = refCall[d] /\ Running(d)
      BY <1>4, <2>4, IndexesPreserves DEF Running
    <3>2. Listing(refCall[d].user, refCall[d].rel.chain)
      BY <2>4, <3>1 DEF CopiesListed
    <3>3. refCall[d].user \in RefUsers /\ refCall[d].rel.chain \in Chains12
      BY <3>1, Running1
    <3> QED
      BY <1>4, <3>1, <3>2, <3>3, ListingIndexed
  <2> QED
    BY <2>3, <2>4 DEF CopiesListed
<1>5. CASE RefPends(c)
  <2>1. refCall'[c].op = "register"
    BY <1>0, <1>5, PendsPreserves DEF RefCallRecords
  <2> QED
    BY <1>5, <2>1, PendsPreserves, CopyStep DEF RefPends
<1>6. CASE RefReadsCount(c)
  <2>1. refCall'[c].op = "register"
    BY <1>0, <1>6, ReadsCountPreserves DEF RefCallRecords
  <2> QED
    BY <1>6, <2>1, ReadsCountPreserves, CopyStep DEF RefReadsCount, recordVars
<1>7. CASE RefCounts(c)
  <2>1. ~ Running(c)'
    BY <1>7, CountsPreserves DEF Running
  <2> QED
    BY <1>7, <2>1, CountsPreserves, CopyStep DEF RefCounts
<1> QED
  BY <1>1, <1>2, <1>3, <1>4, <1>5, <1>6, <1>7

LEMMA CheckStepListed ==
    ASSUME IInv, StoredListed, CopiesListed, NEW c \in RefCalls,
           RefCompletes(c) \/ RefUnpends(c) \/ RefClaims(c)
    PROVE  StoredListed' /\ CopiesListed'
<1>0. /\ Running(c) /\ refCall[c].op = "install" /\ refCall[c].pc # "index"
      /\ refCall[c] \in RefCallRecords /\ refCall[c].user \in RefUsers
      /\ Listing(refCall[c].user, refCall[c].rel.chain)
  <2>1. refCall[c].pc \in CheckPcs
    BY DEF RefCompletes, RefUnpends, RefClaims, CheckPcs
  <2>2. Running(c)
    BY <2>1 DEF Running, CheckPcs
  <2> QED
    BY <2>1, <2>2, Running1 DEF Knows, CopiesListed, CheckPcs
<1>1. CASE RefCompletes(c) \/ RefClaims(c)
  <2>0. PICK u \in RefUsers, ch \in Chains12 : u = refCall[c].user /\ ch = refCall[c].rel.chain
    BY <1>0, Running1
  <2>1. /\ \A d \in RefCalls \ {c} : refCall'[d] = refCall[d]
        /\ referrals' = referrals
        /\ relation'[u].chain = ch
        /\ \A v \in RefUsers \ {u} : relation'[v] = relation[v]
    BY <1>1, <2>0, CompletesPreserves, ClaimsPreserves DEF RefCompletes, RefClaims
  <2>2. Running(c)' => refCall'[c].user = u /\ refCall'[c].rel.chain = ch
    <3>1. CASE RefCompletes(c)
      <4>1. refCall'[c] = [refCall[c] EXCEPT !.pc = "unpend"]
        BY <3>1, CompletesPreserves
      <4> QED
        BY <1>0, <2>0, <4>1 DEF RefCallRecords
    <3>2. CASE RefClaims(c)
      BY <3>2, ClaimsPreserves DEF Running
    <3> QED
      BY <1>1, <3>1, <3>2
  <2>3. Listing(u, ch)'
    BY <1>0, <2>0, <2>1, ListingKept
  <2> QED
    BY <1>0, <2>1, <2>2, <2>3, StoredStep
<1>2. CASE RefUnpends(c)
  <2>1. Running(c)' => refCall'[c].user = refCall[c].user /\ refCall'[c].rel = refCall[c].rel
    <3>1. refCall'[c].pc = "done" \/ refCall'[c] = [refCall[c] EXCEPT !.pc = "reward"]
      BY <1>2, UnpendsPreserves
    <3>2. CASE refCall'[c].pc = "done"
      BY <3>2 DEF Running
    <3>3. CASE refCall'[c] = [refCall[c] EXCEPT !.pc = "reward"]
      BY <1>0, <3>3 DEF RefCallRecords
    <3> QED
      BY <3>1, <3>2, <3>3
  <2> QED
    BY <1>0, <1>2, <2>1, UnpendsPreserves, CopyStep DEF RefUnpends
<1> QED
  BY <1>1, <1>2

LEMMA RewardStepListed ==
    ASSUME IInv, StoredListed, CopiesListed, NEW c \in RefCalls,
           \/ RefChecksCap(c) \/ RefRecords(c) \/ RefReadsCap(c) \/ RefRaisesCap(c)
           \/ RefReadsBalance(c) \/ RefCredits(c)
    PROVE  StoredListed' /\ CopiesListed'
<1>1. /\ Running(c) /\ refCall[c].op \in {"install", "task", "week"}
      /\ refCall[c].pc # "index" /\ refCall[c] \in RefCallRecords
  <2>1. refCall[c].pc \in CapPcs \cup RewardPcs
    BY DEF RefChecksCap, RefRecords, RefReadsCap, RefRaisesCap, RefReadsBalance, RefCredits,
           CapPcs, RewardPcs
  <2>2. Running(c)
    BY <2>1 DEF Running, CapPcs, RewardPcs
  <2> QED
    BY <2>1, <2>2, Running1 DEF Knows, CapPcs, RewardPcs
<1>2. UNCHANGED <<relation, referrals>>
  BY DEF RefChecksCap, RefRecords, RefReadsCap, RefRaisesCap, RefReadsBalance, RefCredits, recordVars
<1>3. \A d \in RefCalls \ {c} : refCall'[d] = refCall[d]
  BY ChecksCapPreserves, RecordsPreserves, ReadsCapPreserves, RaisesCapPreserves,
     ReadsBalancePreserves, CreditsPreserves
<1>4. Running(c)' => refCall'[c].user = refCall[c].user /\ refCall'[c].rel = refCall[c].rel
  <2>1. CASE RefChecksCap(c)
    BY <1>1, <2>1, ChecksCapPreserves DEF RefCallRecords
  <2>2. CASE RefRecords(c)
    <3>1. CASE refCall'[c].pc = "done"
      BY <3>1 DEF Running
    <3>2. CASE refCall'[c] = [refCall[c] EXCEPT !.pc = "balance"]
      BY <1>1, <3>2 DEF RefCallRecords
    <3>3. CASE refCall'[c] = [refCall[c] EXCEPT !.pc = "capRead"]
      BY <1>1, <3>3 DEF RefCallRecords
    <3>4. CASE refCall'[c].user = refCall[c].user /\ refCall'[c].rel = refCall[c].rel
      BY <3>4
    <3> QED
      BY <2>2, <3>1, <3>2, <3>3, <3>4, RecordsPreserves
  <2>3. CASE RefReadsCap(c)
    BY <1>1, <2>3, ReadsCapPreserves DEF RefCallRecords
  <2>4. CASE RefRaisesCap(c)
    <3>1. refCall'[c] = [refCall[c] EXCEPT !.pc = "balance"]
      BY <2>4, RaisesCapPreserves
    <3> QED
      BY <1>1, <3>1 DEF RefCallRecords
  <2>5. CASE RefReadsBalance(c)
    BY <1>1, <2>5, ReadsBalancePreserves DEF RefCallRecords
  <2>6. CASE RefCredits(c)
    <3>1. CASE refCall'[c].pc = "done"
      BY <3>1 DEF Running
    <3>2. CASE refCall'[c] = [refCall[c] EXCEPT !.pc = "claim"]
      BY <1>1, <3>2 DEF RefCallRecords
    <3>3. CASE refCall'[c].user = refCall[c].user /\ refCall'[c].rel = refCall[c].rel
      BY <3>3
    <3> QED
      BY <2>6, <3>1, <3>2, <3>3, CreditsPreserves
  <2> QED
    BY <2>1, <2>2, <2>3, <2>4, <2>5, <2>6
<1> QED
  BY <1>1, <1>2, <1>3, <1>4, CopyStep

LEMMA BeginStepListed ==
    ASSUME IInv, StoredListed, CopiesListed, NEW c \in RefCalls,
           \/ \E u, r \in RefUsers : RefRegisters(c, u, r)
           \/ \E u \in RefUsers : RefChecks(c, u)
           \/ \E u \in RefUsers, op \in {"task", "week"} : RefEarns(c, u, op)
    PROVE  StoredListed' /\ CopiesListed'
<1>1. refCall[c].pc # "index" /\ UNCHANGED <<relation, referrals>>
  BY DEF RefRegisters, RefChecks, RefEarns, recordVars
<1>2. CASE \E u, r \in RefUsers : RefRegisters(c, u, r)
  BY <1>1, <1>2, RegistersPreserves, CopyStep
<1>3. CASE \E u \in RefUsers : RefChecks(c, u)
  BY <1>1, <1>3, ChecksPreserves, CopyStep
<1>4. CASE \E u \in RefUsers, op \in {"task", "week"} : RefEarns(c, u, op)
  BY <1>1, <1>4, EarnsPreserves, CopyStep
<1> QED
  BY <1>2, <1>3, <1>4

LEMMA StepListed == IInv /\ ListedInv /\ [RefNext]_refVars => ListedInv'
<1> SUFFICES ASSUME IInv, ListedInv, [RefNext]_refVars, refCrashes' = 0
             PROVE  StoredListed' /\ CopiesListed'
  BY DEF ListedInv
<1>1. refCrashes = 0 /\ ~ RefCrash
  <2>1. ~ RefCrash
    BY CrashPreserves
  <2>2. ASSUME NEW c \in RefCalls,
               \/ \E u, r \in RefUsers : RefRegisters(c, u, r)
               \/ \E u \in RefUsers : RefChecks(c, u) \/ \E op \in {"task", "week"} : RefEarns(c, u, op)
        PROVE  refCrashes' = refCrashes
    BY <2>2 DEF RefRegisters, RefChecks, RefEarns
  <2>3. ASSUME NEW c \in RefCalls, RegisterStep(c) PROVE refCrashes' = refCrashes
    BY <2>3 DEF RegisterStep, RefExists, RefBuildsChain, RefStores, RefIndexes, RefPends,
       RefReadsCount, RefCounts
  <2>4. ASSUME NEW c \in RefCalls, CheckStep(c) PROVE refCrashes' = refCrashes
    BY <2>4 DEF CheckStep, RefCompletes, RefUnpends, RefClaims
  <2>5. ASSUME NEW c \in RefCalls, RewardStep(c) PROVE refCrashes' = refCrashes
    BY <2>5 DEF RewardStep, RefChecksCap, RefRecords, RefReadsCap, RefRaisesCap, RefReadsBalance,
       RefCredits
  <2>6. UNCHANGED refVars => refCrashes' = refCrashes
    BY DEF refVars
  <2>7. NewMonth => refCrashes' = refCrashes
    BY DEF NewMonth
  <2>8. ASSUME NEW m \in 1 .. RefMonths, NEW u \in RefUsers, RefResetsCap(m, u)
        PROVE  refCrashes' = refCrashes
    BY <2>8 DEF RefResetsCap
  <2> QED
    BY <2>1, <2>2, <2>3, <2>4, <2>5, <2>6, <2>7, <2>8, Zenon DEF RefNext
<1>2. StoredListed /\ CopiesListed
  BY <1>1 DEF ListedInv
<1>3. CASE UNCHANGED <<relation, referrals, refCall>>
  BY <1>2, <1>3 DEF StoredListed, CopiesListed, Listing, Running
<1>4. CASE UNCHANGED refVars
  BY <1>3, <1>4 DEF refVars, recordVars
<1>5. CASE NewMonth \/ \E m \in 1 .. RefMonths, u \in RefUsers : RefResetsCap(m, u)
  BY <1>3, <1>5 DEF NewMonth, RefResetsCap, recordVars
<1> QED
  BY <1>1, <1>2, <1>4, <1>5, Steps, BeginStepListed, RegisterStepListed, CheckStepListed,
     RewardStepListed

LEMMA InitListed == RefInit => ListedInv
BY IdleType DEF RefInit, ListedInv, StoredListed, CopiesListed, Listing, Running

\* However registrations with several codes overwrite each other, and whatever
\* older relationship a check writes back: once registrations have ended, a user
\* is in the index of every referrer its relationship names.
THEOREM ReferrersList == RefSpec => []ReferralListed
<1>1. RefInit => ListedInv
  BY InitListed
<1>2. IInv /\ ListedInv /\ [RefNext]_refVars => ListedInv'
  BY StepListed
<1>3. IInv /\ ListedInv => ReferralListed
  <2> SUFFICES ASSUME IInv, ListedInv, refCrashes = 0, NEW u \in RefUsers,
                      \A c \in RefCalls : Running(c) => refCall[c].user # u \/ refCall[c].op # "register",
                      NEW t \in DOMAIN relation[u].chain
               PROVE  u \in referrals[t][relation[u].chain[t]]
    BY DEF ReferralListed
  <2>1. Listing(u, relation[u].chain)
    BY DEF ListedInv, StoredListed
  <2>2. \A d \in RefCalls : refCall[d].pc = "index" => refCall[d].user # u
    <3> SUFFICES ASSUME NEW d \in RefCalls, refCall[d].pc = "index" PROVE refCall[d].user # u
      OBVIOUS
    <3>1. Running(d)
      BY DEF Running
    <3> QED
      BY <3>1, Running1 DEF Knows, RegisterPcs
  <2> QED
    BY <2>1, <2>2 DEF Listing
<1> QED
  BY <1>1, <1>2, <1>3, IInvHolds, PTL DEF RefSpec

-----------------------------------------------------------------------------
(***************************************************************************)
(* The bonus is paid once.  COMPLETED is stored before the bonus is paid,  *)
(* so, while calls for a user do not overlap, it tells that the bonus may  *)
(* have been paid already; a crash in between leaves it unpaid.            *)
(***************************************************************************)
Contends(c, u) == Running(c) /\ refCall[c].user = u /\ refCall[c].op \in {"register", "install"}

\* One registration or check at a time.
Alone(u) == \A c, d \in RefCalls : Contends(c, u) /\ Contends(d, u) => c = d

\* A bonus paid shows in the stored status; a check that is yet to pay knows
\* that none is; and a registration is about to store over nothing.
BonusKnown(u) ==
    /\ bonuses[u] \in {0, 1}
    /\ bonuses[u] = 1 => relation[u].status = "COMPLETED"
    /\ \A c \in RefCalls : Contends(c, u) =>
          /\ refCall[c].pc \in {"complete", "unpend", "reward", "balance", "credit"} => bonuses[u] = 0
          /\ refCall[c].op = "install" /\ refCall[c].pc # "complete" =>
                relation[u].status = "COMPLETED"
          /\ refCall[c].pc \in {"chain", "store"} => relation[u] = NoRelation

BonusInv == \A u \in RefUsers \ contested : Alone(u) /\ BonusKnown(u)

\* What a step of one call may do to the users that are not its own.
LEMMA OthersBonus ==
    ASSUME BonusInv, NEW c \in RefCalls, NEW u \in RefUsers \ contested,
           \A d \in RefCalls \ {c} : refCall'[d] = refCall[d],
           ~ Contends(c, u)', relation'[u] = relation[u], bonuses'[u] = bonuses[u]
    PROVE  Alone(u)' /\ BonusKnown(u)'
<1>1. \A d \in RefCalls : Contends(d, u)' => d # c /\ Contends(d, u) /\ refCall'[d] = refCall[d]
  BY DEF Contends, Running
<1>2. Alone(u) /\ BonusKnown(u)
  BY DEF BonusInv
<1>3. Alone(u)'
  BY <1>1, <1>2 DEF Alone
<1>4. BonusKnown(u)'
  BY <1>1, <1>2 DEF BonusKnown
<1> QED
  BY <1>3, <1>4

\* A call of its own, which is alone for the user.
LEMMA OwnBonus ==
    ASSUME BonusInv, NEW c \in RefCalls, NEW u \in RefUsers \ contested,
           \A d \in RefCalls \ {c} : refCall'[d] = refCall[d] /\ ~ Contends(d, u),
           bonuses'[u] \in {0, 1}, bonuses'[u] = 1 => relation'[u].status = "COMPLETED",
           Contends(c, u)' =>
             /\ refCall'[c].pc \in {"complete", "unpend", "reward", "balance", "credit"} =>
                   bonuses'[u] = 0
             /\ refCall'[c].op = "install" /\ refCall'[c].pc # "complete" =>
                   relation'[u].status = "COMPLETED"
             /\ refCall'[c].pc \in {"chain", "store"} => relation'[u] = NoRelation
    PROVE  Alone(u)' /\ BonusKnown(u)'
<1>1. \A d \in RefCalls : Contends(d, u)' => d = c
  BY DEF Contends, Running
<1>2. Alone(u)'
  BY <1>1 DEF Alone
<1>3. BonusKnown(u)'
  BY <1>1 DEF BonusKnown
<1> QED
  BY <1>2, <1>3

\* The others do not contend with a call that does.
LEMMA AloneMeans ==
    ASSUME BonusInv, NEW c \in RefCalls, NEW u \in RefUsers \ contested, Contends(c, u)
    PROVE  (\A d \in RefCalls \ {c} : ~ Contends(d, u)) /\ BonusKnown(u)
BY DEF BonusInv, Alone

\* A step of one call for the user w.
LEMMA BonusStep ==
    ASSUME BonusInv, NEW c \in RefCalls, NEW w \in RefUsers, contested \subseteq contested',
           \A d \in RefCalls \ {c} : refCall'[d] = refCall[d],
           \A v \in RefUsers \ {w} : relation'[v] = relation[v] /\ bonuses'[v] = bonuses[v],
           Running(c)' => refCall'[c].user = w,
           w \notin contested' =>
             /\ \A d \in RefCalls \ {c} : ~ Contends(d, w)
             /\ bonuses'[w] \in {0, 1}
             /\ bonuses'[w] = 1 => relation'[w].status = "COMPLETED"
             /\ Contends(c, w)' =>
                  /\ refCall'[c].pc \in {"complete", "unpend", "reward", "balance", "credit"} =>
                        bonuses'[w] = 0
                  /\ refCall'[c].op = "install" /\ refCall'[c].pc # "complete" =>
                        relation'[w].status = "COMPLETED"
                  /\ refCall'[c].pc \in {"chain", "store"} => relation'[w] = NoRelation
    PROVE  BonusInv'
<1> SUFFICES ASSUME NEW u \in RefUsers \ contested' PROVE Alone(u)' /\ BonusKnown(u)'
  BY DEF BonusInv
<1>1. CASE u # w
  <2>1. ~ Contends(c, u)'
    BY <1>1 DEF Contends
  <2> QED
    BY <1>1, <2>1, OthersBonus
<1>2. CASE u = w
  BY <1>2, OwnBonus
<1> QED
  BY <1>1, <1>2

\* A step of one call that changes neither relationships nor bonuses, and gives
\* its call nothing it did not know.
LEMMA QuietStep ==
    ASSUME IInv, BonusInv, NEW c \in RefCalls, Running(c), UNCHANGED <<relation, bonuses, contested>>,
           \A d \in RefCalls \ {c} : refCall'[d] = refCall[d],
           Running(c)' =>
             /\ refCall'[c].user = refCall[c].user
             /\ refCall'[c].op = refCall[c].op
             /\ refCall[c].op = "register" =>
                   /\ refCall'[c].pc \in RegisterPcs
                   /\ refCall'[c].pc \in {"chain", "store"} =>
                         \/ refCall[c].pc \in {"chain", "store"}
                         \/ relation[refCall[c].user] = NoRelation
             /\ refCall[c].op = "install" =>
                   /\ refCall'[c].pc \notin {"complete", "chain", "store"}
                   /\ refCall[c].pc # "complete"
                   /\ refCall'[c].pc \in {"unpend", "reward", "balance", "credit"} =>
                         refCall[c].pc \in {"unpend", "reward", "balance", "credit"}
    PROVE  BonusInv'
<1>1. PICK w \in RefUsers : w = refCall[c].user
  BY Running1
<1>2. CASE refCall[c].op \in {"register", "install"}
  <2>1. Contends(c, w)
    BY <1>1, <1>2 DEF Contends
  <2>2. w \notin contested => (\A d \in RefCalls \ {c} : ~ Contends(d, w)) /\ BonusKnown(w)
    BY <2>1, AloneMeans
  <2>3. w \notin contested /\ Contends(c, w)' =>
          /\ refCall'[c].pc \in {"complete", "unpend", "reward", "balance", "credit"} =>
                bonuses'[w] = 0
          /\ refCall'[c].op = "install" /\ refCall'[c].pc # "complete" =>
                relation'[w].status = "COMPLETED"
          /\ refCall'[c].pc \in {"chain", "store"} => relation'[w] = NoRelation
    <3> SUFFICES ASSUME w \notin contested, Contends(c, w)'
                 PROVE  /\ refCall'[c].pc \in {"complete", "unpend", "reward", "balance", "credit"} =>
                              bonuses'[w] = 0
                        /\ refCall'[c].op = "install" /\ refCall'[c].pc # "complete" =>
                              relation'[w].status = "COMPLETED"
                        /\ refCall'[c].pc \in {"chain", "store"} => relation'[w] = NoRelation
      OBVIOUS
    <3>1. Running(c)' /\ BonusKnown(w)
      BY <2>2 DEF Contends
    <3>3. CASE refCall[c].op = "register"
      <4>1. refCall'[c].pc \in RegisterPcs /\ refCall'[c].op = "register"
        BY <3>1, <3>3
      <4>2. refCall'[c].pc \notin {"complete", "unpend", "reward", "balance", "credit"}
        BY <4>1 DEF RegisterPcs
      <4>3. refCall'[c].pc \in {"chain", "store"} => relation[w] = NoRelation
        BY <1>1, <2>1, <3>1, <3>3 DEF BonusKnown
      <4> QED
        BY <4>1, <4>2, <4>3
    <3>4. CASE refCall[c].op = "install"
      BY <1>1, <2>1, <3>1, <3>4 DEF BonusKnown
    <3> QED
      BY <1>2, <3>3, <3>4
  <2> QED
    BY <1>1, <2>2, <2>3, BonusStep DEF BonusKnown
<1>3. CASE refCall[c].op \notin {"register", "install"}
  <2>1. \A u : ~ Contends(c, u)'
    BY <1>3 DEF Contends
  <2>2. \A u \in RefUsers \ contested : Alone(u)' /\ BonusKnown(u)'
    BY <2>1, OthersBonus
  <2> QED
    BY <2>2 DEF BonusInv
<1> QED
  BY <1>2, <1>3

LEMMA BeginStepBonus ==
    ASSUME IInv, BonusInv, NEW c \in RefCalls,
           \/ \E u, r \in RefUsers : RefRegisters(c, u, r)
           \/ \E u \in RefUsers : RefChecks(c, u)
           \/ \E u \in RefUsers, op \in {"task", "week"} : RefEarns(c, u, op)
    PROVE  BonusInv'
<1>1. ASSUME NEW u \in RefUsers, NEW r \in RefUsers, RefRegisters(c, u, r) PROVE BonusInv'
  <2>1. UNCHANGED <<relation, bonuses>> /\ contested \subseteq contested'
    BY <1>1 DEF RefRegisters, recordVars
  <2>2. u \notin contested' =>
          (\A d \in RefCalls \ {c} : ~ Contends(d, u)) /\ bonuses[u] \in {0, 1}
          /\ (bonuses[u] = 1 => relation[u].status = "COMPLETED")
    BY <1>1 DEF RefRegisters, Contending, Contends, BonusInv, BonusKnown
  <2>3. refCall'[c].pc = "exists" /\ refCall'[c].op = "register" /\ refCall'[c].user = u
        /\ \A d \in RefCalls \ {c} : refCall'[d] = refCall[d]
    BY <1>1, RegistersPreserves
  <2> QED
    BY <2>1, <2>2, <2>3, BonusStep
<1>2. ASSUME NEW u \in RefUsers, RefChecks(c, u) PROVE BonusInv'
  <2>1. UNCHANGED <<relation, bonuses>> /\ contested \subseteq contested'
    BY <1>2 DEF RefChecks, recordVars
  <2>2. u \notin contested' => (\A d \in RefCalls \ {c} : ~ Contends(d, u)) /\ bonuses[u] = 0
    BY <1>2 DEF RefChecks, MayComplete, Contending, Contends, BonusInv, BonusKnown
  <2>3. refCall'[c].pc = "complete" /\ refCall'[c].user = u
        /\ \A d \in RefCalls \ {c} : refCall'[d] = refCall[d]
    BY <1>2, ChecksPreserves
  <2> QED
    BY <2>1, <2>2, <2>3, BonusStep
<1>3. ASSUME NEW u \in RefUsers, NEW op \in {"task", "week"}, RefEarns(c, u, op) PROVE BonusInv'
  <2>1. UNCHANGED <<relation, bonuses, contested>>
    BY <1>3 DEF RefEarns, recordVars
  <2>2. refCall'[c].op = op /\ \A d \in RefCalls \ {c} : refCall'[d] = refCall[d]
    BY <1>3, EarnsPreserves
  <2>3. \A v : ~ Contends(c, v)'
    BY <2>2 DEF Contends
  <2>4. \A v \in RefUsers \ contested : Alone(v)' /\ BonusKnown(v)'
    BY <2>1, <2>2, <2>3, OthersBonus
  <2> QED
    BY <2>1, <2>4 DEF BonusInv
<1> QED
  BY <1>1, <1>2, <1>3

LEMMA RegisterStepBonus ==
    ASSUME IInv, BonusInv, NEW c \in RefCalls,
           \/ RefExists(c) \/ RefBuildsChain(c) \/ RefStores(c) \/ RefIndexes(c)
           \/ RefPends(c) \/ RefReadsCount(c) \/ RefCounts(c)
    PROVE  BonusInv'
<1>0. Running(c) /\ refCall[c].op = "register" /\ refCall[c] \in RefCallRecords
      /\ refCall[c].user \in RefUsers
  <2>1. refCall[c].pc \in RegisterPcs
    BY DEF RefExists, RefBuildsChain, RefStores, RefIndexes, RefPends, RefReadsCount, RefCounts,
           RegisterPcs
  <2>2. Running(c)
    BY <2>1 DEF Running, RegisterPcs
  <2> QED
    BY <2>1, <2>2, Running1 DEF Knows
<1>1. CASE RefExists(c)
  <2>1. Running(c)' => /\ relation[refCall[c].user] = NoRelation
                       /\ refCall'[c] = [refCall[c] EXCEPT !.pc = "chain"]
    BY <1>1, ExistsPreserves DEF Running
  <2>2. Running(c)' => /\ relation[refCall[c].user] = NoRelation
                       /\ refCall'[c].user = refCall[c].user /\ refCall'[c].op = "register"
                       /\ refCall'[c].pc \in RegisterPcs
    BY <1>0, <2>1 DEF RefCallRecords, RegisterPcs
  <2> QED
    BY <1>0, <1>1, <2>2, ExistsPreserves, QuietStep DEF RefExists, recordVars, refHistories
<1>2. CASE RefBuildsChain(c)
  <2>1. "store" \in RegisterPcs /\ refCall[c].pc \in {"chain", "store"}
    BY <1>2 DEF RegisterPcs, RefBuildsChain
  <2> QED
    BY <1>0, <1>2, <2>1, BuildsChainPreserves, QuietStep DEF RefBuildsChain, recordVars, refHistories
<1>3. CASE RefStores(c)
  <2>0. PICK w \in RefUsers : w = refCall[c].user
    BY <1>0
  <2>1. relation'[w].status = "PENDING" /\ \A v \in RefUsers \ {w} : relation'[v] = relation[v]
    <3>1. relation'[refCall[c].user] =
              [chain |-> refCall[c].rel.chain, status |-> "PENDING", claimed |-> FALSE]
          /\ \A v \in RefUsers \ {refCall[c].user} : relation'[v] = relation[v]
      BY <1>3, StoresPreserves
    <3> QED
      BY <2>0, <3>1
  <2>2. UNCHANGED <<bonuses, contested>>
    BY <1>3 DEF RefStores, refHistories
  <2>3. w \notin contested => (\A d \in RefCalls \ {c} : ~ Contends(d, w)) /\ bonuses[w] = 0
    <3> SUFFICES ASSUME w \notin contested
                 PROVE  (\A d \in RefCalls \ {c} : ~ Contends(d, w)) /\ bonuses[w] = 0
      OBVIOUS
    <3>1. Contends(c, w) /\ refCall[c].pc = "store"
      BY <1>0, <1>3, <2>0 DEF Contends, RefStores
    <3>2. (\A d \in RefCalls \ {c} : ~ Contends(d, w)) /\ BonusKnown(w)
      BY <3>1, AloneMeans
    <3>3. relation[w] = NoRelation
      BY <3>1, <3>2 DEF BonusKnown
    <3> QED
      BY <3>2, <3>3, IdleType DEF BonusKnown
  <2>4. refCall'[c].pc = "index" /\ refCall'[c].op = "register" /\ refCall'[c].user = w
        /\ \A d \in RefCalls \ {c} : refCall'[d] = refCall[d]
    <3>1. refCall'[c] = [refCall[c] EXCEPT !.pc = "index"]
          /\ \A d \in RefCalls \ {c} : refCall'[d] = refCall[d]
      BY <1>3, StoresPreserves
    <3> QED
      BY <1>0, <2>0, <3>1 DEF RefCallRecords
  <2> QED
    BY <2>1, <2>2, <2>3, <2>4, BonusStep
<1>4. CASE RefIndexes(c)
  <2>1. {"index", "pend"} \subseteq RegisterPcs
    BY DEF RegisterPcs
  <2>2. /\ refCall'[c].op = "register" /\ refCall'[c].user = refCall[c].user
        /\ refCall'[c].pc \in {"index", "pend"}
        /\ \A d \in RefCalls \ {c} : refCall'[d] = refCall[d]
        /\ UNCHANGED <<relation, bonuses, contested>>
    BY <1>4, IndexesPreserves DEF RefIndexes, refHistories
  <2> QED
    BY <1>0, <2>1, <2>2, QuietStep
<1>5. CASE RefPends(c)
  <2>1. "referrer" \in RegisterPcs
    BY DEF RegisterPcs
  <2>2. /\ refCall'[c].op = "register" /\ refCall'[c].user = refCall[c].user
        /\ refCall'[c].pc = "referrer"
    BY <1>0, <1>5, PendsPreserves DEF RefCallRecords
  <2> QED
    BY <1>0, <1>5, <2>1, <2>2, PendsPreserves, QuietStep DEF RefPends, refHistories
<1>6. CASE RefReadsCount(c)
  <2>1. "count" \in RegisterPcs
    BY DEF RegisterPcs
  <2>2. /\ refCall'[c].op = "register" /\ refCall'[c].user = refCall[c].user
        /\ refCall'[c].pc = "count"
    BY <1>0, <1>6, ReadsCountPreserves DEF RefCallRecords
  <2> QED
    BY <1>0, <1>6, <2>1, <2>2, ReadsCountPreserves, QuietStep DEF RefReadsCount, recordVars, refHistories
<1>7. CASE RefCounts(c)
  <2>1. ~ Running(c)'
    BY <1>7, CountsPreserves DEF Running
  <2> QED
    BY <1>0, <1>7, <2>1, CountsPreserves, QuietStep DEF RefCounts, refHistories
<1> QED
  BY <1>1, <1>2, <1>3, <1>4, <1>5, <1>6, <1>7

LEMMA CheckStepBonus ==
    ASSUME IInv, BonusInv, NEW c \in RefCalls, RefCompletes(c) \/ RefUnpends(c) \/ RefClaims(c)
    PROVE  BonusInv'
<1>0. /\ Running(c) /\ refCall[c].op = "install" /\ refCall[c] \in RefCallRecords
      /\ refCall[c].user \in RefUsers
  <2>1. refCall[c].pc \in CheckPcs
    BY DEF RefCompletes, RefUnpends, RefClaims, CheckPcs
  <2>2. Running(c)
    BY <2>1 DEF Running, CheckPcs
  <2> QED
    BY <2>1, <2>2, Running1 DEF Knows, CheckPcs
<1>1. CASE RefCompletes(c) \/ RefClaims(c)
  <2>0. PICK w \in RefUsers : w = refCall[c].user
    BY <1>0
  <2>1. /\ \A d \in RefCalls \ {c} : refCall'[d] = refCall[d]
        /\ relation'[w].status = "COMPLETED"
        /\ \A v \in RefUsers \ {w} : relation'[v] = relation[v]
    BY <1>1, <2>0, CompletesPreserves, ClaimsPreserves
  <2>2. UNCHANGED <<bonuses, contested>>
    BY <1>1 DEF RefCompletes, RefClaims, refHistories
  <2>3. w \notin contested => (\A d \in RefCalls \ {c} : ~ Contends(d, w)) /\ bonuses[w] \in {0, 1}
    BY <1>0, <2>0, AloneMeans DEF Contends, BonusKnown
  <2>4. CASE RefCompletes(c)
    <3>1. refCall'[c].pc = "unpend" /\ refCall'[c].user = w
      <4>1. refCall'[c] = [refCall[c] EXCEPT !.pc = "unpend"]
        BY <2>4, CompletesPreserves
      <4> QED
        BY <1>0, <2>0, <4>1 DEF RefCallRecords
    <3>2. w \notin contested => bonuses[w] = 0
      BY <1>0, <2>0, <2>4, AloneMeans DEF Contends, BonusKnown, RefCompletes
    <3> QED
      BY <2>1, <2>2, <2>3, <3>1, <3>2, BonusStep
  <2>5. CASE RefClaims(c)
    <3>1. ~ Running(c)'
      BY <2>5, ClaimsPreserves DEF Running
    <3> QED
      BY <2>1, <2>2, <2>3, <3>1, BonusStep DEF Contends
  <2> QED
    BY <1>1, <2>4, <2>5
<1>2. CASE RefUnpends(c)
  <2>1. /\ UNCHANGED <<relation, bonuses, contested>> /\ refCall[c].pc = "unpend"
        /\ \A d \in RefCalls \ {c} : refCall'[d] = refCall[d]
    BY <1>2, UnpendsPreserves DEF RefUnpends, refHistories
  <2>2. Running(c)' => /\ refCall'[c].user = refCall[c].user
                       /\ refCall'[c].op = "install" /\ refCall'[c].pc = "reward"
    <3>1. refCall'[c].pc = "done" \/ refCall'[c] = [refCall[c] EXCEPT !.pc = "reward"]
      BY <1>2, UnpendsPreserves
    <3> QED
      BY <1>0, <3>1 DEF Running, RefCallRecords
  <2> QED
    BY <1>0, <2>1, <2>2, QuietStep
<1> QED
  BY <1>1, <1>2

\* The credit of a bonus.
LEMMA InstallCreditBonus ==
    ASSUME IInv, BonusInv, NEW c \in RefCalls, RefCredits(c), refCall[c].op = "install"
    PROVE  BonusInv'
<1>0. Running(c) /\ refCall[c].pc = "credit" /\ refCall[c].user \in RefUsers
      /\ refCall[c] \in RefCallRecords
  BY Running1 DEF RefCredits, Running
<1>1. PICK w \in RefUsers : w = refCall[c].user
  BY <1>0
<1>2. UNCHANGED <<relation, contested>>
  BY DEF RefCredits, recordVars
<1>3. /\ \A d \in RefCalls \ {c} : refCall'[d] = refCall[d]
      /\ refCall'[c] = [refCall[c] EXCEPT !.pc = "claim"]
      /\ bonuses'[w] = bonuses[w] + 1
      /\ \A v \in RefUsers \ {w} : bonuses'[v] = bonuses[v]
  <2>1. /\ \A d \in RefCalls \ {c} : refCall'[d] = refCall[d]
        /\ refCall'[c] = [refCall[c] EXCEPT !.pc = "claim"]
        /\ bonuses'[refCall[c].user] = bonuses[refCall[c].user] + 1
        /\ \A v \in RefUsers \ {refCall[c].user} : bonuses'[v] = bonuses[v]
    <3>1. refCall[c].op \notin {"task", "week"}
      OBVIOUS
    <3> QED
      BY <3>1, CreditsPreserves, Zenon
  <2> QED
    BY <1>1, <2>1
<1>4. w \notin contested =>
        (\A d \in RefCalls \ {c} : ~ Contends(d, w)) /\ bonuses[w] = 0
        /\ relation[w].status = "COMPLETED"
  BY <1>0, <1>1, AloneMeans DEF Contends, BonusKnown
<1>5. refCall'[c].pc = "claim" /\ refCall'[c].user = w
  BY <1>0, <1>1, <1>3 DEF RefCallRecords
<1>6. w \notin contested' => bonuses'[w] = 1 /\ relation'[w].status = "COMPLETED"
  BY <1>2, <1>3, <1>4
<1>7. \A v \in RefUsers \ {w} : relation'[v] = relation[v] /\ bonuses'[v] = bonuses[v]
  BY <1>2, <1>3
<1>8. /\ refCall'[c].pc \notin {"complete", "unpend", "reward", "balance", "credit"}
      /\ refCall'[c].pc \notin {"chain", "store"}
  BY <1>5
<1> QED
  BY <1>2, <1>3, <1>4, <1>5, <1>6, <1>7, <1>8, BonusStep

LEMMA RewardStepBonus ==
    ASSUME IInv, BonusInv, NEW c \in RefCalls,
           \/ RefChecksCap(c) \/ RefRecords(c) \/ RefReadsCap(c) \/ RefRaisesCap(c)
           \/ RefReadsBalance(c) \/ RefCredits(c)
    PROVE  BonusInv'
<1>1. /\ Running(c) /\ refCall[c].op \in {"install", "task", "week"}
      /\ refCall[c].pc \in CapPcs \cup RewardPcs /\ refCall[c] \in RefCallRecords
      /\ refCall[c].pc \in CapPcs => refCall[c].op = "week"
  <2>1. refCall[c].pc \in CapPcs \cup RewardPcs
    BY DEF RefChecksCap, RefRecords, RefReadsCap, RefRaisesCap, RefReadsBalance, RefCredits,
           CapPcs, RewardPcs
  <2>2. Running(c)
    BY <2>1 DEF Running, CapPcs, RewardPcs
  <2> QED
    BY <2>1, <2>2, Running1 DEF Knows, CapPcs, RewardPcs
<1>2. CASE RefCredits(c) /\ refCall[c].op = "install"
  BY <1>2, InstallCreditBonus
<1>3. CASE ~ (RefCredits(c) /\ refCall[c].op = "install")
  <2>1. UNCHANGED <<relation, bonuses, contested>>
    BY <1>3 DEF RefChecksCap, RefRecords, RefReadsCap, RefRaisesCap, RefReadsBalance, RefCredits,
                recordVars, refHistories
  <2>2. \A d \in RefCalls \ {c} : refCall'[d] = refCall[d]
    BY ChecksCapPreserves, RecordsPreserves, ReadsCapPreserves, RaisesCapPreserves,
       ReadsBalancePreserves, CreditsPreserves
  <2>3. Running(c)' =>
           /\ refCall'[c].user = refCall[c].user /\ refCall'[c].op = refCall[c].op
           /\ refCall[c].op = "install" => refCall'[c].pc \in {"balance", "credit"}
    <3>1. CASE RefChecksCap(c)
      <4>1. refCall[c].op = "week"
        BY <1>1, <3>1 DEF RefChecksCap, CapPcs
      <4> QED
        BY <1>1, <3>1, <4>1, ChecksCapPreserves DEF RefCallRecords
    <3>2. CASE RefRecords(c)
      <4>1. CASE refCall'[c].pc = "done"
        BY <4>1 DEF Running
      <4>2. CASE refCall'[c] = [refCall[c] EXCEPT !.pc = "balance"]
        BY <1>1, <4>2 DEF RefCallRecords
      <4>3. CASE refCall[c].op = "week" /\ refCall'[c] = [refCall[c] EXCEPT !.pc = "capRead"]
        BY <1>1, <4>3 DEF RefCallRecords
      <4>4. CASE refCall[c].op = "week" /\ refCall'[c].op = "week" /\ refCall'[c].user = refCall[c].user
        BY <4>4
      <4>5. \/ refCall'[c].pc = "done"
            \/ refCall'[c] = [refCall[c] EXCEPT !.pc = "balance"]
            \/ refCall[c].op = "week" /\ refCall'[c] = [refCall[c] EXCEPT !.pc = "capRead"]
            \/ refCall[c].op = "week" /\ refCall'[c].op = "week" /\ refCall'[c].user = refCall[c].user
        BY <3>2, RecordsPreserves, Zenon
      <4> QED
        BY <4>1, <4>2, <4>3, <4>4, <4>5
    <3>3. CASE RefReadsCap(c)
      <4>1. refCall[c].op = "week"
        BY <1>1, <3>3 DEF RefReadsCap, CapPcs
      <4> QED
        BY <1>1, <3>3, <4>1, ReadsCapPreserves DEF RefCallRecords
    <3>4. CASE RefRaisesCap(c)
      <4>1. refCall'[c] = [refCall[c] EXCEPT !.pc = "balance"]
        BY <3>4, RaisesCapPreserves
      <4> QED
        BY <1>1, <4>1 DEF RefCallRecords
    <3>5. CASE RefReadsBalance(c)
      <4>1. PICK n : n = points[Referrer(c)]
        OBVIOUS
      <4>2. refCall'[c] = [refCall[c] EXCEPT !.pc = "credit", !.read = n]
        BY <3>5, <4>1, ReadsBalancePreserves
      <4> QED
        BY <1>1, <4>2 DEF RefCallRecords
    <3>6. CASE RefCredits(c)
      <4>1. CASE refCall'[c].pc = "done"
        BY <4>1 DEF Running
      <4>2. CASE refCall'[c].op = refCall[c].op /\ refCall'[c].user = refCall[c].user
        BY <1>3, <3>6, <4>2
      <4>3. \/ refCall'[c].pc = "done"
            \/ refCall'[c].op = refCall[c].op /\ refCall'[c].user = refCall[c].user
        BY <1>3, <3>6, CreditsPreserves, Zenon
      <4> QED
        BY <4>1, <4>2, <4>3
    <3> QED
      BY <3>1, <3>2, <3>3, <3>4, <3>5, <3>6
  <2>4. refCall[c].op = "install" => refCall[c].pc \in {"reward", "balance", "credit"}
    BY <1>1 DEF CapPcs, RewardPcs
  <2>5. refCall[c].op # "register"
    BY <1>1
  <2> QED
    BY <1>1, <2>1, <2>2, <2>3, <2>4, <2>5, QuietStep
<1> QED
  BY <1>2, <1>3

LEMMA StepBonus == IInv /\ BonusInv /\ [RefNext]_refVars => BonusInv'
<1> SUFFICES ASSUME IInv, BonusInv, [RefNext]_refVars PROVE BonusInv'
  OBVIOUS
<1>1. CASE UNCHANGED refVars \/ NewMonth \/ \E m \in 1 .. RefMonths, u \in RefUsers : RefResetsCap(m, u)
  <2>1. UNCHANGED <<relation, refCall, bonuses, contested>>
    BY <1>1 DEF refVars, recordVars, refHistories, NewMonth, RefResetsCap
  <2> QED
    BY <2>1 DEF BonusInv, Alone, BonusKnown, Contends, Running
<1>2. CASE RefCrash
  <2>1. (\A c \in RefCalls : ~ Running(c)') /\ UNCHANGED <<relation, bonuses, contested>>
    BY <1>2, CrashPreserves DEF RefCrash, recordVars, refHistories
  <2> QED
    BY <2>1 DEF BonusInv, Alone, BonusKnown, Contends
<1>3. ASSUME NEW c \in RefCalls,
             \/ \E u, r \in RefUsers : RefRegisters(c, u, r)
             \/ \E u \in RefUsers : RefChecks(c, u)
             \/ \E u \in RefUsers, op \in {"task", "week"} : RefEarns(c, u, op)
      PROVE  BonusInv'
  BY <1>3, BeginStepBonus
<1>4. ASSUME NEW c \in RefCalls,
             \/ RefExists(c) \/ RefBuildsChain(c) \/ RefStores(c) \/ RefIndexes(c)
             \/ RefPends(c) \/ RefReadsCount(c) \/ RefCounts(c)
      PROVE  BonusInv'
  BY <1>4, RegisterStepBonus
<1>5. ASSUME NEW c \in RefCalls, RefCompletes(c) \/ RefUnpends(c) \/ RefClaims(c)
      PROVE  BonusInv'
  BY <1>5, CheckStepBonus
<1>6. ASSUME NEW c \in RefCalls,
             \/ RefChecksCap(c) \/ RefRecords(c) \/ RefReadsCap(c) \/ RefRaisesCap(c)
             \/ RefReadsBalance(c) \/ RefCredits(c)
      PROVE  BonusInv'
  BY <1>6, RewardStepBonus
<1> QED
  BY <1>1, <1>2, <1>3, <1>4, <1>5, <1>6, Steps

LEMMA InitBonus == RefInit => BonusInv
<1> SUFFICES ASSUME RefInit PROVE BonusInv
  OBVIOUS
<1>1. \A c \in RefCalls : ~ Running(c)
  BY IdleType DEF RefInit, Running
<1> QED
  BY <1>1 DEF RefInit, BonusInv, Alone, BonusKnown, Contends

\* The installation reward of a user is credited once, through crashes and
\* however often check24HourCompletion runs, unless two calls for it overlap.
THEOREM BonusOnce == RefSpec => []BonusPaidOnce
<1>1. RefInit => BonusInv
  BY InitBonus
<1>2. IInv /\ BonusInv /\ [RefNext]_refVars => BonusInv'
  BY StepBonus
<1>3. BonusInv => BonusPaidOnce
  BY DEF BonusInv, BonusKnown, BonusPaidOnce
<1> QED
  BY <1>1, <1>2, <1>3, IInvHolds, PTL DEF RefSpec

-----------------------------------------------------------------------------
(***************************************************************************)
(* The monthly cap.  While distributions do not overlap, the one under way *)
(* is the only writer of cap records: it raises the record before it       *)
(* credits the points, so the record never lags behind what was credited,  *)
(* and what was read of it is still true when it is written back.          *)
(***************************************************************************)
WeekCall(c) == Running(c) /\ refCall[c].op = "week"

EarnedBy(c) == monthlyCap[refCall[c].paid][Referrer(c)].earned

\* What a distribution knows: that its amount fits, the cap record it read, and,
\* once it has raised the record, that its amount is in it.
WeekKnows(c) ==
    /\ refCall[c].pc \in {"reward", "capRead", "capWrite"} => EarnedBy(c) + refCall[c].amount <= RefCap
    /\ refCall[c].pc = "capWrite" => refCall[c].cap = monthlyCap[refCall[c].paid][Referrer(c)]
    /\ refCall[c].pc \in {"balance", "credit"} =>
          weekPoints[refCall[c].paid][Referrer(c)] + refCall[c].amount <= EarnedBy(c)

OneDistribution == \A c, d \in RefCalls : WeekCall(c) /\ WeekCall(d) => c = d
WithinCap ==
    \A m \in 1 .. RefMonths, u \in RefUsers :
        weekPoints[m][u] <= RefCap /\ monthlyCap[m][u].earned <= RefCap
\* Records of earlier months may have been deleted.
Counted ==
    \A m \in 1 .. RefMonths, u \in RefUsers :
        m >= month \/ (\E c \in RefCalls : WeekCall(c) /\ refCall[c].paid = m) =>
            weekPoints[m][u] <= monthlyCap[m][u].earned

CapInv ==
    ~ overlapping =>
        OneDistribution /\ WithinCap /\ Counted /\ \A c \in RefCalls : WeekCall(c) => WeekKnows(c)

\* Steps of calls that are not distributions.
LEMMA OtherCap ==
    ASSUME IInv, CapInv, NEW c \in RefCalls, ~ WeekCall(c), ~ WeekCall(c)',
           \A d \in RefCalls \ {c} : refCall'[d] = refCall[d],
           UNCHANGED <<monthlyCap, weekPoints, overlapping, month>>
    PROVE  CapInv'
<1> SUFFICES ASSUME ~ overlapping
             PROVE  OneDistribution' /\ WithinCap' /\ Counted'
                    /\ \A d \in RefCalls : WeekCall(d)' => WeekKnows(d)'
  BY DEF CapInv
<1>1. \A d \in RefCalls : WeekCall(d)' => WeekCall(d) /\ refCall'[d] = refCall[d]
  BY DEF WeekCall, Running
<1>2. OneDistribution /\ WithinCap /\ Counted /\ \A d \in RefCalls : WeekCall(d) => WeekKnows(d)
  BY DEF CapInv
<1>3. OneDistribution'
  BY <1>1, <1>2 DEF OneDistribution
<1>4. WithinCap'
  BY <1>2 DEF WithinCap
<1>5. Counted'
  <2>1. \A m : (\E d \in RefCalls : WeekCall(d)' /\ refCall'[d].paid = m) =>
               \E d \in RefCalls : WeekCall(d) /\ refCall[d].paid = m
    BY <1>1
  <2> QED
    BY <1>2, <2>1 DEF Counted
<1>6. \A d \in RefCalls : WeekCall(d)' => WeekKnows(d)'
  BY <1>1, <1>2 DEF WeekKnows, EarnedBy, Referrer
<1> QED
  BY <1>3, <1>4, <1>5, <1>6

\* Steps of a distribution.
LEMMA WeekMoves ==
    ASSUME IInv, CapInv, ~ overlapping, NEW c \in RefCalls, WeekCall(c),
           \A d \in RefCalls \ {c} : refCall'[d] = refCall[d], month' = month,
           WeekCall(c)' => refCall'[c].paid \in {refCall[c].paid, month},
           WithinCap',
           \A m \in 1 .. RefMonths, u \in RefUsers :
              weekPoints[m][u] <= monthlyCap[m][u].earned =>
                 weekPoints'[m][u] <= monthlyCap'[m][u].earned,
           WeekCall(c)' => WeekKnows(c)'
    PROVE  CapInv'
<1>1. OneDistribution /\ Counted
  BY DEF CapInv
<1>2. \A d \in RefCalls : WeekCall(d)' => d = c
  BY <1>1 DEF OneDistribution, WeekCall, Running
<1>3. OneDistribution'
  BY <1>2 DEF OneDistribution
<1>4. Counted'
  <2> SUFFICES ASSUME NEW m \in 1 .. RefMonths, NEW u \in RefUsers,
                      m >= month' \/ \E d \in RefCalls : WeekCall(d)' /\ refCall'[d].paid = m
               PROVE  weekPoints'[m][u] <= monthlyCap'[m][u].earned
    BY DEF Counted
  <2>1. m >= month \/ \E d \in RefCalls : WeekCall(d) /\ refCall[d].paid = m
    <3>1. CASE m >= month'
      BY <3>1
    <3>2. CASE \E d \in RefCalls : WeekCall(d)' /\ refCall'[d].paid = m
      <4>1. m \in {refCall[c].paid, month}
        BY <1>2, <3>2
      <4> QED
        BY <4>1 DEF IInv, RefTypeOK
    <3> QED
      BY <3>1, <3>2
  <2> QED
    BY <1>1, <2>1 DEF Counted
<1> QED
  BY <1>2, <1>3, <1>4 DEF CapInv

\* A distribution's own record, and the tables it looks into.
LEMMA WeekFacts ==
    ASSUME IInv, NEW c \in RefCalls, WeekCall(c)
    PROVE  /\ refCall[c] \in RefCallRecords /\ refCall[c].amount \in Nat
           /\ refCall[c].paid \in 1 .. RefMonths /\ Referrer(c) \in RefUsers
           /\ \A m \in 1 .. RefMonths, u \in RefUsers :
                 monthlyCap[m][u] \in CapRecords /\ monthlyCap[m][u].earned \in Nat
                 /\ weekPoints[m][u] \in Nat
<1>1. Running(c)
  BY DEF WeekCall
<1>2. \A m \in 1 .. RefMonths, u \in RefUsers :
          monthlyCap[m][u] \in CapRecords /\ weekPoints[m][u] \in Nat
  BY DEF IInv, RefTypeOK
<1> QED
  BY <1>1, <1>2, Running1, CallFields DEF CapRecords

\* A step that moves a distribution and leaves the tables alone.
LEMMA WeekReads ==
    ASSUME IInv, CapInv, ~ overlapping, NEW c \in RefCalls, WeekCall(c),
           \A d \in RefCalls \ {c} : refCall'[d] = refCall[d],
           UNCHANGED <<monthlyCap, weekPoints, month>>,
           WeekCall(c)' => refCall'[c].paid \in {refCall[c].paid, month},
           WeekCall(c)' => WeekKnows(c)'
    PROVE  CapInv'
<1>1. WithinCap'
  BY DEF CapInv, WithinCap
<1>2. \A m \in 1 .. RefMonths, u \in RefUsers :
         weekPoints[m][u] <= monthlyCap[m][u].earned => weekPoints'[m][u] <= monthlyCap'[m][u].earned
  OBVIOUS
<1> QED
  BY <1>1, <1>2, WeekMoves

LEMMA ChecksCapCap ==
    ASSUME IInv, CapInv, ~ overlapping, NEW c \in RefCalls, RefChecksCap(c), WeekCall(c)
    PROVE  CapInv'
<1> DEFINE n == Allowed(monthlyCap[refCall[c].paid][Referrer(c)], refCall[c].amount)
<1>1. /\ refCall'[c] = [refCall[c] EXCEPT !.pc = "reward", !.amount = n]
      /\ \A d \in RefCalls \ {c} : refCall'[d] = refCall[d]
  BY ChecksCapPreserves
<1>2. EarnedBy(c) + n <= RefCap
  <2>1. EarnedBy(c) <= RefCap
    BY WeekFacts DEF CapInv, WithinCap, EarnedBy
  <2> QED
    BY <2>1, WeekFacts, AllowedFits DEF EarnedBy
<1> HIDE DEF n
<1>3. /\ refCall'[c].pc = "reward" /\ refCall'[c].amount = n /\ refCall'[c].paid = refCall[c].paid
      /\ refCall'[c].rel = refCall[c].rel /\ refCall'[c].tier = refCall[c].tier
  BY <1>1, WeekFacts DEF RefCallRecords
<1>4. UNCHANGED <<monthlyCap, weekPoints, month>>
  BY DEF RefChecksCap, rewardVars, refHistories
<1>5. WeekKnows(c)'
  BY <1>2, <1>3, <1>4 DEF WeekKnows, EarnedBy, Referrer
<1> QED
  BY <1>1, <1>3, <1>4, <1>5, WeekReads

LEMMA RecordsCap ==
    ASSUME IInv, CapInv, ~ overlapping, NEW c \in RefCalls, RefRecords(c), WeekCall(c)
    PROVE  CapInv'
<1>1. \A d \in RefCalls \ {c} : refCall'[d] = refCall[d]
  BY RecordsPreserves
<1>2. \/ refCall'[c].pc = "done"
      \/ refCall'[c] = [refCall[c] EXCEPT !.pc = "capRead"]
      \/ refCall'[c].pc = "cap" /\ refCall'[c].paid = month
  BY RecordsPreserves, Zenon DEF WeekCall
<1>3. UNCHANGED <<monthlyCap, weekPoints, month>>
  BY DEF RefRecords, refHistories
<1>4. EarnedBy(c) + refCall[c].amount <= RefCap
  BY DEF CapInv, WeekKnows, RefRecords
<1>5. WeekCall(c)' => refCall'[c].paid \in {refCall[c].paid, month} /\ WeekKnows(c)'
  <2>1. CASE refCall'[c].pc = "done"
    BY <2>1 DEF WeekCall, Running
  <2>2. CASE refCall'[c] = [refCall[c] EXCEPT !.pc = "capRead"]
    <3>1. /\ refCall'[c].pc = "capRead" /\ refCall'[c].amount = refCall[c].amount
          /\ refCall'[c].paid = refCall[c].paid
          /\ refCall'[c].rel = refCall[c].rel /\ refCall'[c].tier = refCall[c].tier
      BY <2>2, WeekFacts DEF RefCallRecords
    <3> QED
      BY <1>3, <1>4, <3>1 DEF WeekKnows, EarnedBy, Referrer
  <2>3. CASE refCall'[c].pc = "cap" /\ refCall'[c].paid = month
    BY <2>3 DEF WeekKnows
  <2> QED
    BY <1>2, <2>1, <2>2, <2>3
<1> QED
  BY <1>1, <1>3, <1>5, WeekReads

LEMMA ReadsCapCap ==
    ASSUME IInv, CapInv, ~ overlapping, NEW c \in RefCalls, RefReadsCap(c), WeekCall(c)
    PROVE  CapInv'
<1> DEFINE n == monthlyCap[refCall[c].paid][Referrer(c)]
<1>1. /\ refCall'[c] = [refCall[c] EXCEPT !.pc = "capWrite", !.cap = n]
      /\ \A d \in RefCalls \ {c} : refCall'[d] = refCall[d]
  BY ReadsCapPreserves
<1>2. n = monthlyCap[refCall[c].paid][Referrer(c)]
  OBVIOUS
<1> HIDE DEF n
<1>3. /\ refCall'[c].pc = "capWrite" /\ refCall'[c].cap = n
      /\ refCall'[c].amount = refCall[c].amount /\ refCall'[c].paid = refCall[c].paid
      /\ refCall'[c].rel = refCall[c].rel /\ refCall'[c].tier = refCall[c].tier
  BY <1>1, WeekFacts DEF RefCallRecords
<1>4. UNCHANGED <<monthlyCap, weekPoints, month>>
  BY DEF RefReadsCap, rewardVars, refHistories
<1>5. EarnedBy(c) + refCall[c].amount <= RefCap
  BY DEF CapInv, WeekKnows, RefReadsCap
<1>6. WeekKnows(c)'
  BY <1>2, <1>3, <1>4, <1>5 DEF WeekKnows, EarnedBy, Referrer
<1> QED
  BY <1>1, <1>3, <1>4, <1>6, WeekReads

LEMMA RaisesCapCap ==
    ASSUME IInv, CapInv, ~ overlapping, NEW c \in RefCalls, RefRaisesCap(c), WeekCall(c)
    PROVE  CapInv'
<1> DEFINE m0 == refCall[c].paid
           u0 == Referrer(c)
<1>1. /\ refCall'[c] = [refCall[c] EXCEPT !.pc = "balance"]
      /\ \A d \in RefCalls \ {c} : refCall'[d] = refCall[d]
      /\ monthlyCap'[m0][u0].earned = refCall[c].cap.earned + refCall[c].amount
      /\ \A m \in 1 .. RefMonths, u \in RefUsers :
            m # m0 \/ u # u0 => monthlyCap'[m][u] = monthlyCap[m][u]
  BY RaisesCapPreserves
<1>2. UNCHANGED <<weekPoints, month>>
  BY DEF RefRaisesCap, refHistories
<1>3. /\ refCall[c].cap.earned = EarnedBy(c)
      /\ EarnedBy(c) + refCall[c].amount <= RefCap
      /\ weekPoints[m0][u0] <= EarnedBy(c)
  <2>1. /\ refCall[c].pc = "capWrite"
        /\ refCall[c].cap = monthlyCap[refCall[c].paid][Referrer(c)]
        /\ EarnedBy(c) + refCall[c].amount <= RefCap
    BY DEF CapInv, WeekKnows, RefRaisesCap
  <2>2. weekPoints[m0][u0] <= EarnedBy(c)
    BY WeekFacts DEF CapInv, Counted, EarnedBy
  <2> QED
    BY <2>1, <2>2 DEF EarnedBy
<1>4. /\ m0 \in 1 .. RefMonths /\ u0 \in RefUsers /\ refCall[c].amount \in Nat
      /\ EarnedBy(c) \in Nat /\ weekPoints[m0][u0] \in Nat
  BY WeekFacts DEF EarnedBy
<1>5. /\ monthlyCap'[m0][u0].earned <= RefCap
      /\ weekPoints[m0][u0] + refCall[c].amount <= monthlyCap'[m0][u0].earned
      /\ weekPoints[m0][u0] <= monthlyCap'[m0][u0].earned
  BY <1>1, <1>3, <1>4
<1>6. WithinCap'
  <2> SUFFICES ASSUME NEW m \in 1 .. RefMonths, NEW u \in RefUsers
               PROVE  weekPoints'[m][u] <= RefCap /\ monthlyCap'[m][u].earned <= RefCap
    BY Zenon DEF WithinCap
  <2>1. weekPoints[m][u] <= RefCap /\ monthlyCap[m][u].earned <= RefCap
    BY DEF CapInv, WithinCap
  <2> HIDE DEF m0, u0
  <2> QED
    BY <1>1, <1>2, <1>5, <2>1
<1>7. \A m \in 1 .. RefMonths, u \in RefUsers :
         weekPoints[m][u] <= monthlyCap[m][u].earned => weekPoints'[m][u] <= monthlyCap'[m][u].earned
  <2> HIDE DEF m0, u0
  <2> QED
    BY <1>1, <1>2, <1>5
<1>8. /\ refCall'[c].pc = "balance" /\ refCall'[c].amount = refCall[c].amount
      /\ refCall'[c].paid = refCall[c].paid
      /\ refCall'[c].rel = refCall[c].rel /\ refCall'[c].tier = refCall[c].tier
  BY <1>1, WeekFacts DEF RefCallRecords
<1>9. WeekKnows(c)'
  BY <1>2, <1>5, <1>8 DEF WeekKnows, EarnedBy, Referrer
<1> QED
  BY <1>1, <1>2, <1>6, <1>7, <1>8, <1>9, WeekMoves

LEMMA ReadsBalanceCap ==
    ASSUME IInv, CapInv, ~ overlapping, NEW c \in RefCalls, RefReadsBalance(c), WeekCall(c)
    PROVE  CapInv'
<1>1. /\ refCall'[c] = [refCall[c] EXCEPT !.pc = "credit", !.read = points[Referrer(c)]]
      /\ \A d \in RefCalls \ {c} : refCall'[d] = refCall[d]
  BY ReadsBalancePreserves
<1>2. /\ refCall'[c].pc = "credit" /\ refCall'[c].amount = refCall[c].amount
      /\ refCall'[c].paid = refCall[c].paid
      /\ refCall'[c].rel = refCall[c].rel /\ refCall'[c].tier = refCall[c].tier
  BY <1>1, WeekFacts DEF RefCallRecords
<1>3. UNCHANGED <<monthlyCap, weekPoints, month>>
  BY DEF RefReadsBalance, rewardVars, refHistories
<1>4. weekPoints[refCall[c].paid][Referrer(c)] + refCall[c].amount <= EarnedBy(c)
  BY DEF CapInv, WeekKnows, RefReadsBalance
<1>5. WeekKnows(c)'
  BY <1>2, <1>3, <1>4 DEF WeekKnows, EarnedBy, Referrer
<1> QED
  BY <1>1, <1>2, <1>3, <1>5, WeekReads

LEMMA CreditsCap ==
    ASSUME IInv, CapInv, ~ overlapping, NEW c \in RefCalls, RefCredits(c), WeekCall(c)
    PROVE  CapInv'
<1> DEFINE m0 == refCall[c].paid
           u0 == Referrer(c)
<1>1. /\ refCall[c].op = "week"
      /\ \A d \in RefCalls \ {c} : refCall'[d] = refCall[d]
  BY CreditsPreserves DEF WeekCall
<1>2. /\ weekPoints'[m0][u0] = weekPoints[m0][u0] + refCall[c].amount
      /\ \A m \in 1 .. RefMonths, u \in RefUsers :
            m # m0 \/ u # u0 => weekPoints'[m][u] = weekPoints[m][u]
  BY <1>1, CreditsPreserves
<1>3. UNCHANGED <<monthlyCap, month>>
  BY DEF RefCredits
<1>4. /\ m0 \in 1 .. RefMonths /\ u0 \in RefUsers
      /\ weekPoints[m0][u0] + refCall[c].amount <= monthlyCap[m0][u0].earned
      /\ monthlyCap[m0][u0].earned <= RefCap
      /\ weekPoints[m0][u0] + refCall[c].amount \in Nat /\ monthlyCap[m0][u0].earned \in Nat
  <2>1. m0 \in 1 .. RefMonths /\ u0 \in RefUsers /\ refCall[c].amount \in Nat
        /\ weekPoints[m0][u0] \in Nat /\ monthlyCap[m0][u0].earned \in Nat
    BY WeekFacts
  <2>2. weekPoints[m0][u0] + refCall[c].amount <= EarnedBy(c)
    BY DEF CapInv, WeekKnows, RefCredits
  <2>3. monthlyCap[m0][u0].earned <= RefCap
    BY <2>1 DEF CapInv, WithinCap
  <2> QED
    BY <2>1, <2>2, <2>3 DEF EarnedBy
<1>5. weekPoints'[m0][u0] <= RefCap /\ weekPoints'[m0][u0] <= monthlyCap[m0][u0].earned
  BY <1>2, <1>4, ReferralsAssumption
<1>6. WithinCap'
  <2> SUFFICES ASSUME NEW m \in 1 .. RefMonths, NEW u \in RefUsers
               PROVE  weekPoints'[m][u] <= RefCap /\ monthlyCap'[m][u].earned <= RefCap
    BY Zenon DEF WithinCap
  <2>1. weekPoints[m][u] <= RefCap /\ monthlyCap[m][u].earned <= RefCap
    BY DEF CapInv, WithinCap
  <2> HIDE DEF m0, u0
  <2> QED
    BY <1>2, <1>3, <1>5, <2>1
<1>7. \A m \in 1 .. RefMonths, u \in RefUsers :
         weekPoints[m][u] <= monthlyCap[m][u].earned => weekPoints'[m][u] <= monthlyCap'[m][u].earned
  <2> HIDE DEF m0, u0
  <2> QED
    BY <1>2, <1>3, <1>5
<1>8. WeekCall(c)' => refCall'[c].pc = "cap" /\ refCall'[c].paid = month
  <2>1. \/ refCall'[c].pc = "done"
        \/ refCall'[c].pc = FirstStep(refCall[c].op) /\ refCall'[c].paid = month
    BY <1>1, CreditsPreserves
  <2>2. FirstStep(refCall[c].op) = "cap"
    BY <1>1 DEF FirstStep
  <2> QED
    BY <2>1, <2>2 DEF WeekCall, Running
<1>9. WeekCall(c)' => WeekKnows(c)'
  BY <1>8 DEF WeekKnows
<1> QED
  BY <1>1, <1>3, <1>6, <1>7, <1>8, <1>9, WeekMoves

\* A distribution begins: no other one is under way.
LEMMA BeginsCap ==
    ASSUME IInv, CapInv, ~ overlapping', NEW c \in RefCalls, NEW u \in RefUsers,
           RefEarns(c, u, "week")
    PROVE  CapInv'
<1>1. /\ refCall'[c].pc = "cap" /\ refCall'[c].paid = month
      /\ \A d \in RefCalls \ {c} : refCall'[d] = refCall[d]
  BY EarnsPreserves DEF FirstStep
<1>2. ~ overlapping /\ \A d \in RefCalls : ~ WeekCall(d)
  BY DEF RefEarns, Distributing, WeekCall
<1>3. UNCHANGED <<monthlyCap, weekPoints, month>>
  BY DEF RefEarns, rewardVars
<1>4. \A d \in RefCalls : WeekCall(d)' => d = c
  BY <1>1, <1>2 DEF WeekCall, Running
<1>5. OneDistribution'
  BY <1>4 DEF OneDistribution
<1>6. WithinCap'
  BY <1>2, <1>3 DEF CapInv, WithinCap
<1>7. Counted'
  <2> SUFFICES ASSUME NEW m \in 1 .. RefMonths, NEW v \in RefUsers,
                      m >= month' \/ \E d \in RefCalls : WeekCall(d)' /\ refCall'[d].paid = m
               PROVE  weekPoints'[m][v] <= monthlyCap'[m][v].earned
    BY DEF Counted
  <2>1. m >= month
    <3>1. \/ m >= month
          \/ m = month
      BY <1>1, <1>3, <1>4
    <3> QED
      BY <3>1 DEF IInv, RefTypeOK
  <2> QED
    BY <1>2, <1>3, <2>1 DEF CapInv, Counted
<1>8. WeekKnows(c)'
  BY <1>1 DEF WeekKnows
<1> QED
  BY <1>4, <1>5, <1>6, <1>7, <1>8 DEF CapInv

\* The steps of a call that is under way.
CallStep(c) ==
    \/ RefExists(c) \/ RefBuildsChain(c) \/ RefStores(c) \/ RefIndexes(c)
    \/ RefPends(c) \/ RefReadsCount(c) \/ RefCounts(c)
    \/ RefCompletes(c) \/ RefUnpends(c) \/ RefClaims(c)
    \/ RefChecksCap(c) \/ RefRecords(c) \/ RefReadsCap(c) \/ RefRaisesCap(c)
    \/ RefReadsBalance(c) \/ RefCredits(c)

\* A call keeps its operation, or ends.
LEMMA OpKept ==
    ASSUME IInv, NEW c \in RefCalls, CallStep(c)
    PROVE  refCall'[c].op \in {refCall[c].op, "none"}
<1>1. refCall \in [RefCalls -> RefCallRecords] /\ RefIdle.op = "none"
  BY IdleType DEF IInv, RefTypeOK
<1>2. RefDone(c) => refCall'[c].op = "none"
  BY <1>1, IdleType DEF RefDone, RefCallRecords
<1>3. \A pc : RefGoes(c, pc) => refCall'[c].op = refCall[c].op
  BY <1>1 DEF RefGoes, RefCallRecords
<1>4. RefNextTier(c) => refCall'[c].op \in {refCall[c].op, "none"}
  <2>1. CASE refCall[c].tier + 1 \in DOMAIN refCall[c].rel.chain
    BY <1>1, <2>1 DEF RefNextTier, RefCallRecords
  <2>2. CASE ~ (refCall[c].tier + 1 \in DOMAIN refCall[c].rel.chain)
    BY <1>2, <2>2 DEF RefNextTier
  <2> QED
    BY <2>1, <2>2
<1>5. CASE RefExists(c) \/ RefCounts(c) \/ RefStores(c) \/ RefPends(c) \/ RefCompletes(c)
           \/ RefUnpends(c) \/ RefClaims(c) \/ RefRaisesCap(c)
  <2>1. RefDone(c) \/ \E pc \in RefPcs : RefGoes(c, pc)
    BY <1>5 DEF RefExists, RefCounts, RefStores, RefPends, RefCompletes, RefUnpends, RefClaims,
                RefRaisesCap, RefPcs, RegisterPcs, CheckPcs, CapPcs, RewardPcs
  <2> QED
    BY <1>2, <1>3, <2>1
<1>6. CASE RefBuildsChain(c) \/ RefIndexes(c) \/ RefReadsCount(c) \/ RefChecksCap(c)
           \/ RefReadsCap(c) \/ RefReadsBalance(c)
  <2>1. refCall[c] \in RefCallRecords
    BY <1>1
  <2>2. CASE RefBuildsChain(c)
    <3>1. Running(c) /\ refCall[c].op = "register"
      BY <2>2, Running1 DEF RefBuildsChain, Running, Knows, RegisterPcs, CheckPcs, CapPcs, RewardPcs
    <3> QED
      BY <2>2, <3>1, BuildsChainPreserves
  <2>3. CASE RefIndexes(c)
    <3>1. Running(c) /\ refCall[c].op = "register"
      BY <2>3, Running1 DEF RefIndexes, Running, Knows, RegisterPcs, CheckPcs, CapPcs, RewardPcs
    <3> QED
      BY <2>3, <3>1, IndexesPreserves
  <2>4. CASE RefReadsCount(c)
    BY <2>1, <2>4, ReadsCountPreserves DEF RefCallRecords
  <2>5. CASE RefChecksCap(c)
    BY <2>1, <2>5, ChecksCapPreserves DEF RefCallRecords
  <2>6. CASE RefReadsCap(c)
    BY <1>1, <2>1, <2>6 DEF RefReadsCap, RefCallRecords
  <2>7. CASE RefReadsBalance(c)
    BY <2>1, <2>7, ReadsBalancePreserves DEF RefCallRecords
  <2> QED
    BY <1>6, <2>2, <2>3, <2>4, <2>5, <2>6, <2>7
<1>7. CASE RefRecords(c) \/ RefCredits(c)
  <2>1. RefGoes(c, "balance") \/ RefGoes(c, "capRead") \/ RefGoes(c, "claim") \/ RefNextTier(c)
    BY <1>7 DEF RefRecords, RefCredits
  <2> QED
    BY <1>3, <1>4, <2>1
<1> QED
  BY <1>5, <1>6, <1>7 DEF CallStep

LEMMA WeeksCap ==
    ASSUME IInv, CapInv, NEW c \in RefCalls, CallStep(c), WeekCall(c)
    PROVE  CapInv'
<1>1. overlapping' = overlapping
  BY DEF CallStep, RefExists, RefBuildsChain, RefStores, RefIndexes, RefPends, RefReadsCount,
         RefCounts, RefCompletes, RefUnpends, RefClaims, RefChecksCap, RefRecords, RefReadsCap,
         RefRaisesCap, RefReadsBalance, RefCredits, refHistories
<1>2. \/ RefChecksCap(c) \/ RefRecords(c) \/ RefReadsCap(c) \/ RefRaisesCap(c)
      \/ RefReadsBalance(c) \/ RefCredits(c)
  <2>1. Running(c) /\ refCall[c].op = "week"
    BY DEF WeekCall
  <2>2. refCall[c].pc \notin RegisterPcs \cup CheckPcs
    BY <2>1, Running1 DEF Knows, RegisterPcs, CheckPcs
  <2> QED
    BY <2>2 DEF CallStep, RefExists, RefBuildsChain, RefStores, RefIndexes, RefPends,
       RefReadsCount, RefCounts, RefCompletes, RefUnpends, RefClaims, RegisterPcs, CheckPcs
<1>3. CASE overlapping
  BY <1>1, <1>3 DEF CapInv
<1>4. CASE ~ overlapping
  BY <1>2, <1>4, ChecksCapCap, RecordsCap, ReadsCapCap, RaisesCapCap, ReadsBalanceCap, CreditsCap
<1> QED
  BY <1>3, <1>4

LEMMA OthersCap ==
    ASSUME IInv, CapInv, NEW c \in RefCalls, CallStep(c), ~ WeekCall(c)
    PROVE  CapInv'
<1>1. Running(c) /\ refCall[c].op # "week" /\ refCall[c].pc \notin CapPcs
  <2>1. Running(c)
    BY DEF CallStep, RefExists, RefBuildsChain, RefStores, RefIndexes, RefPends, RefReadsCount,
           RefCounts, RefCompletes, RefUnpends, RefClaims, RefChecksCap, RefRecords, RefReadsCap,
           RefRaisesCap, RefReadsBalance, RefCredits, Running
  <2> QED
    BY <2>1, Running1 DEF Knows, WeekCall
<1>2. UNCHANGED <<monthlyCap, weekPoints, overlapping, month>>
  <2>1. CASE RefCredits(c)
    BY <1>1, <2>1 DEF RefCredits
  <2>2. CASE ~ RefCredits(c)
    <3>1. CASE RegisterStep(c)
      BY <3>1 DEF RegisterStep, RefExists, RefBuildsChain, RefStores, RefIndexes, RefPends,
         RefReadsCount, RefCounts, rewardVars, refHistories
    <3>2. CASE CheckStep(c)
      BY <3>2 DEF CheckStep, RefCompletes, RefUnpends, RefClaims, rewardVars, refHistories
    <3>3. CASE RewardStep(c)
      BY <1>1, <2>2, <3>3 DEF RewardStep, RefChecksCap, RefRecords, RefReadsCap, RefRaisesCap,
         RefReadsBalance, rewardVars, refHistories, CapPcs
    <3> QED
      BY <3>1, <3>2, <3>3 DEF CallStep, RegisterStep, CheckStep, RewardStep
  <2> QED
    BY <2>1, <2>2
<1>3. \A d \in RefCalls \ {c} : refCall'[d] = refCall[d]
  <2>1. CASE RegisterStep(c)
    BY <2>1, ExistsPreserves, BuildsChainPreserves, StoresPreserves, IndexesPreserves, PendsPreserves,
       ReadsCountPreserves, CountsPreserves, Zenon DEF RegisterStep
  <2>2. CASE CheckStep(c)
    BY <2>2, CompletesPreserves, UnpendsPreserves, ClaimsPreserves, Zenon DEF CheckStep
  <2>3. CASE RewardStep(c)
    BY <2>3, ChecksCapPreserves, RecordsPreserves, ReadsCapPreserves, RaisesCapPreserves,
       ReadsBalancePreserves, CreditsPreserves, Zenon DEF RewardStep
  <2> QED
    BY <2>1, <2>2, <2>3 DEF CallStep, RegisterStep, CheckStep, RewardStep
<1>4. ~ WeekCall(c)'
  <2>1. refCall'[c].op \in {refCall[c].op, "none"}
    BY <1>1, OpKept
  <2> QED
    BY <1>1, <2>1 DEF WeekCall
<1> QED
  BY <1>1, <1>2, <1>3, <1>4, OtherCap DEF WeekCall

LEMMA StepCap == IInv /\ CapInv /\ [RefNext]_refVars => CapInv'
<1> SUFFICES ASSUME IInv, CapInv, [RefNext]_refVars PROVE CapInv'
  OBVIOUS
<1>1. CASE UNCHANGED refVars
  BY <1>1 DEF refVars, rewardVars, refHistories, CapInv, OneDistribution, WithinCap, Counted,
              WeekCall, WeekKnows, EarnedBy, Referrer, Running
<1>2. CASE NewMonth
  <2>1. UNCHANGED <<monthlyCap, weekPoints, overlapping, refCall>> /\ month' = month + 1
    BY <1>2 DEF NewMonth, rewardVars, refHistories
  <2>2. month \in 1 .. RefMonths
    BY DEF IInv, RefTypeOK
  <2>3. Counted => Counted'
    BY <2>1, <2>2 DEF Counted, WeekCall, Running
  <2> QED
    BY <2>1, <2>3 DEF CapInv, OneDistribution, WithinCap, WeekCall, WeekKnows, EarnedBy,
                      Referrer, Running
<1>3. CASE RefCrash
  <2>1. \A c \in RefCalls : ~ WeekCall(c)'
    BY <1>3, CrashPreserves DEF WeekCall
  <2>2. UNCHANGED <<monthlyCap, weekPoints, overlapping, month>>
    BY <1>3 DEF RefCrash, rewardVars, refHistories
  <2> QED
    BY <2>1, <2>2 DEF CapInv, OneDistribution, WithinCap, Counted
<1>4. ASSUME NEW m \in 1 .. RefMonths, NEW u \in RefUsers, RefResetsCap(m, u)
      PROVE  CapInv'
  <2> SUFFICES ASSUME ~ overlapping'
               PROVE  CapInv'
    BY DEF CapInv
  <2>1. ~ overlapping /\ \A c \in RefCalls : ~ WeekCall(c)
    BY <1>4 DEF RefResetsCap, Distributing, WeekCall
  <2>2. UNCHANGED <<weekPoints, month, refCall>> /\ m < month
    BY <1>4 DEF RefResetsCap
  <2>3. /\ monthlyCap'[m][u].earned <= RefCap
        /\ \A k \in 1 .. RefMonths, w \in RefUsers :
              k # m \/ w # u => monthlyCap'[k][w] = monthlyCap[k][w]
    <3>1. NoCap.earned <= RefCap
      BY ReferralsAssumption DEF NoCap
    <3> QED
      BY <1>4, <3>1, ResetsCapPreserves
  <2>4. WithinCap'
    <3> SUFFICES ASSUME NEW k \in 1 .. RefMonths, NEW w \in RefUsers
                 PROVE  weekPoints'[k][w] <= RefCap /\ monthlyCap'[k][w].earned <= RefCap
      BY Zenon DEF WithinCap
    <3> QED
      BY <2>1, <2>2, <2>3 DEF CapInv, WithinCap
  <2>5. \A c \in RefCalls : ~ WeekCall(c)'
    BY <2>1, <2>2 DEF WeekCall, Running
  <2>6. Counted'
    <3> SUFFICES ASSUME NEW k \in 1 .. RefMonths, NEW w \in RefUsers, k >= month
                 PROVE  weekPoints[k][w] <= monthlyCap'[k][w].earned
      BY <2>2, <2>5 DEF Counted
    <3>1. k # m
      BY <2>2 DEF IInv, RefTypeOK
    <3> QED
      BY <2>1, <2>3, <3>1 DEF CapInv, Counted
  <2> QED
    BY <2>4, <2>5, <2>6 DEF CapInv, OneDistribution
<1>5. ASSUME NEW c \in RefCalls, NEW u \in RefUsers, RefEarns(c, u, "week") PROVE CapInv'
  BY <1>5, BeginsCap DEF CapInv
<1>6. ASSUME NEW c \in RefCalls,
             \/ \E u, r \in RefUsers : RefRegisters(c, u, r)
             \/ \E u \in RefUsers : RefChecks(c, u)
             \/ \E u \in RefUsers : RefEarns(c, u, "task")
      PROVE  CapInv'
  <2>1. ~ WeekCall(c)
    BY <1>6 DEF RefRegisters, RefChecks, RefEarns, WeekCall, Running
  <2>2. refCall'[c].op # "week" /\ \A d \in RefCalls \ {c} : refCall'[d] = refCall[d]
    <3>1. ASSUME NEW u \in RefUsers, RefEarns(c, u, "task")
          PROVE  refCall'[c].op = "task" /\ \A d \in RefCalls \ {c} : refCall'[d] = refCall[d]
      BY <3>1, EarnsPreserves
    <3>2. ASSUME NEW u \in RefUsers, RefChecks(c, u)
          PROVE  refCall'[c].op # "week" /\ \A d \in RefCalls \ {c} : refCall'[d] = refCall[d]
      BY <3>2, ChecksPreserves
    <3>3. ASSUME NEW u \in RefUsers, NEW r \in RefUsers, RefRegisters(c, u, r)
          PROVE  refCall'[c].op # "week" /\ \A d \in RefCalls \ {c} : refCall'[d] = refCall[d]
      BY <3>3, RegistersPreserves
    <3> QED
      BY <1>6, <3>1, <3>2, <3>3
  <2>3. UNCHANGED <<monthlyCap, weekPoints, overlapping, month>>
    <3>1. overlapping \in BOOLEAN
      BY DEF IInv, RefTypeOK
    <3>2. ASSUME NEW u \in RefUsers, RefEarns(c, u, "task") PROVE overlapping' = overlapping
      BY <3>1, <3>2 DEF RefEarns
    <3>3. (\E u \in RefUsers : RefEarns(c, u, "task")) \/ overlapping' = overlapping
      BY <1>6 DEF RefRegisters, RefChecks
    <3>4. UNCHANGED <<monthlyCap, weekPoints, month>>
      BY <1>6 DEF RefRegisters, RefChecks, RefEarns, rewardVars
    <3> QED
      BY <3>2, <3>3, <3>4
  <2> QED
    BY <2>1, <2>2, <2>3, OtherCap DEF WeekCall
<1>7. ASSUME NEW c \in RefCalls, CallStep(c), ~ WeekCall(c) PROVE CapInv'
  BY <1>7, OthersCap
<1>8. ASSUME NEW c \in RefCalls, CallStep(c), WeekCall(c) PROVE CapInv'
  BY <1>8, WeeksCap
<1> QED
  BY <1>1, <1>2, <1>3, <1>4, <1>5, <1>6, <1>7, <1>8, Steps DEF CallStep

LEMMA InitCap == RefInit => CapInv
<1> SUFFICES ASSUME RefInit PROVE CapInv
  OBVIOUS
<1>1. \A c \in RefCalls : ~ WeekCall(c)
  BY IdleType DEF RefInit, Running, WeekCall
<1>2. \A m \in 1 .. RefMonths, u \in RefUsers : weekPoints[m][u] = 0 /\ monthlyCap[m][u].earned = 0
  BY DEF RefInit, NoCap
<1> QED
  BY <1>1, <1>2, ReferralsAssumption DEF CapInv, OneDistribution, WithinCap, Counted

\* A referrer is never credited more uptime points in a month than the cap, as
\* long as a weekly distribution meets neither another nor a reset.
THEOREM CapHolds == RefSpec => []CapRespected
<1>1. RefInit => CapInv
  BY InitCap
<1>2. IInv /\ CapInv /\ [RefNext]_refVars => CapInv'
  BY StepCap
<1>3. CapInv => CapRespected
  BY DEF CapInv, WithinCap, CapRespected
<1> QED
  BY <1>1, <1>2, <1>3, IInvHolds, PTL DEF RefSpec

-----------------------------------------------------------------------------
(***************************************************************************)
(* PointsAreRecorded.  A reward is stored before it is paid, so between    *)
(* the two its amount is owed; a balance is written back from a copy, so   *)
(* the copies, too, must leave room for what is owed.                      *)
(***************************************************************************)
OwedPcs == {"capRead", "capWrite", "balance", "credit"}
Owing(u) ==
    [c \in RefCalls |->
        IF refCall[c].pc \in OwedPcs /\ Referrer(c) = u THEN refCall[c].amount ELSE 0]
Owed(u) == SumFunctionOnSet(Owing(u), RefCalls)

PaidInv ==
    \A u \in RefUsers :
        /\ points[u] + Owed(u) <= recorded[u]
        /\ \A c \in RefCalls : refCall[c].pc = "credit" /\ Referrer(c) = u =>
              refCall[c].read + Owed(u) <= recorded[u]

\* What c is owed for u, as a number.
OwingOf(c, u) == IF refCall[c].pc \in OwedPcs /\ Referrer(c) = u THEN refCall[c].amount ELSE 0

LEMMA OwingType ==
    ASSUME IInv, NEW u
    PROVE  /\ Owing(u) \in [RefCalls -> Nat] /\ Owed(u) \in Nat
           /\ \A c \in RefCalls : Owing(u)[c] = OwingOf(c, u) /\ OwingOf(c, u) \in Nat
<1>1. IsFiniteSet(RefCalls)
  BY ReferralsAssumption
<1>2. \A c \in RefCalls : refCall[c].amount \in Nat
  BY CallFields DEF IInv, RefTypeOK
<1>3. \A c \in RefCalls : OwingOf(c, u) \in Nat
  BY <1>2 DEF OwingOf
<1>4. Owing(u) = [c \in RefCalls |-> OwingOf(c, u)]
  BY DEF Owing, OwingOf
<1>5. Owing(u) \in [RefCalls -> Nat]
  BY <1>3, <1>4
<1>6. SumFunctionOnSet(Owing(u), RefCalls) \in Nat
  BY <1>1, <1>5, SumIsNat
<1> QED
  BY <1>3, <1>4, <1>5, <1>6 DEF Owed

\* When one call moves, what is owed changes by what that call is owed.
LEMMA OwedMoves ==
    ASSUME IInv, IInv', NEW c \in RefCalls, \A d \in RefCalls \ {c} : refCall'[d] = refCall[d], NEW u
    PROVE  /\ Owed(u)' + OwingOf(c, u) = Owed(u) + OwingOf(c, u)'
           /\ Owed(u) \in Nat /\ Owed(u)' \in Nat
           /\ OwingOf(c, u) \in Nat /\ OwingOf(c, u)' \in Nat
<1>1. PICK f : f = Owing(u)
  OBVIOUS
<1>2. PICK g : g = Owing(u)'
  OBVIOUS
<1>3. PICK k : k = OwingOf(c, u)'
  OBVIOUS
<1>4. f \in [RefCalls -> Nat] /\ f[c] = OwingOf(c, u) /\ Owed(u) \in Nat
  BY <1>1, OwingType
<1>5. g = [d \in RefCalls |-> IF refCall'[d].pc \in OwedPcs /\ Referrer(d)' = u
                                THEN refCall'[d].amount ELSE 0]
  BY <1>2 DEF Owing
<1>6. f = [d \in RefCalls |-> IF refCall[d].pc \in OwedPcs /\ Referrer(d) = u
                                THEN refCall[d].amount ELSE 0]
  BY <1>1 DEF Owing
<1>7. g[c] = k
  BY <1>3, <1>5 DEF OwingOf
<1>8. \A d \in RefCalls \ {c} : g[d] = f[d]
  <2>1. \A d \in RefCalls \ {c} : Referrer(d)' = Referrer(d)
    BY DEF Referrer
  <2> QED
    BY <1>5, <1>6, <2>1
<1>9. \A d \in RefCalls : refCall'[d].amount \in Nat
  <2>1. \A d \in RefCalls : refCall'[d] \in RefCallRecords
    BY DEF IInv, RefTypeOK
  <2> QED
    BY <2>1, CallFields
<1>10. k \in Nat
  BY <1>3, <1>9 DEF OwingOf
<1>11. g = [f EXCEPT ![c] = k]
  BY <1>4, <1>5, <1>7, <1>8
<1>12. g \in [RefCalls -> Nat]
  BY <1>4, <1>10, <1>11
<1>13. IsFiniteSet(RefCalls)
  BY ReferralsAssumption
<1>14. SumFunctionOnSet([f EXCEPT ![c] = k], RefCalls) + f[c] = SumFunctionOnSet(f, RefCalls) + k
  BY <1>4, <1>10, <1>13, SumOfUpdate
<1>15. SumFunctionOnSet(g, RefCalls) \in Nat
  BY <1>12, <1>13, SumIsNat
<1>16. Owed(u)' = SumFunctionOnSet(g, RefCalls) /\ Owed(u) = SumFunctionOnSet(f, RefCalls)
  BY <1>1, <1>2 DEF Owed
<1>17. f[c] \in Nat
  BY <1>4
<1> QED
  BY <1>3, <1>4, <1>10, <1>11, <1>14, <1>15, <1>16, <1>17

\* A step of one call that does not raise what it is owed, nor touches the
\* balances, and copies none but the current one.
LEMMA PaidMoves ==
    ASSUME IInv, IInv', PaidInv, NEW c \in RefCalls,
           \A d \in RefCalls \ {c} : refCall'[d] = refCall[d],
           points' = points, recorded' = recorded,
           \A u \in RefUsers : OwingOf(c, u)' <= OwingOf(c, u),
           refCall'[c].pc = "credit" => refCall'[c].read = points[Referrer(c)']
    PROVE  PaidInv'
<1> SUFFICES ASSUME NEW u \in RefUsers
             PROVE  /\ points'[u] + Owed(u)' <= recorded'[u]
                    /\ \A d \in RefCalls : refCall'[d].pc = "credit" /\ Referrer(d)' = u =>
                          refCall'[d].read + Owed(u)' <= recorded'[u]
  BY DEF PaidInv
<1>1. Owed(u)' + OwingOf(c, u) = Owed(u) + OwingOf(c, u)'
  BY OwedMoves
<1>2. Owed(u) \in Nat /\ Owed(u)' \in Nat /\ OwingOf(c, u) \in Nat /\ OwingOf(c, u)' \in Nat
  BY OwedMoves
<1>3. OwingOf(c, u)' <= OwingOf(c, u)
  OBVIOUS
<1>4. Owed(u)' <= Owed(u)
  BY <1>1, <1>2, <1>3
<1>5. points[u] \in Nat /\ recorded[u] \in Nat /\ points[u] + Owed(u) <= recorded[u]
  BY DEF IInv, RefTypeOK, PaidInv
<1>6. points[u] + Owed(u)' <= recorded[u]
  BY <1>2, <1>4, <1>5
<1>7. ASSUME NEW d \in RefCalls, refCall'[d].pc = "credit", Referrer(d)' = u
      PROVE  refCall'[d].read + Owed(u)' <= recorded'[u]
  <2>1. CASE d = c
    BY <1>6, <1>7, <2>1
  <2>2. CASE d # c
    <3>1. refCall'[d] = refCall[d] /\ Referrer(d) = u
      BY <1>7, <2>2 DEF Referrer
    <3>2. refCall[d].read + Owed(u) <= recorded[u] /\ refCall[d].read \in Nat
      <4>1. refCall[d] \in RefCallRecords
        BY DEF IInv, RefTypeOK
      <4> QED
        BY <1>7, <3>1, <4>1, CallFields DEF PaidInv
    <3> QED
      BY <1>2, <1>4, <1>5, <3>1, <3>2
  <2> QED
    BY <2>1, <2>2
<1> QED
  BY <1>6, <1>7

\* A step of a call that is owed nothing before or after.
LEMMA UnowedMoves ==
    ASSUME IInv, IInv', PaidInv, NEW c \in RefCalls,
           \A d \in RefCalls \ {c} : refCall'[d] = refCall[d],
           points' = points, recorded' = recorded,
           refCall'[c].pc \notin OwedPcs
    PROVE  PaidInv'
<1>1. ASSUME NEW u \in RefUsers PROVE OwingOf(c, u)' <= OwingOf(c, u)
  <2>1. OwingOf(c, u)' = 0 /\ OwingOf(c, u) \in Nat
    BY OwingType DEF OwingOf
  <2> QED
    BY <2>1
<1>2. refCall'[c].pc # "credit"
  BY DEF OwedPcs
<1> QED
  BY <1>1, <1>2, PaidMoves
-----------------------------------------------------------------------------
\* Calls that begin, and calls that register or check, owe nothing.
LEMMA BeginStepPaid ==
    ASSUME IInv, IInv', PaidInv, NEW c \in RefCalls,
           \/ \E u, r \in RefUsers : RefRegisters(c, u, r)
           \/ \E u \in RefUsers : RefChecks(c, u)
           \/ \E u \in RefUsers, op \in {"task", "week"} : RefEarns(c, u, op)
    PROVE  PaidInv'
<1>1. points' = points /\ recorded' = recorded
  BY DEF RefRegisters, RefChecks, RefEarns, rewardVars
<1>2. refCall'[c].pc \notin OwedPcs /\ \A d \in RefCalls \ {c} : refCall'[d] = refCall[d]
  <2>1. ASSUME NEW u \in RefUsers, NEW r \in RefUsers, RefRegisters(c, u, r)
        PROVE  refCall'[c].pc = "exists" /\ \A d \in RefCalls \ {c} : refCall'[d] = refCall[d]
    BY <2>1, RegistersPreserves
  <2>2. ASSUME NEW u \in RefUsers, RefChecks(c, u)
        PROVE  refCall'[c].pc = "complete" /\ \A d \in RefCalls \ {c} : refCall'[d] = refCall[d]
    BY <2>2, ChecksPreserves
  <2>3. ASSUME NEW u \in RefUsers, NEW op \in {"task", "week"}, RefEarns(c, u, op)
        PROVE  /\ refCall'[c].pc \in {"reward", "cap"}
               /\ \A d \in RefCalls \ {c} : refCall'[d] = refCall[d]
    BY <2>3, EarnsPreserves DEF FirstStep
  <2> QED
    BY <2>1, <2>2, <2>3 DEF OwedPcs
<1> QED
  BY <1>1, <1>2, UnowedMoves

\* The record of a call whose pc alone moved.
LEMMA PcMoved ==
    ASSUME IInv, NEW c \in RefCalls, NEW pc, refCall'[c] = [refCall[c] EXCEPT !.pc = pc]
    PROVE  /\ refCall'[c].pc = pc /\ refCall'[c].rel = refCall[c].rel
           /\ refCall'[c].tier = refCall[c].tier /\ refCall'[c].amount = refCall[c].amount
BY DEF IInv, RefTypeOK, RefCallRecords

LEMMA UnpaidStepPaid ==
    ASSUME IInv, IInv', PaidInv, NEW c \in RefCalls,
           \/ RefExists(c) \/ RefBuildsChain(c) \/ RefStores(c) \/ RefIndexes(c)
           \/ RefPends(c) \/ RefReadsCount(c) \/ RefCounts(c)
           \/ RefCompletes(c) \/ RefUnpends(c) \/ RefClaims(c) \/ RefChecksCap(c)
    PROVE  PaidInv'
<1>0. refCall[c] \in RefCallRecords
  BY DEF IInv, RefTypeOK
<1>1. points' = points /\ recorded' = recorded
  BY DEF RefExists, RefBuildsChain, RefStores, RefIndexes, RefPends, RefReadsCount, RefCounts,
         RefCompletes, RefUnpends, RefClaims, RefChecksCap, rewardVars
<1>2. \A d \in RefCalls \ {c} : refCall'[d] = refCall[d]
  BY ExistsPreserves, BuildsChainPreserves, StoresPreserves, IndexesPreserves, PendsPreserves,
     ReadsCountPreserves, CountsPreserves, CompletesPreserves, UnpendsPreserves, ClaimsPreserves,
     ChecksCapPreserves
<1>3. refCall'[c].pc \notin OwedPcs
  <2>1. CASE RefExists(c)
    BY <1>0, <2>1, ExistsPreserves DEF RefCallRecords, OwedPcs
  <2>2. CASE RefBuildsChain(c)
    BY <2>2, BuildsChainPreserves DEF OwedPcs
  <2>3. CASE RefStores(c)
    BY <1>0, <2>3, StoresPreserves DEF RefCallRecords, OwedPcs
  <2>4. CASE RefIndexes(c)
    BY <2>4, IndexesPreserves DEF OwedPcs
  <2>5. CASE RefPends(c)
    BY <1>0, <2>5, PendsPreserves DEF RefCallRecords, OwedPcs
  <2>6. CASE RefReadsCount(c)
    BY <1>0, <2>6, ReadsCountPreserves DEF RefCallRecords, OwedPcs
  <2>7. CASE RefCounts(c)
    BY <2>7, CountsPreserves DEF OwedPcs
  <2>8. CASE RefCompletes(c)
    BY <1>0, <2>8, CompletesPreserves DEF RefCallRecords, OwedPcs
  <2>9. CASE RefUnpends(c)
    BY <1>0, <2>9, UnpendsPreserves DEF RefCallRecords, OwedPcs
  <2>10. CASE RefClaims(c)
    BY <2>10, ClaimsPreserves DEF OwedPcs
  <2>11. CASE RefChecksCap(c)
    BY <1>0, <2>11, ChecksCapPreserves DEF RefCallRecords, OwedPcs
  <2> QED
    BY <2>1, <2>2, <2>3, <2>4, <2>5, <2>6, <2>7, <2>8, <2>9, <2>10, <2>11
<1> QED
  BY <1>1, <1>2, <1>3, UnowedMoves

\* From storing the reward to crediting it, the call is owed the same.
LEMMA OwedStepPaid ==
    ASSUME IInv, IInv', PaidInv, NEW c \in RefCalls,
           RefReadsCap(c) \/ RefRaisesCap(c) \/ RefReadsBalance(c)
    PROVE  PaidInv'
<1>0. refCall[c] \in RefCallRecords
  BY DEF IInv, RefTypeOK
<1>1. points' = points /\ recorded' = recorded
  BY DEF RefReadsCap, RefRaisesCap, RefReadsBalance, rewardVars
<1>2. \A d \in RefCalls \ {c} : refCall'[d] = refCall[d]
  BY ReadsCapPreserves, RaisesCapPreserves, ReadsBalancePreserves
<1>3. /\ refCall[c].pc \in OwedPcs /\ refCall'[c].pc \in OwedPcs
      /\ refCall'[c].rel = refCall[c].rel /\ refCall'[c].tier = refCall[c].tier
      /\ refCall'[c].amount = refCall[c].amount
      /\ refCall'[c].pc = "credit" => refCall'[c].read = points[Referrer(c)]
  <2>1. CASE RefReadsCap(c)
    <3>1. PICK n : n = monthlyCap[refCall[c].paid][Referrer(c)]
      OBVIOUS
    <3>2. refCall'[c] = [refCall[c] EXCEPT !.pc = "capWrite", !.cap = n]
      BY <2>1, <3>1, ReadsCapPreserves
    <3>3. refCall[c].pc = "capRead"
      BY <2>1 DEF RefReadsCap
    <3> QED
      BY <1>0, <3>2, <3>3 DEF RefCallRecords, OwedPcs
  <2>2. CASE RefRaisesCap(c)
    <3>1. refCall'[c] = [refCall[c] EXCEPT !.pc = "balance"]
      BY <2>2, RaisesCapPreserves
    <3>2. refCall[c].pc = "capWrite"
      BY <2>2 DEF RefRaisesCap
    <3> QED
      BY <1>0, <3>1, <3>2 DEF RefCallRecords, OwedPcs
  <2>3. CASE RefReadsBalance(c)
    <3>1. PICK n : n = points[Referrer(c)]
      OBVIOUS
    <3>2. refCall'[c] = [refCall[c] EXCEPT !.pc = "credit", !.read = n]
      BY <2>3, <3>1, ReadsBalancePreserves
    <3>3. refCall[c].pc = "balance"
      BY <2>3 DEF RefReadsBalance
    <3> QED
      BY <1>0, <3>1, <3>2, <3>3 DEF RefCallRecords, OwedPcs
  <2> QED
    BY <2>1, <2>2, <2>3
<1>4. Referrer(c)' = Referrer(c)
  BY <1>3 DEF Referrer
<1>5. ASSUME NEW u \in RefUsers PROVE OwingOf(c, u)' <= OwingOf(c, u)
  <2>1. OwingOf(c, u)' = OwingOf(c, u) /\ OwingOf(c, u) \in Nat
    BY <1>3, <1>4, OwingType DEF OwingOf
  <2> QED
    BY <2>1
<1> QED
  BY <1>1, <1>2, <1>3, <1>4, <1>5, PaidMoves

\* A reward is stored: as much more may be owed.
LEMMA RecordsPaid ==
    ASSUME IInv, IInv', PaidInv, NEW c \in RefCalls, RefRecords(c)
    PROVE  PaidInv'
<1>0. refCall[c] \in RefCallRecords /\ refCall[c].pc = "reward"
  BY DEF IInv, RefTypeOK, RefRecords
<1>1. refCall[c].amount \in Nat /\ Referrer(c) \in RefUsers
  BY <1>0, CallFields, Running1 DEF Running
<1>2. PICK a \in Nat, w \in RefUsers : a = refCall[c].amount /\ w = Referrer(c)
  BY <1>1
<1>3. /\ points' = points /\ recorded' = [recorded EXCEPT ![w] = @ + a]
      /\ points \in [RefUsers -> Nat] /\ recorded \in [RefUsers -> Nat]
  BY <1>2 DEF RefRecords, IInv, RefTypeOK
<1>4. /\ \A d \in RefCalls \ {c} : refCall'[d] = refCall[d]
      /\ \/ refCall'[c].pc \in {"done", "cap"}
         \/ \E pc \in {"balance", "capRead"} : refCall'[c] = [refCall[c] EXCEPT !.pc = pc]
  BY RecordsPreserves
<1>5. refCall'[c].pc # "credit"
  BY <1>4, PcMoved
<1>6. ASSUME NEW u \in RefUsers
      PROVE  OwingOf(c, u)' <= (IF u = w THEN a ELSE 0) /\ OwingOf(c, u) = 0
  <2>1. OwingOf(c, u) = 0
    BY <1>0 DEF OwingOf, OwedPcs
  <2>2. CASE refCall'[c].pc \in {"done", "cap"}
    BY <1>2, <2>1, <2>2 DEF OwingOf, OwedPcs
  <2>3. CASE \E pc \in {"balance", "capRead"} : refCall'[c] = [refCall[c] EXCEPT !.pc = pc]
    <3>1. /\ refCall'[c].rel = refCall[c].rel /\ refCall'[c].tier = refCall[c].tier
          /\ refCall'[c].amount = a
      BY <1>2, <2>3, PcMoved
    <3>2. Referrer(c)' = w
      BY <1>2, <3>1 DEF Referrer
    <3>3. OwingOf(c, u)' \in {0, a} /\ (u # w => OwingOf(c, u)' = 0)
      BY <3>1, <3>2 DEF OwingOf
    <3> QED
      BY <1>2, <2>1, <3>3
  <2> QED
    BY <1>4, <2>2, <2>3
<1>7. ASSUME NEW u \in RefUsers
      PROVE  Owed(u)' - Owed(u) <= recorded'[u] - recorded[u]
  <2>1. Owed(u)' + OwingOf(c, u) = Owed(u) + OwingOf(c, u)'
    BY <1>4, OwedMoves
  <2>2. Owed(u) \in Nat /\ Owed(u)' \in Nat /\ OwingOf(c, u)' \in Nat
    BY <1>4, OwedMoves
  <2>3. recorded'[u] = recorded[u] + (IF u = w THEN a ELSE 0) /\ recorded[u] \in Nat
    BY <1>2, <1>3
  <2>4. OwingOf(c, u)' <= (IF u = w THEN a ELSE 0) /\ OwingOf(c, u) = 0
    BY <1>6
  <2> QED
    BY <1>2, <2>1, <2>2, <2>3, <2>4
<1>8. \A u \in RefUsers : Owed(u) \in Nat /\ Owed(u)' \in Nat
  BY <1>4, OwedMoves
<1>9. recorded' \in [RefUsers -> Nat]
  BY DEF IInv, RefTypeOK
<1> SUFFICES ASSUME NEW u \in RefUsers
             PROVE  /\ points'[u] + Owed(u)' <= recorded'[u]
                    /\ \A d \in RefCalls : refCall'[d].pc = "credit" /\ Referrer(d)' = u =>
                          refCall'[d].read + Owed(u)' <= recorded'[u]
  BY DEF PaidInv
<1>10. /\ Owed(u) \in Nat /\ Owed(u)' \in Nat /\ points[u] \in Nat
       /\ recorded[u] \in Nat /\ recorded'[u] \in Nat
       /\ Owed(u)' - Owed(u) <= recorded'[u] - recorded[u]
  BY <1>3, <1>7, <1>8, <1>9
<1>11. points'[u] + Owed(u)' <= recorded'[u]
  <2>1. points[u] + Owed(u) <= recorded[u] /\ points'[u] = points[u]
    BY <1>3 DEF PaidInv
  <2> QED
    BY <1>10, <2>1
<1>12. ASSUME NEW d \in RefCalls, refCall'[d].pc = "credit", Referrer(d)' = u
       PROVE  refCall'[d].read + Owed(u)' <= recorded'[u]
  <2>1. d # c
    BY <1>5, <1>12
  <2>2. refCall'[d] = refCall[d] /\ Referrer(d) = u /\ refCall[d] \in RefCallRecords
    BY <1>4, <1>12, <2>1 DEF Referrer, IInv, RefTypeOK
  <2>3. refCall[d].read + Owed(u) <= recorded[u] /\ refCall[d].read \in Nat
    BY <1>12, <2>2, CallFields DEF PaidInv
  <2> QED
    BY <1>10, <2>2, <2>3
<1> QED
  BY <1>11, <1>12
-----------------------------------------------------------------------------
\* A reward is credited: the copy it was added to left room for what is owed.
LEMMA CreditsPaid ==
    ASSUME IInv, IInv', PaidInv, NEW c \in RefCalls, RefCredits(c)
    PROVE  PaidInv'
<1>0. refCall[c] \in RefCallRecords /\ refCall[c].pc = "credit"
  BY DEF IInv, RefTypeOK, RefCredits
<1>1. refCall[c].amount \in Nat /\ refCall[c].read \in Nat /\ Referrer(c) \in RefUsers
  BY <1>0, CallFields, Running1 DEF Running
<1>2. PICK a \in Nat, b \in Nat, w \in RefUsers :
        a = refCall[c].amount /\ b = refCall[c].read /\ w = Referrer(c)
  BY <1>1
<1>3. /\ points' = [points EXCEPT ![w] = b + a] /\ recorded' = recorded
      /\ points \in [RefUsers -> Nat] /\ recorded \in [RefUsers -> Nat]
  BY <1>2 DEF RefCredits, Credited, IInv, RefTypeOK
<1>4. /\ \A d \in RefCalls \ {c} : refCall'[d] = refCall[d]
      /\ \/ refCall'[c].pc \in {"done", "reward", "cap"}
         \/ refCall'[c] = [refCall[c] EXCEPT !.pc = "claim"]
  BY CreditsPreserves DEF FirstStep
<1>5. refCall'[c].pc \in {"done", "reward", "cap", "claim"}
  BY <1>4, PcMoved
<1>6. refCall'[c].pc # "credit" /\ refCall'[c].pc \notin OwedPcs
  BY <1>5 DEF OwedPcs
<1> SUFFICES ASSUME NEW u \in RefUsers
             PROVE  /\ points'[u] + Owed(u)' <= recorded'[u]
                    /\ \A d \in RefCalls : refCall'[d].pc = "credit" /\ Referrer(d)' = u =>
                          refCall'[d].read + Owed(u)' <= recorded'[u]
  BY DEF PaidInv
<1>7. Owed(u)' + OwingOf(c, u) = Owed(u) + OwingOf(c, u)'
  BY <1>4, OwedMoves
<1>8. Owed(u) \in Nat /\ Owed(u)' \in Nat
  BY <1>4, OwedMoves
<1>9. OwingOf(c, u)' = 0 /\ OwingOf(c, u) = IF u = w THEN a ELSE 0
  BY <1>0, <1>2, <1>6 DEF OwingOf, OwedPcs
<1>10. Owed(u)' <= Owed(u) /\ points[u] \in Nat /\ recorded[u] \in Nat
  BY <1>2, <1>3, <1>7, <1>8, <1>9
<1>11. points'[u] + Owed(u)' <= recorded'[u]
  <2>1. CASE u = w
    <3>1. b + Owed(u) <= recorded[u]
      BY <1>0, <1>2, <2>1 DEF PaidInv
    <3>2. points'[u] = b + a /\ recorded'[u] = recorded[u]
      BY <1>3, <2>1
    <3>3. Owed(u)' + a = Owed(u)
      BY <1>2, <1>7, <1>8, <1>9, <2>1
    <3> QED
      BY <1>2, <1>8, <1>10, <3>1, <3>2, <3>3
  <2>2. CASE u # w
    <3>1. points[u] + Owed(u) <= recorded[u] /\ points'[u] = points[u] /\ recorded'[u] = recorded[u]
      BY <1>3, <2>2 DEF PaidInv
    <3> QED
      BY <1>8, <1>10, <3>1
  <2> QED
    BY <2>1, <2>2
<1>12. ASSUME NEW d \in RefCalls, refCall'[d].pc = "credit", Referrer(d)' = u
       PROVE  refCall'[d].read + Owed(u)' <= recorded'[u]
  <2>1. d # c
    BY <1>6, <1>12
  <2>2. refCall'[d] = refCall[d] /\ Referrer(d) = u /\ refCall[d] \in RefCallRecords
    BY <1>4, <1>12, <2>1 DEF Referrer, IInv, RefTypeOK
  <2>3. refCall[d].read + Owed(u) <= recorded[u] /\ refCall[d].read \in Nat
    BY <1>12, <2>2, CallFields DEF PaidInv
  <2> QED
    BY <1>3, <1>8, <1>10, <2>2, <2>3
<1> QED
  BY <1>11, <1>12

\* What dies with the process is owed no more; what is stored stays stored.
LEMMA CrashPaid ==
    ASSUME IInv, IInv', PaidInv, RefCrash
    PROVE  PaidInv'
<1>1. /\ points' = points /\ recorded' = recorded
      /\ \A c \in RefCalls : ~ Running(c)'
  BY CrashPreserves DEF RefCrash, rewardVars
<1>2. \A c \in RefCalls : refCall'[c].pc \notin OwedPcs /\ refCall'[c].pc # "credit"
  BY <1>1 DEF Running, OwedPcs
<1> SUFFICES ASSUME NEW u \in RefUsers PROVE points'[u] + Owed(u)' <= recorded'[u]
  BY <1>2 DEF PaidInv
<1>3. Owing(u)' = [c \in RefCalls |-> 0]
  BY <1>2 DEF Owing
<1>4. Owed(u)' = 0
  <2>1. IsFiniteSet(RefCalls)
    BY ReferralsAssumption
  <2>2. SumFunctionOnSet([c \in RefCalls |-> 0], RefCalls) = 0
    BY <2>1, SumOfZeros
  <2> QED
    BY <1>3, <2>2 DEF Owed
<1>5. Owed(u) \in Nat /\ points[u] \in Nat /\ recorded[u] \in Nat
  BY OwingType DEF IInv, RefTypeOK
<1>6. points[u] + Owed(u) <= recorded[u]
  BY DEF PaidInv
<1> QED
  BY <1>1, <1>4, <1>5, <1>6

\* A step that changes neither calls nor balances.
LEMMA ElsewherePaid ==
    ASSUME PaidInv, UNCHANGED <<refCall, points, recorded>>
    PROVE  PaidInv'
<1>1. \A c \in RefCalls : Referrer(c)' = Referrer(c)
  BY DEF Referrer
<1>2. \A u : Owing(u)' = Owing(u)
  BY <1>1 DEF Owing
<1>3. \A u : Owed(u)' = Owed(u)
  BY <1>2 DEF Owed
<1> QED
  BY <1>1, <1>3 DEF PaidInv

LEMMA StepPaid == IInv /\ PaidInv /\ [RefNext]_refVars => PaidInv'
<1> SUFFICES ASSUME IInv, PaidInv, [RefNext]_refVars PROVE PaidInv'
  OBVIOUS
<1>0. IInv'
  BY StepIInv
<1>1. CASE UNCHANGED refVars
  BY <1>1, ElsewherePaid DEF refVars, rewardVars
<1>2. CASE NewMonth \/ \E m \in 1 .. RefMonths, u \in RefUsers : RefResetsCap(m, u)
  <2>1. UNCHANGED <<refCall, points, recorded>>
    BY <1>2 DEF NewMonth, RefResetsCap, rewardVars
  <2> QED
    BY <2>1, ElsewherePaid
<1>3. CASE RefCrash
  BY <1>0, <1>3, CrashPaid
<1>4. ASSUME NEW c \in RefCalls, CallStep(c) PROVE PaidInv'
  BY <1>0, <1>4, UnpaidStepPaid, OwedStepPaid, RecordsPaid, CreditsPaid DEF CallStep
<1>5. ASSUME NEW c \in RefCalls,
             \/ \E u, r \in RefUsers : RefRegisters(c, u, r)
             \/ \E u \in RefUsers : RefChecks(c, u)
             \/ \E u \in RefUsers, op \in {"task", "week"} : RefEarns(c, u, op)
      PROVE  PaidInv'
  BY <1>0, <1>5, BeginStepPaid
<1> QED
  BY <1>1, <1>2, <1>3, <1>4, <1>5, Steps DEF CallStep

LEMMA InitPaid == RefInit => PaidInv
<1> SUFFICES ASSUME RefInit PROVE PaidInv
  OBVIOUS
<1>1. \A c \in RefCalls : refCall[c].pc = "idle"
  BY IdleType DEF RefInit
<1>2. ASSUME NEW u \in RefUsers PROVE Owed(u) = 0
  <2>1. Owing(u) = [c \in RefCalls |-> 0]
    BY <1>1 DEF Owing, OwedPcs
  <2>2. IsFiniteSet(RefCalls)
    BY ReferralsAssumption
  <2>3. SumFunctionOnSet([c \in RefCalls |-> 0], RefCalls) = 0
    BY <2>2, SumOfZeros
  <2> QED
    BY <2>1, <2>3 DEF Owed
<1>3. \A u \in RefUsers : points[u] = 0 /\ recorded[u] = 0
  BY DEF RefInit
<1> QED
  BY <1>1, <1>2, <1>3 DEF PaidInv

\* A referrer never has more points than the rewards stored for it, however
\* credits from stale copies overwrite each other and whenever the process dies.
THEOREM PointsRecorded == RefSpec => []PointsAreRecorded
<1>1. RefInit => PaidInv
  BY InitPaid
<1>2. IInv /\ PaidInv /\ [RefNext]_refVars => PaidInv'
  BY StepPaid
<1>3. IInv /\ PaidInv => PointsAreRecorded
  <2> SUFFICES ASSUME IInv, PaidInv, NEW u \in RefUsers PROVE points[u] <= recorded[u]
    BY DEF PointsAreRecorded
  <2>1. points[u] \in Nat /\ recorded[u] \in Nat /\ Owed(u) \in Nat
    BY OwingType DEF IInv, RefTypeOK
  <2>2. points[u] + Owed(u) <= recorded[u]
    BY DEF PaidInv
  <2> QED
    BY <2>1, <2>2
<1> QED
  BY <1>1, <1>2, <1>3, IInvHolds, PTL DEF RefSpec

-----------------------------------------------------------------------------
(* Sessions *)

\* The commands of a registration, before and after the socket is registered, and
\* those of a disconnect.
RegistrationPcs == {"login", "create", "index", "activate", "loginUpdate", "connect",
                    "connectSession", "save", "wsSession"}
UnregisteredPcs == RegistrationPcs \ {"save", "wsSession"}
DisconnectPcs == {"remove", "endWs", "finalize"}

\* The chains of "close" and "error" events.
Closings == Chains \ Frames

\* Frames and closings are each at commands of their own.
ChainsInPlace ==
    /\ \A c \in Frames : chain[c] \notin DisconnectPcs
    /\ \A c \in Closings : chain[c] \in DisconnectPcs \cup {"idle", "done"}


\* The form of chains: a frame is <<"frame", socket, slot>>, the others close.
LEMMA ChainForm ==
    /\ \A c \in Chains : Socket(c) \in Sockets
    /\ Frames \subseteq Chains /\ Closings \subseteq Chains
    /\ \A c \in Frames : c[3] \in Slots /\ c = Frame(Socket(c), c[3])
    /\ \A s \in Sockets, k \in Slots : Frame(s, k) \in Frames /\ Socket(Frame(s, k)) = s
    /\ \A s \in Sockets :
         /\ Close(s) \in Closings /\ Socket(Close(s)) = s
         /\ Error(s) \in Closings /\ Socket(Error(s)) = s
  BY DEF Chains, Frames, Closings, Socket, Frame, Close, Error

LEMMA RegisteringMeans ==
    ASSUME NEW s \in Sockets
    PROVE  Registering(s) <=> \E c \in Frames : Socket(c) = s /\ chain[c] \in RegistrationPcs
  BY ChainForm DEF Registering, RegistrationPcs

\* What a step is: an event of a socket, a frame, or a command of a chain.
LEMMA SessionSteps ==
    ASSUME [Next]_vars
    PROVE  \/ \E s \in Sockets : Accepts(s) \/ Listens(s) \/ ClosesUnheard(s) \/ Vanishes(s)
           \/ \E c \in Closings : Disconnects(c) /\ (UNCHANGED faults \/ Fault)
           \/ \E c \in Frames, pc \in {"login", "ping", "setActive", "setInactive"} :
                 FrameArrives(c, pc)
           \/ \E c \in Chains : ChainStep(c)
           \/ Restart
           \/ UNCHANGED vars
<1>1. ASSUME NEW s \in Sockets,
             NodeCloses(s) \/ NodeFails(s) \/ ClosesAfterError(s) \/ RegistrationTimeout(s)
             \/ HealthCheck(s)
      PROVE  \E c \in Closings : Disconnects(c) /\ (UNCHANGED faults \/ Fault)
  BY <1>1, ChainForm
     DEF NodeCloses, NodeFails, ClosesAfterError, RegistrationTimeout, HealthCheck
<1> QED
  BY <1>1 DEF Next

\* A frame's chain registers or answers it, a closing's gives the socket up.
LEMMA ChainSteps ==
    ASSUME ChainsInPlace, NEW c \in Chains, ChainStep(c)
    PROVE  \/ c \in Frames /\ (RegistrationStep(c) \/ FrameStep(c))
           \/ c \in Closings /\ DisconnectStep(c)
<1>1. c \in Frames \/ c \in Closings
  BY DEF Closings
<1>2. ASSUME RegistrationStep(c) \/ FrameStep(c) PROVE c \notin Closings
  BY <1>2 DEF ChainsInPlace, DisconnectPcs, RegistrationStep, FrameStep, Login, CreateClient,
     IndexClient, Activate, ClientConnect, ConnectSession, SaveSession, WsSession, Authorizes,
     PingSession, ClientStatus
<1>3. ASSUME DisconnectStep(c) PROVE c \notin Frames
  BY <1>3 DEF ChainsInPlace, DisconnectPcs, DisconnectStep, RemoveSession, WsEndSession, Forget
<1> QED
  BY <1>1, <1>2, <1>3 DEF ChainStep
\* A chain is at the one command its last step left it at.
LEMMA ChainGoes ==
    ASSUME TypeOK, NEW c \in Chains, NEW pc \in Pcs, To(c, pc)
    PROVE  /\ chain' \in [Chains -> Pcs]
           /\ chain'[c] = pc
           /\ \A d \in Chains \ {c} : chain'[d] = chain[d]
  BY DEF To, TypeOK

LEMMA StatusSet ==
    ASSUME TypeOK, NEW p \in Principals, NEW status \in {ACTIVE, INACTIVE},
           NEW id \in Frames \cup {None}, SetStatus(p, status, id)
    PROVE  /\ record' \in [Principals -> [status : {"none", ACTIVE, INACTIVE},
                                          client_id : Frames \cup {None}]]
           /\ statusIndex' \in [Principals -> SUBSET {ACTIVE, INACTIVE}]
           /\ record'[p] = [status |-> status, client_id |-> id]
           /\ \A q \in Principals \ {p} :
                record'[q] = record[q] /\ statusIndex'[q] = statusIndex[q]
           /\ status \in statusIndex[p] \/ record[p].status # status => status \in statusIndex'[p]
           /\ record[p].status = status => statusIndex'[p] = statusIndex[p]
  BY DEF SetStatus, TypeOK, Relisted, ACTIVE, INACTIVE

LEMMA PrincipalOf == ASSUME TypeOK, NEW c \in Chains PROVE Principal(c) \in Principals
  BY ChainForm DEF TypeOK, Principal

LEMMA SessionRecords ==
    ASSUME TypeOK, NEW s \in Sockets
    PROVE  /\ session[s].id \in Nat /\ session[s].isRegistered \in BOOLEAN
           /\ session[s].clientId \in Frames \cup {None}
           /\ session[s].wsSessionId \in SessionIds \cup {None}
  BY DEF TypeOK

ClientSession == [id : Nat, isRegistered : BOOLEAN, clientId : Frames \cup {None},
                  wsSessionId : SessionIds \cup {None}]

\* What accepting, connecting and the record of a session change of it.
LEMMA SessionEdits ==
    ASSUME TypeOK, NEW s \in Sockets, NEW t \in ClientSession,
           session' = [session EXCEPT ![s] = t]
    PROVE  /\ session' \in [Sockets -> ClientSession]
           /\ session'[s] = t
           /\ \A r \in Sockets \ {s} : session'[r] = session[r]
  BY DEF TypeOK, ClientSession

LEMMA SessionAccepted ==
    ASSUME TypeOK, NEW s \in Sockets, Accepts(s)
    PROVE  /\ session' \in [Sockets -> ClientSession]
           /\ session'[s].id = nextSessionId
           /\ session'[s].isRegistered = session[s].isRegistered
           /\ session'[s].clientId = session[s].clientId
           /\ session'[s].wsSessionId = session[s].wsSessionId
           /\ \A r \in Sockets \ {s} : session'[r] = session[r]
<1> DEFINE t == [session[s] EXCEPT !.id = nextSessionId]
<1>1. session[s] \in ClientSession /\ nextSessionId \in Nat
  BY DEF TypeOK, ClientSession
<1>2. PICK u : u = t
  OBVIOUS
<1>3. /\ u \in ClientSession
      /\ u.id = nextSessionId /\ u.isRegistered = session[s].isRegistered
      /\ u.clientId = session[s].clientId /\ u.wsSessionId = session[s].wsSessionId
  BY <1>1, <1>2 DEF ClientSession
<1>4. session' = [session EXCEPT ![s] = u]
  BY <1>2 DEF Accepts
<1> QED
  BY <1>3, <1>4, SessionEdits

LEMMA SessionConnected ==
    ASSUME TypeOK, NEW c \in Frames, ConnectSession(c)
    PROVE  LET s == Socket(c) IN
           /\ session' \in [Sockets -> ClientSession]
           /\ session'[s].id = session[s].id
           /\ session'[s].isRegistered = TRUE
           /\ session'[s].clientId = c
           /\ session'[s].wsSessionId = session[s].wsSessionId
           /\ \A r \in Sockets \ {s} : session'[r] = session[r]
<1> DEFINE s == Socket(c)
<1>1. s \in Sockets /\ session \in [Sockets -> ClientSession] /\ session[s] \in ClientSession
  BY ChainForm DEF TypeOK, ClientSession
<1>2. PICK u : u = [session[s] EXCEPT !.isRegistered = TRUE, !.clientId = c]
  OBVIOUS
<1>3. /\ u \in ClientSession
      /\ u.id = session[s].id /\ u.isRegistered = TRUE
      /\ u.clientId = c /\ u.wsSessionId = session[s].wsSessionId
  BY <1>1, <1>2 DEF ClientSession
<1>4. session' = [session EXCEPT ![s] = u]
  <2>1. session' = [session EXCEPT ![s] = [@ EXCEPT !.isRegistered = TRUE, !.clientId = c]]
    BY DEF ConnectSession
  <2>2. session' = [session EXCEPT ![s] = [session[s] EXCEPT !.isRegistered = TRUE, !.clientId = c]]
    BY <1>1, <2>1
  <2> QED
    BY <1>2, <2>2
<1> QED
  BY <1>1, <1>3, <1>4, SessionEdits

LEMMA SessionEnlisted ==
    ASSUME TypeOK, NEW c \in Frames, WsSession(c)
    PROVE  LET s == Socket(c) IN
           /\ session' \in [Sockets -> ClientSession]
           /\ session'[s].id = session[s].id
           /\ session'[s].isRegistered = session[s].isRegistered
           /\ session'[s].clientId = session[s].clientId
           /\ session'[s].wsSessionId = <<c, "ws">>
           /\ \A r \in Sockets \ {s} : session'[r] = session[r]
<1> DEFINE s == Socket(c)
<1>1. s \in Sockets /\ session[s] \in ClientSession /\ <<c, "ws">> \in SessionIds
  BY ChainForm DEF TypeOK, ClientSession, SessionIds
<1>2. PICK u : u = [session[s] EXCEPT !.wsSessionId = <<c, "ws">>]
  OBVIOUS
<1>3. /\ u \in ClientSession
      /\ u.id = session[s].id /\ u.isRegistered = session[s].isRegistered
      /\ u.clientId = session[s].clientId /\ u.wsSessionId = <<c, "ws">>
  BY <1>1, <1>2 DEF ClientSession
<1>4. session' = [session EXCEPT ![s] = u]
  BY <1>2 DEF WsSession
<1> QED
  BY <1>1, <1>3, <1>4, SessionEdits

LEMMA OpensTyped ==
    ASSUME TypeOK, NEW c \in Frames, NEW kinds \in SUBSET {"connect", "node", "ws", "ping"},
           OpenSessions(c, kinds)
    PROVE  userSessions' \in [Principals -> SUBSET SessionIds]
<1>1. {c} \X kinds \subseteq SessionIds
  BY DEF SessionIds
<1> QED
  BY <1>1 DEF TypeOK, OpenSessions

LEMMA InitTyped == Init => TypeOK /\ ChainsInPlace
<1> SUFFICES ASSUME Init PROVE TypeOK /\ ChainsInPlace
  OBVIOUS
<1>1. NoSession \in [id : Nat, isRegistered : BOOLEAN, clientId : Frames \cup {None},
                     wsSessionId : SessionIds \cup {None}]
  BY DEF NoSession
<1>2. NoRecord \in [status : {"none", ACTIVE, INACTIVE}, client_id : Frames \cup {None}]
  BY DEF NoRecord
<1>3. Cardinality(Sockets) \in Nat
  BY SessionsAssumption, FS_CardinalityType
<1> QED
  BY <1>1, <1>2, <1>3, SessionsAssumption, ChainForm
     DEF Init, TypeOK, Pcs, ChainsInPlace, Closings, DisconnectPcs

LEMMA SocketEventTyped ==
    ASSUME TypeOK, NEW s \in Sockets,
           Accepts(s) \/ Listens(s) \/ ClosesUnheard(s) \/ Vanishes(s)
    PROVE  TypeOK'
<1>1. CASE Accepts(s)
  <2>1. session' \in [Sockets -> ClientSession]
    BY <1>1, SessionAccepted
  <2> QED
    BY <1>1, <2>1 DEF Accepts, TypeOK, ClientSession, given, histories, bounds
<1>2. CASE Listens(s)
  BY <1>2 DEF Listens, TypeOK, given, redisVars, histories, bounds
<1>3. CASE ClosesUnheard(s)
  BY <1>3, SessionsAssumption DEF ClosesUnheard, Fault, TypeOK, given, redisVars
<1>4. CASE Vanishes(s)
  BY <1>4, SessionsAssumption DEF Vanishes, Fault, TypeOK, given, redisVars, histories
<1> QED
  BY <1>1, <1>2, <1>3, <1>4

LEMMA DisconnectsTyped ==
    ASSUME TypeOK, NEW c \in Closings, Disconnects(c), UNCHANGED faults \/ Fault
    PROVE  TypeOK'
<1>1. c \in Chains /\ Socket(c) \in Sockets
  BY ChainForm
<1>2. chain' \in [Chains -> Pcs]
  <2>1. PICK pc \in {"remove", "finalize"} : To(c, pc)
    BY DEF Disconnects
  <2> QED
    BY <1>1, <2>1, ChainGoes DEF Pcs
<1>3. faults' \in 0 .. MaxFaults
  BY SessionsAssumption DEF Fault, TypeOK
<1> QED
  BY <1>1, <1>2, <1>3 DEF Disconnects, TypeOK, given, redisVars

LEMMA FrameArrivesTyped ==
    ASSUME TypeOK, NEW c \in Frames, NEW pc \in {"login", "ping", "setActive", "setInactive"},
           FrameArrives(c, pc)
    PROVE  TypeOK'
<1>1. c \in Chains /\ Socket(c) \in Sockets
  BY ChainForm
<1>2. chain' \in [Chains -> Pcs]
  BY <1>1, ChainGoes DEF FrameArrives, Pcs
<1>3. overtaken' \in SUBSET Sockets
  BY <1>1 DEF FrameArrives, TypeOK
<1>4. doubted' \in SUBSET Principals
  BY <1>1 DEF FrameArrives, TypeOK
<1>5. heard' \in SUBSET Sockets
  BY <1>1 DEF FrameArrives, TypeOK
<1> QED
  BY <1>2, <1>3, <1>4, <1>5 DEF FrameArrives, TypeOK, given, redisVars, bounds

LEMMA RegistrationTyped ==
    ASSUME TypeOK, NEW c \in Frames, RegistrationStep(c)
    PROVE  TypeOK'
<1> USE DEF RedisOnly, mapVars, histories, bounds, given, redisVars
<1>1. c \in Chains /\ Socket(c) \in Sockets /\ Principal(c) \in Principals
  BY ChainForm, PrincipalOf
<1>2. CASE Login(c)
  <2>1. chain' \in [Chains -> Pcs]
    BY <1>1, <1>2, ChainGoes DEF Login, LoginContinues, Pcs
  <2> QED
    BY <1>2, <2>1 DEF Login, TypeOK
<1>3. CASE CreateClient(c)
  <2>1. chain' \in [Chains -> Pcs]
    BY <1>1, <1>3, ChainGoes DEF CreateClient, Pcs
  <2> QED
    BY <1>1, <1>3, <2>1 DEF CreateClient, TypeOK
<1>4. CASE IndexClient(c)
  <2>1. chain' \in [Chains -> Pcs]
    BY <1>1, <1>4, ChainGoes DEF IndexClient, Pcs
  <2> QED
    BY <1>1, <1>4, <2>1 DEF IndexClient, TypeOK
<1>5. CASE Activate(c)
  <2>1. chain' \in [Chains -> Pcs]
    BY <1>1, <1>5, ChainGoes DEF Activate, Pcs
  <2>2. record[Principal(c)].client_id \in Frames \cup {None}
    BY <1>1 DEF TypeOK
  <2>3. SetStatus(Principal(c), ACTIVE, record[Principal(c)].client_id)
    BY <1>5 DEF Activate
  <2>4. UNCHANGED <<lastSessionId, saved, userSessions>>
    BY <2>3 DEF SetStatus
  <2> QED
    BY <1>1, <1>5, <2>1, <2>2, <2>3, <2>4, StatusSet DEF Activate, TypeOK
<1>6. CASE ClientConnect(c)
  <2>1. chain' \in [Chains -> Pcs]
    BY <1>1, <1>6, ChainGoes DEF ClientConnect, Pcs
  <2>2. PICK id \in Frames \cup {None} : SetStatus(Principal(c), ACTIVE, id)
    BY <1>1, <1>6, SessionRecords DEF ClientConnect
  <2>3. UNCHANGED <<lastSessionId, saved, userSessions>>
    BY <2>2 DEF SetStatus
  <2> QED
    BY <1>1, <1>6, <2>1, <2>2, <2>3, StatusSet DEF ClientConnect, TypeOK
<1>7. CASE ConnectSession(c)
  <2>1. chain' \in [Chains -> Pcs]
    BY <1>1, <1>7, ChainGoes DEF ConnectSession, Pcs
  <2>2. userSessions' \in [Principals -> SUBSET SessionIds]
    BY <1>7, OpensTyped DEF ConnectSession
  <2>3. session' \in [Sockets -> ClientSession]
    BY <1>7, SessionConnected
  <2> QED
    BY <1>7, <2>1, <2>2, <2>3 DEF ConnectSession, OpenSessions, TypeOK, ClientSession
<1>8. CASE SaveSession(c)
  <2>1. chain' \in [Chains -> Pcs]
    BY <1>1, <1>8, ChainGoes DEF SaveSession, Pcs
  <2>2. saved' \in [1 .. Cardinality(Sockets) -> Sockets \cup {None}]
    BY <1>1, <1>8 DEF SaveSession, TypeOK
  <2> QED
    BY <1>1, <1>8, <2>1, <2>2 DEF SaveSession, TypeOK
<1>9. CASE WsSession(c)
  <2>1. chain' \in [Chains -> Pcs]
    BY <1>1, <1>9, ChainGoes DEF WsSession, Pcs
  <2>2. userSessions' \in [Principals -> SUBSET SessionIds]
    BY <1>9, OpensTyped DEF WsSession
  <2>4. session' \in [Sockets -> ClientSession]
    BY <1>9, SessionEnlisted
  <2> QED
    BY <1>9, <2>1, <2>2, <2>4 DEF WsSession, OpenSessions, TypeOK, ClientSession
<1> QED
  BY <1>2, <1>3, <1>4, <1>5, <1>6, <1>7, <1>8, <1>9 DEF RegistrationStep

LEMMA FrameStepTyped ==
    ASSUME TypeOK, NEW c \in Frames, FrameStep(c)
    PROVE  TypeOK'
<1> USE DEF RedisOnly, mapVars, histories, bounds, given, redisVars
<1>1. c \in Chains /\ Socket(c) \in Sockets /\ Principal(c) \in Principals
  BY ChainForm, PrincipalOf
<1>2. ASSUME NEW pc \in {"ping", "setActive", "setInactive"}, Authorizes(c, pc) PROVE TypeOK'
  <2>1. chain' \in [Chains -> Pcs]
    BY <1>1, <1>2, ChainGoes DEF Authorizes, Pcs
  <2> QED
    BY <1>2, <2>1 DEF Authorizes, TypeOK
<1>3. CASE PingSession(c)
  <2>1. chain' \in [Chains -> Pcs]
    BY <1>1, <1>3, ChainGoes DEF PingSession, Pcs
  <2>2. userSessions' \in [Principals -> SUBSET SessionIds]
    BY <1>3, OpensTyped DEF PingSession
  <2> QED
    BY <1>3, <2>1, <2>2 DEF PingSession, OpenSessions, TypeOK
<1>4. CASE ClientStatus(c)
  <2>1. chain' \in [Chains -> Pcs]
    BY <1>1, <1>4, ChainGoes DEF ClientStatus, Pcs
  <2>2. record[Principal(c)].client_id \in Frames \cup {None}
    BY <1>1 DEF TypeOK
  <2>3. PICK status \in {ACTIVE, INACTIVE} :
            SetStatus(Principal(c), status, record[Principal(c)].client_id)
    BY <1>4 DEF ClientStatus
  <2>4. UNCHANGED <<lastSessionId, saved, userSessions>>
    BY <2>3 DEF SetStatus
  <2>5. doubted' \in SUBSET Principals
    BY <1>1, <1>4 DEF ClientStatus, TypeOK
  <2> QED
    BY <1>1, <1>4, <2>1, <2>2, <2>3, <2>4, <2>5, StatusSet DEF ClientStatus, TypeOK
<1> QED
  BY <1>2, <1>3, <1>4 DEF FrameStep

LEMMA DisconnectStepTyped ==
    ASSUME TypeOK, NEW c \in Closings, DisconnectStep(c)
    PROVE  TypeOK'
<1> USE DEF RedisOnly, mapVars, histories, bounds, given, redisVars
<1>1. c \in Chains /\ Socket(c) \in Sockets /\ Principal(c) \in Principals
  BY ChainForm, PrincipalOf
<1>2. chain' \in [Chains -> Pcs]
  BY <1>1, ChainGoes DEF DisconnectStep, RemoveSession, WsEndSession, Forget, Pcs
<1>3. CASE RemoveSession(c)
  <2>1. saved' \in [1 .. Cardinality(Sockets) -> Sockets \cup {None}]
    BY <1>1, <1>3 DEF RemoveSession, TypeOK
  <2> QED
    BY <1>2, <1>3, <2>1 DEF RemoveSession, TypeOK
<1>4. CASE WsEndSession(c)
  BY <1>1, <1>2, <1>4 DEF WsEndSession, TypeOK
<1>5. CASE Forget(c)
  BY <1>1, <1>2, <1>5 DEF Forget, TypeOK
<1> QED
  BY <1>3, <1>4, <1>5 DEF DisconnectStep

LEMMA RestartTyped == ASSUME TypeOK, Restart PROVE TypeOK' /\ ChainsInPlace'
<1> USE DEF histories, bounds, given, redisVars
<1>1. chain' \in [Chains -> {"idle", "done"}]
  BY DEF Restart
<1>2. stage' \in [Sockets -> {"absent", "accepted", "listening", "gone"}]
  BY DEF Restart
<1>3. nextSessionId' \in Nat
  BY DEF Restart, RestoredId, TypeOK
<1>4. restarts' \in 0 .. MaxRestarts
  BY SessionsAssumption DEF Restart, TypeOK
<1>5. TypeOK'
  BY <1>1, <1>2, <1>3, <1>4 DEF Restart, TypeOK, Pcs
<1> QED
  BY <1>1, <1>5, ChainForm DEF ChainsInPlace, DisconnectPcs

LEMMA StepTyped == TypeOK /\ ChainsInPlace /\ [Next]_vars => TypeOK' /\ ChainsInPlace'
<1> SUFFICES ASSUME TypeOK, ChainsInPlace, [Next]_vars PROVE TypeOK' /\ ChainsInPlace'
  OBVIOUS
<1>1. ASSUME chain' = chain PROVE ChainsInPlace'
  BY <1>1 DEF ChainsInPlace
<1>2. ASSUME NEW s \in Sockets, Accepts(s) \/ Listens(s) \/ ClosesUnheard(s) \/ Vanishes(s)
      PROVE  TypeOK' /\ ChainsInPlace'
  <2>1. chain' = chain
    BY <1>2 DEF Accepts, Listens, ClosesUnheard, Vanishes
  <2> QED
    BY <1>1, <1>2, <2>1, SocketEventTyped
<1>3. ASSUME NEW c \in Closings, Disconnects(c), UNCHANGED faults \/ Fault
      PROVE  TypeOK' /\ ChainsInPlace'
  <2>1. PICK pc \in {"remove", "finalize"} : To(c, pc)
    BY <1>3 DEF Disconnects
  <2>2. \A d \in Chains : chain'[d] = IF d = c THEN pc ELSE chain[d]
    BY <2>1, ChainForm, ChainGoes DEF Pcs
  <2> QED
    BY <1>3, <2>1, <2>2, ChainForm, DisconnectsTyped DEF ChainsInPlace, DisconnectPcs, Closings
<1>4. ASSUME NEW c \in Frames, NEW pc \in {"login", "ping", "setActive", "setInactive"},
             FrameArrives(c, pc)
      PROVE  TypeOK' /\ ChainsInPlace'
  <2>1. \A d \in Chains : chain'[d] = IF d = c THEN pc ELSE chain[d]
    BY <1>4, ChainForm, ChainGoes DEF FrameArrives, Pcs
  <2> QED
    BY <1>4, <2>1, ChainForm, FrameArrivesTyped DEF ChainsInPlace, DisconnectPcs, Closings
<1>5. ASSUME NEW c \in Frames, RegistrationStep(c) \/ FrameStep(c)
      PROVE  TypeOK' /\ ChainsInPlace'
  <2>1. PICK pc \in Pcs \ DisconnectPcs : To(c, pc)
    BY <1>5 DEF RegistrationStep, FrameStep, Login, LoginContinues, CreateClient, IndexClient,
       Activate, ClientConnect, ConnectSession, SaveSession, WsSession, Authorizes, PingSession,
       ClientStatus, Pcs, DisconnectPcs
  <2>2. \A d \in Chains : chain'[d] = IF d = c THEN pc ELSE chain[d]
    BY <2>1, ChainForm, ChainGoes
  <2> QED
    BY <1>5, <2>1, <2>2, ChainForm, RegistrationTyped, FrameStepTyped
       DEF ChainsInPlace, Closings
<1>6. ASSUME NEW c \in Closings, DisconnectStep(c) PROVE TypeOK' /\ ChainsInPlace'
  <2>1. PICK pc \in {"endWs", "finalize", "done"} : To(c, pc)
    BY <1>6 DEF DisconnectStep, RemoveSession, WsEndSession, Forget
  <2>2. \A d \in Chains : chain'[d] = IF d = c THEN pc ELSE chain[d]
    BY <2>1, ChainForm, ChainGoes DEF Pcs
  <2> QED
    BY <1>6, <2>1, <2>2, ChainForm, DisconnectStepTyped DEF ChainsInPlace, DisconnectPcs, Closings
<1>7. CASE UNCHANGED vars
  BY <1>1, <1>7 DEF vars, mapVars, redisVars, histories, bounds, given, TypeOK
<1> QED
  BY <1>2, <1>3, <1>4, <1>5, <1>6, <1>7, RestartTyped, SessionSteps, ChainSteps
\* What holds of a socket no frame of which has been read.
NotBegun(s) ==
    /\ ~ session[s].isRegistered
    /\ session[s].clientId = None
    /\ session[s].wsSessionId = None
    /\ \A c \in Chains : Socket(c) = s => chain[c] = "idle"
    /\ \A i \in DOMAIN saved : saved[i] # s

\* A socket does nothing before it is listened to, is closed while it is given up,
\* and is saved under its own session id alone.
SocketsInOrder ==
    /\ \A s \in Sockets : stage[s] \in {"absent", "accepted"} => NotBegun(s)
    /\ \A c \in Closings : chain[c] # "idle" => ~ alive[Socket(c)]
    /\ \A i \in DOMAIN saved : \A s \in Sockets : saved[i] = s => session[s].id = i


\* What a command of a chain leaves alone.
LEMMA ChainStepEffect ==
    ASSUME TypeOK, NEW c \in Chains, c \in Frames \/ DisconnectStep(c), ChainStep(c)
    PROVE  /\ chain[c] \notin {"idle", "done"}
           /\ chain'[c] # "idle"
           /\ \A d \in Chains \ {c} : chain'[d] = chain[d]
           /\ alive' = alive
           /\ \A t \in Sockets : session'[t].id = session[t].id
           /\ \A t \in Sockets \ {Socket(c)} : session'[t] = session[t] /\ stage'[t] = stage[t]
           /\ stage'[Socket(c)] \in {stage[Socket(c)], "gone"}
           /\ DOMAIN saved' = DOMAIN saved
           /\ \A i \in DOMAIN saved : saved'[i] # saved[i] =>
                /\ i = session[Socket(c)].id
                /\ saved'[i] \in {Socket(c), None}
<1> USE DEF RedisOnly, mapVars, histories, bounds, given, redisVars
<1>1. Socket(c) \in Sockets
  BY ChainForm
<1>2. CASE ConnectSession(c) /\ c \in Frames
  <2>1. To(c, "save")
    BY <1>2 DEF ConnectSession
  <2> QED
    BY <1>1, <1>2, <2>1, ChainGoes, SessionConnected DEF ConnectSession, OpenSessions, Pcs
<1>3. CASE WsSession(c) /\ c \in Frames
  <2>1. To(c, "done")
    BY <1>3 DEF WsSession
  <2> QED
    BY <1>1, <1>3, <2>1, ChainGoes, SessionEnlisted DEF WsSession, OpenSessions, Pcs
<1>4. CASE SaveSession(c)
  <2>1. To(c, "wsSession")
    BY <1>4 DEF SaveSession
  <2> QED
    BY <1>1, <1>4, <2>1, ChainGoes DEF SaveSession, Pcs, TypeOK
<1>5. CASE RemoveSession(c)
  <2>1. PICK pc \in {"endWs", "finalize"} : To(c, pc)
    BY <1>5 DEF RemoveSession
  <2> QED
    BY <1>1, <1>5, <2>1, ChainGoes DEF RemoveSession, Pcs, TypeOK
<1>6. CASE Forget(c)
  <2>1. To(c, "done")
    BY <1>6 DEF Forget
  <2> QED
    BY <1>1, <1>6, <2>1, ChainGoes DEF Forget, Pcs, TypeOK
<1>7. CASE WsEndSession(c)
  <2>1. To(c, "finalize")
    BY <1>7 DEF WsEndSession
  <2> QED
    BY <1>1, <1>7, <2>1, ChainGoes DEF WsEndSession, Pcs
<1>8. CASE Login(c) \/ CreateClient(c) \/ IndexClient(c) \/ Activate(c) \/ ClientConnect(c)
           \/ FrameStep(c)
  <2>1. PICK pc \in Pcs \ {"idle"} : To(c, pc)
    BY <1>8 DEF FrameStep, Login, LoginContinues, CreateClient, IndexClient,
       Activate, ClientConnect, Authorizes, PingSession, ClientStatus, Pcs
  <2>2. UNCHANGED <<alive, stage, session, saved>>
    BY <1>8 DEF FrameStep, Login, CreateClient, IndexClient, Activate, ClientConnect,
       Authorizes, PingSession, ClientStatus, SetStatus, OpenSessions
  <2>3. chain[c] \notin {"idle", "done"}
    BY <1>8 DEF FrameStep, Login, CreateClient, IndexClient, Activate, ClientConnect,
       Authorizes, PingSession, ClientStatus
  <2> QED
    BY <1>1, <2>1, <2>2, <2>3, ChainGoes DEF Pcs
<1> QED
  BY <1>2, <1>3, <1>4, <1>5, <1>6, <1>7, <1>8
     DEF ChainStep, RegistrationStep, DisconnectStep, ConnectSession, WsSession, Forget,
     RemoveSession, WsEndSession

LEMMA InitInOrder == Init => SocketsInOrder
<1> SUFFICES ASSUME Init PROVE SocketsInOrder
  OBVIOUS
<1>1. \A i \in DOMAIN saved : saved[i] = None
  BY DEF Init
<1>2. \A c \in Chains : chain[c] = "idle"
  BY DEF Init
<1>3. \A s \in Sockets : NotBegun(s)
  BY <1>1, <1>2, SessionsAssumption DEF Init, NotBegun, NoSession
<1> QED
  BY <1>1, <1>2, <1>3, SessionsAssumption, ChainForm DEF SocketsInOrder

LEMMA NotBegunKept ==
    ASSUME NEW s, session'[s].isRegistered = session[s].isRegistered,
           session'[s].clientId = session[s].clientId,
           session'[s].wsSessionId = session[s].wsSessionId,
           \A c \in Chains : Socket(c) = s => chain'[c] = chain[c],
           DOMAIN saved' = DOMAIN saved,
           \A i \in DOMAIN saved : saved'[i] = s => saved[i] = s,
           NotBegun(s)
    PROVE  NotBegun(s)'
  BY DEF NotBegun, Socket

LEMMA StepInOrder ==
    TypeOK /\ ChainsInPlace /\ SocketsInOrder /\ [Next]_vars => SocketsInOrder'
<1> SUFFICES ASSUME TypeOK, ChainsInPlace, SocketsInOrder, [Next]_vars PROVE SocketsInOrder'
  OBVIOUS
<1>1. ASSUME NEW s \in Sockets, Accepts(s) PROVE SocketsInOrder'
  <2>1. NotBegun(s)
    BY <1>1 DEF Accepts, SocketsInOrder
  <2>2. /\ chain' = chain /\ saved' = saved
        /\ \A t \in Sockets \ {s} : stage'[t] = stage[t] /\ alive'[t] = alive[t]
    BY <1>1 DEF Accepts, TypeOK
  <2>3. ASSUME NEW t \in Sockets, stage'[t] \in {"absent", "accepted"} PROVE NotBegun(t)'
    <3>1. NotBegun(t)
      BY <2>1, <2>2, <2>3 DEF SocketsInOrder
    <3> QED
      BY <1>1, <2>2, <3>1, SessionAccepted, NotBegunKept
  <2>4. ASSUME NEW c \in Closings, chain'[c] # "idle" PROVE ~ alive'[Socket(c)]
    BY <2>1, <2>2, <2>4, ChainForm DEF SocketsInOrder, NotBegun
  <2>5. ASSUME NEW i \in DOMAIN saved', NEW t \in Sockets, saved'[i] = t
        PROVE  session'[t].id = i
    BY <1>1, <2>1, <2>2, <2>5, SessionAccepted DEF SocketsInOrder, NotBegun
  <2> QED
    BY <2>3, <2>4, <2>5 DEF SocketsInOrder, Closings, Socket
<1>2. ASSUME NEW s \in Sockets, Listens(s) \/ ClosesUnheard(s) \/ Vanishes(s)
      PROVE  SocketsInOrder'
  <2>1. chain' = chain /\ saved' = saved /\ session' = session
    BY <1>2 DEF Listens, ClosesUnheard, Vanishes, redisVars
  <2>2. \A t \in Sockets : /\ stage'[t] \in {stage[t], "listening"}
                           /\ ~ alive[t] => ~ alive'[t]
    BY <1>2 DEF Listens, ClosesUnheard, Vanishes, TypeOK
  <2>3. ASSUME NEW t \in Sockets, stage'[t] \in {"absent", "accepted"} PROVE NotBegun(t)'
    BY <2>1, <2>2, <2>3, NotBegunKept DEF SocketsInOrder
  <2> QED
    BY <2>1, <2>2, <2>3, ChainForm DEF SocketsInOrder, Closings, Socket
<1>3. ASSUME NEW c \in Chains, stage[Socket(c)] = "listening",
             \A d \in Chains \ {c} : chain'[d] = chain[d],
             c \in Closings => ~ alive'[Socket(c)],
             \A t \in Sockets : ~ alive[t] => ~ alive'[t],
             UNCHANGED <<stage, session, saved>>
      PROVE  SocketsInOrder'
  <2>1. ASSUME NEW t \in Sockets, stage'[t] \in {"absent", "accepted"} PROVE NotBegun(t)'
    <3>1. NotBegun(t) /\ t # Socket(c)
      BY <1>3, <2>1 DEF SocketsInOrder
    <3> QED
      BY <1>3, <3>1, NotBegunKept
  <2>2. ASSUME NEW d \in Closings, chain'[d] # "idle" PROVE ~ alive'[Socket(d)]
    BY <1>3, <2>2, ChainForm DEF SocketsInOrder
  <2> QED
    BY <1>3, <2>1, <2>2 DEF SocketsInOrder, Closings, Socket
<1>4. ASSUME NEW c \in Closings, Disconnects(c) PROVE SocketsInOrder'
  <2>1. PICK pc \in {"remove", "finalize"} : To(c, pc)
    BY <1>4 DEF Disconnects
  <2>2. c \in Chains /\ Socket(c) \in Sockets
    BY ChainForm
  <2> QED
    BY <1>3, <1>4, <2>1, <2>2, ChainGoes DEF Disconnects, redisVars, Pcs, TypeOK
<1>5. ASSUME NEW c \in Frames, NEW pc \in {"login", "ping", "setActive", "setInactive"},
             FrameArrives(c, pc)
      PROVE  SocketsInOrder'
  <2>1. c \in Chains /\ c \notin Closings
    BY ChainForm DEF Closings
  <2> QED
    BY <1>3, <1>5, <2>1, ChainGoes DEF FrameArrives, redisVars, Pcs
<1>6. ASSUME NEW c \in Chains, ChainStep(c) PROVE SocketsInOrder'
  <2>1. c \in Frames \/ DisconnectStep(c)
    BY <1>6, ChainSteps
  <2>2. Socket(c) \in Sockets /\ ~ NotBegun(Socket(c))
    BY <1>6, <2>1, ChainForm, ChainStepEffect DEF NotBegun
  <2>3. ASSUME NEW t \in Sockets, stage'[t] \in {"absent", "accepted"} PROVE NotBegun(t)'
    <3>1. NotBegun(t) /\ t # Socket(c)
      BY <1>6, <2>1, <2>2, <2>3, ChainStepEffect DEF SocketsInOrder
    <3>2. t # None
      BY SessionsAssumption
    <3> QED
      BY <1>6, <2>1, <3>1, <3>2, ChainStepEffect, NotBegunKept
  <2>4. ASSUME NEW d \in Closings, chain'[d] # "idle" PROVE ~ alive'[Socket(d)]
    BY <1>6, <2>1, <2>4, ChainForm, ChainStepEffect DEF SocketsInOrder
  <2>5. ASSUME NEW i \in DOMAIN saved', NEW t \in Sockets, saved'[i] = t
        PROVE  session'[t].id = i
    BY <1>6, <2>1, <2>5, SessionsAssumption, ChainStepEffect DEF SocketsInOrder
  <2> QED
    BY <2>3, <2>4, <2>5 DEF SocketsInOrder, Closings, Socket
<1>7. ASSUME Restart PROVE SocketsInOrder'
  <2>1. UNCHANGED <<session, saved>> /\ \A t \in Sockets : ~ alive'[t]
    BY <1>7 DEF Restart, redisVars
  <2>2. ASSUME NEW t \in Sockets, stage'[t] \in {"absent", "accepted"} PROVE NotBegun(t)'
    <3>1. stage[t] = "absent" /\ NotBegun(t)
      BY <1>7, <2>2 DEF Restart, SocketsInOrder
    <3>2. \A c \in Chains : Socket(c) = t => chain'[c] = chain[c]
      BY <1>7, <3>1 DEF Restart, NotBegun
    <3> QED
      BY <2>1, <3>1, <3>2, NotBegunKept
  <2> QED
    BY <2>1, <2>2, ChainForm DEF SocketsInOrder, Closings, Socket
<1>8. CASE UNCHANGED vars
  BY <1>8 DEF vars, mapVars, redisVars, SocketsInOrder, NotBegun, Closings, Socket
<1> QED
  BY <1>1, <1>2, <1>4, <1>5, <1>6, <1>7, <1>8, SessionSteps
\* The index lists a client under its status, or createClient is about to: it stores
\* the record INACTIVE and then adds the entry.
Indexed(p) ==
    /\ record[p].status = "none" => record[p] = NoRecord
    /\ record[p].status = ACTIVE => ACTIVE \in statusIndex[p]
    /\ record[p].status = INACTIVE =>
         INACTIVE \in statusIndex[p]
         \/ \E c \in Chains : Principal(c) = p /\ chain[c] = "index"
IndexInv == restarts = 0 => \A p \in Principals : Indexed(p)

LEMMA InitIndexed == Init => IndexInv
  BY ChainForm DEF Init, IndexInv, Indexed, NoRecord, ACTIVE, INACTIVE

LEMMA IndexedKept ==
    ASSUME NEW p, Indexed(p), record'[p] = record[p], statusIndex'[p] = statusIndex[p],
           owner' = owner,
           \A c \in Chains : chain[c] = "index" => chain'[c] = "index"
    PROVE  Indexed(p)'
  BY DEF Indexed, NoRecord, Chains, Principal, Socket, ACTIVE, INACTIVE

LEMMA IndexedWhenSet ==
    ASSUME TypeOK, NEW c \in Frames, NEW status \in {ACTIVE, INACTIVE},
           NEW id \in Frames \cup {None}, SetStatus(Principal(c), status, id),
           \A p \in Principals : Indexed(p),
           owner' = owner, chain[c] # "index", \A d \in Chains \ {c} : chain'[d] = chain[d]
    PROVE  \A p \in Principals : Indexed(p)'
<1> SUFFICES ASSUME NEW p \in Principals PROVE Indexed(p)'
  OBVIOUS
<1>1. Principal(c) \in Principals
  BY ChainForm, PrincipalOf
<1>2. \A d \in Chains : chain[d] = "index" => chain'[d] = "index"
  OBVIOUS
<1>5. /\ record'[Principal(c)] = [status |-> status, client_id |-> id]
      /\ \A q \in Principals \ {Principal(c)} :
           record'[q] = record[q] /\ statusIndex'[q] = statusIndex[q]
      /\ record[Principal(c)].status # status => status \in statusIndex'[Principal(c)]
      /\ record[Principal(c)].status = status =>
           statusIndex'[Principal(c)] = statusIndex[Principal(c)]
  BY <1>1, StatusSet
<1>3. CASE p # Principal(c)
  <2>1. record'[p] = record[p] /\ statusIndex'[p] = statusIndex[p]
    BY <1>3, <1>5
  <2> QED
    BY <1>2, <2>1, IndexedKept
<1>4. CASE p = Principal(c)
  <2>1. record'[p].status = status
    BY <1>4, <1>5
  <2>2. CASE record[p].status # status
    <3>1. status \in statusIndex'[p]
      BY <1>4, <1>5, <2>2
    <3> QED
      BY <2>1, <3>1 DEF Indexed, ACTIVE, INACTIVE
  <2>3. CASE record[p].status = status
    <3>1. statusIndex'[p] = statusIndex[p]
      BY <1>4, <1>5, <2>3
    <3> QED
      BY <1>2, <2>1, <2>3, <3>1
         DEF Indexed, Chains, Principal, Socket, ACTIVE, INACTIVE
  <2> QED
    BY <2>2, <2>3
<1> QED
  BY <1>3, <1>4

LEMMA StepIndexed ==
    TypeOK /\ ChainsInPlace /\ SocketsInOrder /\ IndexInv /\ [Next]_vars => IndexInv'
<1> SUFFICES ASSUME TypeOK, ChainsInPlace, IndexInv, [Next]_vars, restarts' = 0
             PROVE  \A p \in Principals : Indexed(p)'
  BY DEF IndexInv
<1> USE DEF RedisOnly, mapVars, histories, bounds, given, redisVars
<1>0. restarts \in Nat
  BY SessionsAssumption DEF TypeOK
<1>1. ASSUME NEW c \in Chains, ChainStep(c), restarts = 0 PROVE \A p \in Principals : Indexed(p)'
  <2>1. c \in Frames \/ DisconnectStep(c)
    BY <1>1, ChainSteps
  <2>2. \A d \in Chains \ {c} : chain'[d] = chain[d]
    BY <1>1, <2>1, ChainStepEffect
  <2>3. \A p \in Principals : Indexed(p)
    BY <1>1 DEF IndexInv
  <2>4. ASSUME UNCHANGED <<owner, record, statusIndex>>, chain[c] # "index"
        PROVE  \A p \in Principals : Indexed(p)'
    BY <2>2, <2>3, <2>4, IndexedKept
  <2>5. CASE CreateClient(c)
    <3>1. Principal(c) \in Principals /\ chain'[c] = "index"
      BY <2>5, PrincipalOf, ChainGoes DEF CreateClient, Pcs
    <3>2. record'[Principal(c)].status = INACTIVE
      BY <2>5, <3>1 DEF CreateClient, TypeOK
    <3>3. owner' = owner
      BY <2>5 DEF CreateClient
    <3>4. ASSUME NEW p \in Principals, p = Principal(c) PROVE Indexed(p)'
      <4>1. record'[p].status = INACTIVE /\ p = owner'[Socket(c)] /\ chain'[c] = "index"
        BY <3>1, <3>2, <3>3, <3>4 DEF Principal
      <4> QED
        BY <4>1 DEF Indexed, Principal, Chains, Socket, ACTIVE, INACTIVE
    <3>5. ASSUME NEW p \in Principals, p # Principal(c) PROVE Indexed(p)'
      BY <2>2, <2>3, <2>5, <3>1, <3>5, IndexedKept DEF CreateClient
    <3> QED
      BY <3>4, <3>5
  <2>6. CASE IndexClient(c)
    <3>1. Principal(c) \in Principals
      BY PrincipalOf
    <3>2. INACTIVE \in statusIndex'[Principal(c)]
      BY <2>6, <3>1 DEF IndexClient, TypeOK
    <3>3. statusIndex[Principal(c)] \subseteq statusIndex'[Principal(c)]
      BY <2>6, <3>1 DEF IndexClient, TypeOK
    <3>4. ASSUME NEW p \in Principals, p = Principal(c) PROVE Indexed(p)'
      BY <2>3, <2>6, <3>2, <3>3, <3>4 DEF IndexClient, Indexed, NoRecord, ACTIVE, INACTIVE
    <3>5. ASSUME NEW p \in Principals, p # Principal(c) PROVE Indexed(p)'
      <4>1. statusIndex'[p] = statusIndex[p] /\ record' = record /\ owner' = owner
        BY <2>6, <3>5 DEF IndexClient, TypeOK
      <4>2. \A d \in Chains : Principal(d) = p /\ chain[d] = "index" => chain'[d] = "index"
        BY <2>2, <3>5
      <4> QED
        BY <2>3, <4>1, <4>2 DEF Indexed, NoRecord, Chains, Principal, Socket, ACTIVE, INACTIVE
    <3> QED
      BY <3>4, <3>5
  <2>7. CASE Activate(c) \/ ClientConnect(c) \/ ClientStatus(c)
    <3>1. c \in Frames
      BY <2>1, <2>7 DEF Activate, ClientConnect, ClientStatus, DisconnectStep, RemoveSession,
         WsEndSession, Forget
    <3>2. c \in Chains /\ Socket(c) \in Sockets /\ Principal(c) \in Principals
      BY <3>1, ChainForm, PrincipalOf
    <3>3. record[Principal(c)].client_id \in Frames \cup {None}
          /\ session[Socket(c)].clientId \in Frames \cup {None}
      BY <3>2, SessionRecords DEF TypeOK
    <3>4. PICK status \in {ACTIVE, INACTIVE}, id \in Frames \cup {None} :
              SetStatus(Principal(c), status, id)
      BY <2>7, <3>1, <3>3 DEF Activate, ClientConnect, ClientStatus
    <3>5. chain[c] # "index" /\ owner' = owner
      BY <2>7 DEF Activate, ClientConnect, ClientStatus
    <3> QED
      BY <2>2, <2>3, <3>1, <3>4, <3>5, IndexedWhenSet
  <2>8. CASE Login(c) \/ ConnectSession(c) \/ SaveSession(c) \/ WsSession(c) \/ PingSession(c)
             \/ (\E pc \in {"ping", "setActive", "setInactive"} : Authorizes(c, pc))
             \/ DisconnectStep(c)
    <3>1. UNCHANGED <<owner, record, statusIndex>> /\ chain[c] # "index"
      BY <2>8 DEF Login, ConnectSession, SaveSession, WsSession, PingSession, Authorizes,
         DisconnectStep, RemoveSession, WsEndSession, Forget, OpenSessions
    <3> QED
      BY <2>4, <3>1
  <2> QED
    BY <1>1, <2>5, <2>6, <2>7, <2>8 DEF ChainStep, RegistrationStep, FrameStep
<1>2. ASSUME restarts = 0, UNCHANGED <<owner, record, statusIndex>>,
             \A c \in Chains : chain[c] = "index" => chain'[c] = "index"
      PROVE  \A p \in Principals : Indexed(p)'
  BY <1>2, IndexedKept DEF IndexInv
<1>3. ASSUME NEW s \in Sockets, Accepts(s) \/ Listens(s) \/ ClosesUnheard(s) \/ Vanishes(s)
      PROVE  \A p \in Principals : Indexed(p)'
  <2>1. UNCHANGED <<owner, record, statusIndex, chain, restarts>>
    BY <1>3 DEF Accepts, Listens, ClosesUnheard, Vanishes
  <2> QED
    BY <1>2, <2>1
<1>4. ASSUME NEW c \in Closings, Disconnects(c) PROVE \A p \in Principals : Indexed(p)'
  <2>1. PICK pc \in {"remove", "finalize"} : To(c, pc)
    BY <1>4 DEF Disconnects
  <2> QED
    BY <1>2, <1>4, <2>1, ChainForm, ChainGoes DEF Disconnects, Pcs
<1>5. ASSUME NEW c \in Frames, NEW pc \in {"login", "ping", "setActive", "setInactive"},
             FrameArrives(c, pc)
      PROVE  \A p \in Principals : Indexed(p)'
  BY <1>2, <1>5, ChainForm, ChainGoes DEF FrameArrives, Pcs
<1>6. ASSUME NEW c \in Chains, ChainStep(c) PROVE restarts = 0
  BY <1>6 DEF ChainStep, RegistrationStep, FrameStep, DisconnectStep, Login, CreateClient,
     IndexClient, Activate, ClientConnect, ConnectSession, SaveSession, WsSession, PingSession,
     Authorizes, ClientStatus, RemoveSession, WsEndSession, Forget
<1>7. ASSUME Restart PROVE FALSE
  BY <1>0, <1>7 DEF Restart
<1>8. CASE UNCHANGED vars
  <2>1. UNCHANGED <<owner, record, statusIndex, chain, restarts>>
    BY <1>8 DEF vars
  <2> QED
    BY <1>2, <2>1
<1> QED
  BY <1>1, <1>3, <1>4, <1>5, <1>6, <1>7, <1>8, SessionSteps
\* One registration at a time for p; while one of its sessions is registered in the
\* map, the client is ACTIVE and nobody is creating it anew.
OneLogin(p) ==
    \A c, d \in Frames : /\ Principal(c) = p /\ Principal(d) = p
                         /\ chain[c] \in RegistrationPcs /\ chain[d] \in RegistrationPcs
                         => c = d
ActiveOnceRegistered(p) ==
    /\ RegisteredFor(p) # {} =>
        /\ record[p].status = ACTIVE
        /\ \A c \in Frames : Principal(c) = p => chain[c] \notin {"create", "index"}
    /\ \A c \in Frames : Principal(c) = p /\ chain[c] \in {"connect", "connectSession"}
                         => record[p].status = ACTIVE
Reachable(p) == OneLogin(p) /\ ActiveOnceRegistered(p)
ReachInv == \A p \in Principals \ doubted : Reachable(p)

LEMMA RegisteredMeans ==
    ASSUME NEW p
    PROVE  RegisteredFor(p) # {} <=>
             \E s \in Sockets : stage[s] = "listening" /\ session[s].isRegistered /\ owner[s] = p
  BY DEF RegisteredFor, Registered, InMap

LEMMA InitReachable == Init => ReachInv
<1> SUFFICES ASSUME Init, NEW p \in Principals PROVE Reachable(p)
  BY DEF ReachInv
<1>1. \A c \in Frames : chain[c] = "idle"
  BY ChainForm DEF Init
<1>2. RegisteredFor(p) = {}
  BY RegisteredMeans DEF Init
<1> QED
  BY <1>1, <1>2 DEF Reachable, OneLogin, ActiveOnceRegistered, RegistrationPcs

LEMMA NoNewRegistered ==
    ASSUME NEW p, owner' = owner, RegisteredFor(p) = {},
           \A s \in Sockets : /\ stage'[s] = "listening" /\ owner[s] = p
                              /\ session'[s].isRegistered
                              => stage[s] = "listening" /\ session[s].isRegistered
    PROVE  (RegisteredFor(p) = {})'
  BY DEF RegisteredFor, Registered, InMap

\* A step that brings no frame of p to another part of its registration, and
\* leaves the client's status as it was.
LEMMA ReachableKept ==
    ASSUME NEW p, Reachable(p), owner' = owner, record'[p].status = record[p].status,
           RegisteredFor(p) = {} => (RegisteredFor(p) = {})',
           \A c \in Frames : Principal(c) = p =>
             /\ chain'[c] \in RegistrationPcs => chain[c] \in RegistrationPcs
             /\ chain'[c] \in {"create", "index"} => chain[c] \in {"create", "index"}
             /\ chain'[c] \in {"connect", "connectSession"} =>
                  chain[c] \in {"connect", "connectSession"}
    PROVE  Reachable(p)'
<1>1. OneLogin(p)'
  BY DEF Reachable, OneLogin, Principal, Socket, RegistrationPcs
<1>2. ActiveOnceRegistered(p)'
  BY DEF Reachable, ActiveOnceRegistered, Principal, Socket
<1> QED
  BY <1>1, <1>2 DEF Reachable

LEMMA ReachableWhenActive ==
    ASSUME NEW p, Reachable(p), owner' = owner, record'[p].status = ACTIVE,
           RegisteredFor(p) = {} => (RegisteredFor(p) = {})',
           \A c \in Frames : Principal(c) = p =>
             /\ chain'[c] \in RegistrationPcs => chain[c] \in RegistrationPcs
             /\ chain'[c] \in {"create", "index"} => chain[c] \in {"create", "index"}
    PROVE  Reachable(p)'
<1>1. OneLogin(p)'
  BY DEF Reachable, OneLogin, Principal, Socket, RegistrationPcs
<1>2. ActiveOnceRegistered(p)'
  BY DEF Reachable, ActiveOnceRegistered, Principal, Socket, ACTIVE
<1> QED
  BY <1>1, <1>2 DEF Reachable

LEMMA ArrivalReachable ==
    ASSUME TypeOK, ReachInv, NEW c \in Frames,
           NEW pc \in {"login", "ping", "setActive", "setInactive"}, FrameArrives(c, pc)
    PROVE  ReachInv'
<1> SUFFICES ASSUME NEW p \in Principals \ doubted' PROVE Reachable(p)'
  BY DEF ReachInv
<1>1. Reachable(p)
  BY DEF FrameArrives, ReachInv
<1>2. chain'[c] = pc /\ \A d \in Chains \ {c} : chain'[d] = chain[d]
  BY ChainForm, ChainGoes DEF FrameArrives, Pcs
<1>3. UNCHANGED <<owner, record, stage, session>>
  BY DEF FrameArrives, redisVars, given
<1>4. RegisteredFor(p)' = RegisteredFor(p)
  BY <1>3 DEF RegisteredFor, Registered, InMap
<1>5. CASE pc # "login" \/ Principal(c) # p
  BY <1>1, <1>2, <1>3, <1>4, <1>5, ChainForm, ReachableKept DEF RegistrationPcs
<1>6. CASE pc = "login" /\ Principal(c) = p
  <2>1. \A d \in Frames : Principal(d) = p => chain[d] \notin RegistrationPcs
    BY <1>6, ChainForm, RegisteringMeans DEF FrameArrives, Principal
  <2>2. \A d \in Frames : Principal(d) = p /\ chain'[d] \in RegistrationPcs => d = c
    BY <1>2, <2>1, ChainForm
  <2>3. OneLogin(p)'
    BY <1>3, <2>2 DEF OneLogin, Principal, Socket, RegistrationPcs
  <2>4. \A d \in Frames : Principal(d) = p =>
           chain'[d] \notin {"create", "index", "connect", "connectSession"}
    BY <1>2, <1>6, <2>2 DEF RegistrationPcs
  <2>5. ActiveOnceRegistered(p)'
    BY <1>1, <1>3, <1>4, <2>4 DEF Reachable, ActiveOnceRegistered, Principal, Socket
  <2> QED
    BY <2>3, <2>5 DEF Reachable
<1> QED
  BY <1>5, <1>6

LEMMA ChainReachable ==
    ASSUME TypeOK, ChainsInPlace, ReachInv, NEW c \in Chains, ChainStep(c)
    PROVE  ReachInv'
<1> USE DEF RedisOnly, mapVars, histories, bounds, given, redisVars
<1> SUFFICES ASSUME NEW p \in Principals \ doubted' PROVE Reachable(p)'
  BY DEF ReachInv
<1>1. owner' = owner
  BY DEF ChainStep, RegistrationStep, FrameStep, DisconnectStep, Login, CreateClient,
     IndexClient, Activate, ClientConnect, ConnectSession, SaveSession, WsSession, PingSession,
     Authorizes, ClientStatus, RemoveSession, WsEndSession, Forget
<1>2. p \notin doubted /\ Reachable(p)
  BY DEF ReachInv, ChainStep, RegistrationStep, FrameStep, DisconnectStep, Login, CreateClient,
     IndexClient, Activate, ClientConnect, ConnectSession, SaveSession, WsSession, PingSession,
     Authorizes, ClientStatus, RemoveSession, WsEndSession, Forget
<1>3. c \in Frames \/ DisconnectStep(c)
  BY ChainSteps
<1>4. /\ \A d \in Chains \ {c} : chain'[d] = chain[d]
      /\ \A s \in Sockets : stage'[s] = "listening" => stage[s] = "listening"
  BY <1>3, ChainForm, ChainStepEffect
<1>5. Principal(c) \in Principals /\ Socket(c) \in Sockets
  BY PrincipalOf, ChainForm
<1>6. ASSUME ~ ConnectSession(c) PROVE RegisteredFor(p) = {} => (RegisteredFor(p) = {})'
  <2>1. \A s \in Sockets : session'[s].isRegistered = session[s].isRegistered
    BY <1>3, <1>6, SessionEnlisted
       DEF ChainStep, RegistrationStep, FrameStep, DisconnectStep, Login, CreateClient,
       IndexClient, Activate, ClientConnect, SaveSession, PingSession,
       Authorizes, ClientStatus, RemoveSession, WsEndSession, Forget, ChainsInPlace, WsSession,
       DisconnectPcs
  <2> QED
    BY <1>1, <1>4, <2>1, NoNewRegistered
<1>7. CASE Login(c)
  <2>1. chain'[c] = LoginContinues(Principal(c)) /\ chain[c] = "login" /\ record' = record
    BY <1>7, ChainGoes DEF Login, LoginContinues, Pcs
  <2>2. ~ ConnectSession(c)
    BY <2>1 DEF ConnectSession
  <2>3. OneLogin(p)'
    BY <1>1, <1>2, <1>4, <2>1, ChainForm
       DEF Reachable, OneLogin, Principal, Socket, RegistrationPcs, LoginContinues
  <2>4. (RegisteredFor(p) # {})' /\ Principal(c) = p => chain'[c] = "loginUpdate"
    BY <1>2, <1>6, <2>1, <2>2 DEF LoginContinues, Reachable, ActiveOnceRegistered, NoRecord, ACTIVE
  <2>5. chain'[c] \notin {"connect", "connectSession"}
    BY <2>1 DEF LoginContinues
  <2>6. ActiveOnceRegistered(p)'
    BY <1>1, <1>2, <1>4, <1>6, <2>1, <2>2, <2>4, <2>5, ChainForm
       DEF Reachable, ActiveOnceRegistered, Principal, Socket
  <2> QED
    BY <2>3, <2>6 DEF Reachable
<1>8. CASE CreateClient(c)
  <2>1. chain'[c] = "index" /\ chain[c] = "create" /\ ~ ConnectSession(c)
    BY <1>8, ChainGoes DEF CreateClient, Pcs, ConnectSession
  <2>2. CASE Principal(c) # p
    <3>1. record'[p] = record[p]
      BY <1>8, <2>2 DEF CreateClient, TypeOK
    <3> QED
      BY <1>1, <1>2, <1>4, <1>6, <2>1, <2>2, <3>1, ChainForm, ReachableKept
  <2>3. CASE Principal(c) = p
    <3>1. c \in Frames
      BY <1>3, <2>1 DEF DisconnectStep, RemoveSession, WsEndSession, Forget
    <3>2. (RegisteredFor(p) = {})'
      BY <1>2, <1>6, <2>1, <2>3, <3>1 DEF Reachable, ActiveOnceRegistered
    <3>3. \A d \in Frames : Principal(d) = p /\ chain[d] \in RegistrationPcs => d = c
      BY <1>2, <2>1, <2>3, <3>1 DEF Reachable, OneLogin, RegistrationPcs
    <3>4. \A d \in Frames : Principal(d) = p /\ chain'[d] \in RegistrationPcs => d = c
      BY <1>4, <3>3, ChainForm
    <3>5. OneLogin(p)'
      BY <1>1, <3>4 DEF OneLogin, Principal, Socket, RegistrationPcs
    <3>6. ActiveOnceRegistered(p)'
      BY <1>1, <2>1, <3>2, <3>4 DEF ActiveOnceRegistered, Principal, Socket, RegistrationPcs
    <3> QED
      BY <3>5, <3>6 DEF Reachable
  <2> QED
    BY <2>2, <2>3
<1>9. CASE IndexClient(c)
  <2>1. chain'[c] = "activate" /\ chain[c] = "index" /\ ~ ConnectSession(c) /\ record' = record
    BY <1>9, ChainGoes DEF IndexClient, Pcs, ConnectSession
  <2> QED
    BY <1>1, <1>2, <1>4, <1>6, <2>1, ChainForm, ReachableKept DEF RegistrationPcs
<1>10. CASE Activate(c) \/ ClientConnect(c) \/ ClientStatus(c)
  <2>1. ~ ConnectSession(c) /\ c \in Frames
    BY <1>3, <1>10 DEF Activate, ClientConnect, ClientStatus, ConnectSession, DisconnectStep,
       RemoveSession, WsEndSession, Forget
  <2>2. record[Principal(c)].client_id \in Frames \cup {None}
        /\ session[Socket(c)].clientId \in Frames \cup {None}
    BY <1>5, SessionRecords DEF TypeOK
  <2>3. PICK status \in {ACTIVE, INACTIVE}, id \in Frames \cup {None} :
            /\ SetStatus(Principal(c), status, id)
            /\ status # ACTIVE => chain[c] = "putInactive" /\ ClientStatus(c)
    BY <1>10, <2>1, <2>2 DEF Activate, ClientConnect, ClientStatus
  <2>4. /\ record'[Principal(c)] = [status |-> status, client_id |-> id]
        /\ \A q \in Principals \ {Principal(c)} : record'[q] = record[q]
    BY <1>5, <2>3, StatusSet
  <2>5. PICK pc \in {"connect", "connectSession", "pingSession", "done"} :
            /\ To(c, pc)
            /\ pc \in {"connect", "connectSession"} => chain[c] \in RegistrationPcs
    BY <1>10 DEF Activate, ClientConnect, ClientStatus, RegistrationPcs
  <2>6. chain'[c] = pc
    BY <2>5, ChainGoes DEF Pcs
  <2>7. CASE Principal(c) # p
    BY <1>1, <1>2, <1>4, <1>6, <2>1, <2>4, <2>7, ChainForm, ReachableKept
  <2>8. CASE Principal(c) = p
    <3>1. status = ACTIVE
      BY <2>3, <2>8 DEF ClientStatus
    <3>2. record'[p].status = ACTIVE
      BY <2>4, <2>8, <3>1
    <3> QED
      BY <1>1, <1>2, <1>4, <1>6, <2>1, <2>5, <2>6, <3>2, ChainForm, ReachableWhenActive
         DEF RegistrationPcs
  <2> QED
    BY <2>7, <2>8
<1>11. CASE ConnectSession(c)
  <2>1. chain'[c] = "save" /\ chain[c] = "connectSession" /\ record' = record
    BY <1>11, ChainGoes DEF ConnectSession, Pcs, OpenSessions
  <2>2. c \in Frames
    BY <1>3, <2>1 DEF DisconnectStep, RemoveSession, WsEndSession, Forget
  <2>3. CASE Principal(c) # p
    <3>1. stage' = stage /\ owner' = owner /\ owner[Socket(c)] # p
      BY <1>4, <1>11, <2>3 DEF ConnectSession, Principal
    <3>2. \A s \in Sockets : owner[s] = p => session'[s] = session[s]
      BY <1>11, <2>2, <3>1, SessionConnected DEF IInv
    <3>3. RegisteredFor(p) = {} => (RegisteredFor(p) = {})'
      BY <3>1, <3>2, NoNewRegistered
    <3> QED
      BY <1>1, <1>2, <1>4, <2>1, <2>3, <3>3, ChainForm, ReachableKept
  <2>4. CASE Principal(c) = p
    <3>1. record'[p].status = ACTIVE
      BY <1>2, <2>1, <2>2, <2>4 DEF Reachable, ActiveOnceRegistered
    <3>2. \A d \in Frames : Principal(d) = p /\ chain[d] \in RegistrationPcs => d = c
      BY <1>2, <2>1, <2>2, <2>4 DEF Reachable, OneLogin, RegistrationPcs
    <3>3. \A d \in Frames : Principal(d) = p /\ chain'[d] \in RegistrationPcs => d = c
      BY <1>4, <3>2, ChainForm
    <3>4. OneLogin(p)'
      BY <1>1, <3>3 DEF OneLogin, Principal, Socket, RegistrationPcs
    <3>5. ActiveOnceRegistered(p)'
      BY <1>1, <2>1, <3>1, <3>3
         DEF ActiveOnceRegistered, Principal, Socket, RegistrationPcs, ACTIVE
    <3> QED
      BY <3>4, <3>5 DEF Reachable
  <2> QED
    BY <2>3, <2>4
<1>12. CASE SaveSession(c) \/ WsSession(c) \/ PingSession(c)
            \/ (\E pc \in {"ping", "setActive", "setInactive"} : Authorizes(c, pc))
            \/ DisconnectStep(c)
  <2>1. PICK pc \in Pcs \ {"create", "index", "connect", "connectSession"} :
            To(c, pc) /\ (pc \in RegistrationPcs => chain[c] \in RegistrationPcs)
    BY <1>12 DEF SaveSession, WsSession, PingSession, Authorizes, DisconnectStep, RemoveSession,
       WsEndSession, Forget, Pcs, RegistrationPcs
  <2>2. record' = record /\ ~ ConnectSession(c)
    BY <1>12 DEF SaveSession, WsSession, PingSession, Authorizes, DisconnectStep, RemoveSession,
       WsEndSession, Forget, OpenSessions, ConnectSession
  <2>3. chain'[c] = pc
    BY <2>1, ChainGoes
  <2> QED
    BY <1>1, <1>2, <1>4, <1>6, <2>1, <2>2, <2>3, ChainForm, ReachableKept
<1> QED
  BY <1>7, <1>8, <1>9, <1>10, <1>11, <1>12 DEF ChainStep, RegistrationStep, FrameStep

LEMMA StepReachable ==
    TypeOK /\ ChainsInPlace /\ SocketsInOrder /\ ReachInv /\ [Next]_vars => ReachInv'
<1> SUFFICES ASSUME TypeOK, ChainsInPlace, SocketsInOrder, ReachInv, [Next]_vars PROVE ReachInv'
  OBVIOUS
<1>1. ASSUME UNCHANGED <<owner, record, doubted>>,
             \A c \in Frames : chain'[c] = chain[c] \/ chain'[c] \in {"idle", "done"},
             \A s \in Sockets :
                stage'[s] = "listening" /\ session'[s].isRegistered =>
                    stage[s] = "listening" /\ session[s].isRegistered
      PROVE  ReachInv'
  <2> SUFFICES ASSUME NEW p \in Principals \ doubted PROVE Reachable(p)'
    BY <1>1 DEF ReachInv
  <2>1. Reachable(p)
    BY DEF ReachInv
  <2> QED
    BY <1>1, <2>1, NoNewRegistered, ReachableKept DEF RegistrationPcs
<1>2. ASSUME NEW s \in Sockets, Accepts(s) \/ Listens(s) \/ ClosesUnheard(s) \/ Vanishes(s)
      PROVE  ReachInv'
  <2>1. UNCHANGED <<owner, record, doubted, chain>>
    BY <1>2 DEF Accepts, Listens, ClosesUnheard, Vanishes, given, redisVars, histories
  <2>2. ASSUME NEW t \in Sockets, stage'[t] = "listening", session'[t].isRegistered
        PROVE  stage[t] = "listening" /\ session[t].isRegistered
    <3>1. CASE Accepts(s)
      <4>1. stage'[s] = "accepted" /\ \A r \in Sockets \ {s} : stage'[r] = stage[r]
        BY <3>1 DEF Accepts, TypeOK
      <4> QED
        BY <2>2, <3>1, <4>1, SessionAccepted
    <3>2. CASE Listens(s)
      <4>1. ~ session[s].isRegistered
        BY <3>2 DEF Listens, SocketsInOrder, NotBegun
      <4> QED
        BY <2>2, <3>2, <4>1 DEF Listens, TypeOK
    <3>3. CASE ClosesUnheard(s) \/ Vanishes(s)
      BY <2>2, <3>3 DEF ClosesUnheard, Vanishes
    <3> QED
      BY <1>2, <3>1, <3>2, <3>3
  <2> QED
    BY <1>1, <2>1, <2>2
<1>3. ASSUME NEW c \in Closings, Disconnects(c) PROVE ReachInv'
  <2>1. PICK pc \in {"remove", "finalize"} : To(c, pc)
    BY <1>3 DEF Disconnects
  <2>2. \A d \in Frames : chain'[d] = chain[d]
    BY <2>1, ChainForm, ChainGoes DEF Pcs, Closings
  <2>3. UNCHANGED <<owner, record, doubted, stage, session>>
    BY <1>3 DEF Disconnects, given, redisVars
  <2> QED
    BY <1>1, <2>2, <2>3
<1>4. ASSUME Restart PROVE ReachInv'
  <2>1. UNCHANGED <<owner, record, doubted>>
    BY <1>4 DEF Restart, given, redisVars
  <2>2. \A s \in Sockets : stage'[s] # "listening"
    BY <1>4 DEF Restart
  <2>3. \A c \in Frames : chain'[c] \in {"idle", "done"}
    BY <1>4, ChainForm DEF Restart
  <2> QED
    BY <1>1, <2>1, <2>2, <2>3
<1>5. CASE UNCHANGED vars
  <2>1. UNCHANGED <<owner, record, doubted, chain, stage, session>>
    BY <1>5 DEF vars, mapVars, redisVars, histories, given
  <2> QED
    BY <1>1, <2>1
<1> QED
  BY <1>2, <1>3, <1>4, <1>5, ArrivalReachable, ChainReachable, SessionSteps
\* A socket that was not overtaken: one registration at a time, which sets the id of
\* its session record last; a session is saved, and a record kept, only once it is
\* registered; and when a disconnect is past a command, what that removes is gone.
OneByOne(s) ==
    \A c, d \in Frames : /\ Socket(c) = s /\ Socket(d) = s
                         /\ chain[c] \in RegistrationPcs /\ chain[d] \in RegistrationPcs
                         => c = d
SessionSoFar(s) ==
    /\ session[s].clientId # None <=> session[s].isRegistered
    /\ session[s].wsSessionId # None => session[s].isRegistered
    /\ \A i \in DOMAIN saved : saved[i] = s => session[s].isRegistered
    /\ \A c \in Frames : Socket(c) = s =>
        /\ <<c, "ws">> \in userSessions[owner[s]] => session[s].wsSessionId = <<c, "ws">>
        /\ chain[c] \in UnregisteredPcs => ~ session[s].isRegistered
        /\ chain[c] \in {"save", "wsSession"} =>
             session[s].isRegistered /\ session[s].wsSessionId = None
ClosedSoFar(s) ==
    /\ \A d \in Closings : Socket(d) = s =>
        /\ chain[d] # "idle" =>
             \A c \in Frames : Socket(c) = s => chain[c] \notin RegistrationPcs
        /\ chain[d] \in {"endWs", "finalize", "done"} => \A i \in DOMAIN saved : saved[i] # s
        /\ chain[d] \in {"finalize", "done"} =>
             \A c \in Frames : Socket(c) = s => <<c, "ws">> \notin userSessions[owner[s]]
    /\ stage[s] = "gone" => \E d \in Closings : Socket(d) = s /\ chain[d] = "done"

Orderly(s) == OneByOne(s) /\ SessionSoFar(s) /\ ClosedSoFar(s)
CleanInv == \A s \in Sockets \ overtaken : Orderly(s)

LEMMA WsIsSome == \A c \in Frames : c # None /\ <<c, "ws">> # None
  BY SessionsAssumption DEF SessionIds

LEMMA InitClean == Init => CleanInv
<1> SUFFICES ASSUME Init, NEW s \in Sockets PROVE Orderly(s)
  BY DEF CleanInv
<1>1. \A c \in Chains : chain[c] = "idle"
  BY DEF Init
<1>2. /\ ~ session[s].isRegistered /\ session[s].clientId = None
      /\ session[s].wsSessionId = None /\ stage[s] = "absent"
  BY DEF Init, NoSession
<1>3. \A i \in DOMAIN saved : saved[i] # s
  BY SessionsAssumption DEF Init
<1>4. userSessions[owner[s]] = {}
  BY SessionsAssumption DEF Init
<1>5. OneByOne(s) /\ ClosedSoFar(s)
  BY <1>1, <1>2, ChainForm DEF OneByOne, ClosedSoFar, RegistrationPcs
<1>6. SessionSoFar(s)
  BY <1>1, <1>2, <1>3, <1>4, ChainForm DEF SessionSoFar, UnregisteredPcs, RegistrationPcs
<1> QED
  BY <1>5, <1>6 DEF Orderly

\* A step that registers no socket s, saves no session of it, and moves its
\* frames only along a registration or to its end.
LEMMA OrderlyKept ==
    ASSUME NEW s, Orderly(s), owner' = owner,
           session'[s].isRegistered = session[s].isRegistered,
           session'[s].clientId = session[s].clientId,
           session'[s].wsSessionId = session[s].wsSessionId,
           stage'[s] = "gone" => stage[s] = "gone",
           \A d \in Closings : Socket(d) = s => chain'[d] = chain[d],
           \A c \in Frames : Socket(c) = s =>
             \/ chain'[c] = chain[c] \/ chain'[c] \notin RegistrationPcs
             \/ chain[c] \in UnregisteredPcs /\ chain'[c] \in UnregisteredPcs
             \/ chain[c] = "save" /\ chain'[c] = "wsSession",
           DOMAIN saved' = DOMAIN saved,
           \A i \in DOMAIN saved : saved'[i] = s =>
             saved[i] = s \/ \E c \in Frames : Socket(c) = s /\ chain[c] = "save",
           \A c \in Frames : Socket(c) = s /\ <<c, "ws">> \in userSessions'[owner[s]] =>
             <<c, "ws">> \in userSessions[owner[s]]
    PROVE  Orderly(s)'
<1> USE DEF RegistrationPcs, UnregisteredPcs
<1>1. \A c \in Frames : Socket(c) = s /\ chain'[c] \in RegistrationPcs =>
         chain[c] \in RegistrationPcs
  OBVIOUS
<1>2. OneByOne(s)'
  BY <1>1 DEF Orderly, OneByOne, Socket
<1>3. ASSUME NEW i \in DOMAIN saved', saved'[i] = s PROVE session[s].isRegistered
  BY <1>3 DEF Orderly, SessionSoFar
<1>4. ASSUME NEW c \in Frames, Socket(c) = s
      PROVE  /\ <<c, "ws">> \in userSessions'[owner[s]] => session[s].wsSessionId = <<c, "ws">>
             /\ chain'[c] \in UnregisteredPcs => ~ session[s].isRegistered
             /\ chain'[c] \in {"save", "wsSession"} =>
                  session[s].isRegistered /\ session[s].wsSessionId = None
  BY <1>4 DEF Orderly, SessionSoFar
<1>5. SessionSoFar(s)'
  BY <1>3, <1>4 DEF Orderly, SessionSoFar, Socket
<1>6. ASSUME NEW d \in Closings, Socket(d) = s
      PROVE  /\ chain'[d] # "idle" =>
                  \A c \in Frames : Socket(c) = s => chain'[c] \notin RegistrationPcs
             /\ chain'[d] \in {"endWs", "finalize", "done"} =>
                  \A i \in DOMAIN saved' : saved'[i] # s
             /\ chain'[d] \in {"finalize", "done"} =>
                  \A c \in Frames : Socket(c) = s => <<c, "ws">> \notin userSessions'[owner[s]]
  <2>1. chain'[d] # "idle" => \A c \in Frames : Socket(c) = s => chain[c] \notin RegistrationPcs
    BY <1>6 DEF Orderly, ClosedSoFar
  <2>2. chain'[d] \in {"endWs", "finalize", "done"} => \A i \in DOMAIN saved : saved[i] # s
    BY <1>6 DEF Orderly, ClosedSoFar
  <2>3. chain'[d] \in {"finalize", "done"} =>
           \A c \in Frames : Socket(c) = s => <<c, "ws">> \notin userSessions[owner[s]]
    BY <1>6 DEF Orderly, ClosedSoFar
  <2> QED
    BY <1>1, <2>1, <2>2, <2>3
<1>7. stage'[s] = "gone" => \E d \in Closings : Socket(d) = s /\ chain'[d] = "done"
  BY DEF Orderly, ClosedSoFar
<1>8. ClosedSoFar(s)'
  BY <1>6, <1>7 DEF ClosedSoFar, Closings, Chains, Socket
<1> QED
  BY <1>2, <1>5, <1>8 DEF Orderly

LEMMA SocketEventClean ==
    ASSUME TypeOK, CleanInv, NEW s \in Sockets,
           Accepts(s) \/ Listens(s) \/ ClosesUnheard(s) \/ Vanishes(s)
    PROVE  CleanInv'
<1> SUFFICES ASSUME NEW t \in Sockets \ overtaken' PROVE Orderly(t)'
  BY DEF CleanInv
<1>1. UNCHANGED <<owner, chain, saved, userSessions>> /\ t \notin overtaken
  BY DEF Accepts, Listens, ClosesUnheard, Vanishes, given, redisVars, histories
<1>2. stage'[t] = "gone" => stage[t] = "gone"
  BY DEF Accepts, Listens, ClosesUnheard, Vanishes, TypeOK
<1>3. /\ session'[t].isRegistered = session[t].isRegistered
      /\ session'[t].clientId = session[t].clientId
      /\ session'[t].wsSessionId = session[t].wsSessionId
  BY SessionAccepted DEF Listens, ClosesUnheard, Vanishes
<1> QED
  BY <1>1, <1>2, <1>3, OrderlyKept DEF CleanInv

LEMMA DisconnectsClean ==
    ASSUME TypeOK, ChainsInPlace, CleanInv, NEW c \in Closings, Disconnects(c)
    PROVE  CleanInv'
<1> SUFFICES ASSUME NEW s \in Sockets \ overtaken' PROVE Orderly(s)'
  BY DEF CleanInv
<1>1. UNCHANGED <<owner, stage, session, saved, userSessions>>
  BY DEF Disconnects, given, redisVars
<1>2. Orderly(s) /\ c \in Chains /\ Socket(c) \in Sockets
  BY ChainForm DEF Disconnects, CleanInv
<1>3. PICK pc \in {"remove", "finalize"} :
          /\ To(c, pc)
          /\ pc = "finalize" => session[Socket(c)].clientId = None
  BY DEF Disconnects
<1>4. chain[c] = "idle" /\ chain'[c] = pc /\ \A d \in Chains \ {c} : chain'[d] = chain[d]
  BY <1>2, <1>3, ChainGoes DEF Disconnects, Pcs
<1>5. \A d \in Frames : chain'[d] = chain[d]
  BY <1>4, ChainForm DEF Closings
<1>6. CASE Socket(c) # s
  <2>1. \A d \in Closings : Socket(d) = s => chain'[d] = chain[d]
    BY <1>4, <1>6 DEF Closings
  <2> QED
    BY <1>1, <1>2, <1>5, <2>1, OrderlyKept
<1>7. CASE Socket(c) = s
  <2>1. ~ Registering(s)
    BY <1>7 DEF Disconnects
  <2>2. \A d \in Frames : Socket(d) = s => chain'[d] \notin RegistrationPcs
    BY <1>5, <2>1, RegisteringMeans
  <2>3. OneByOne(s)'
    BY <2>2 DEF OneByOne, Socket, RegistrationPcs
  <2>4. SessionSoFar(s)'
    BY <1>1, <1>2, <1>5
       DEF Orderly, SessionSoFar, Socket, UnregisteredPcs, RegistrationPcs
  <2>5. pc = "finalize" => /\ \A i \in DOMAIN saved : saved[i] # s
                          /\ \A d \in Frames : Socket(d) = s =>
                                <<d, "ws">> \notin userSessions[owner[s]]
    BY <1>2, <1>3, <1>7, WsIsSome DEF Orderly, SessionSoFar
  <2>6. ASSUME NEW d \in Closings, Socket(d) = s
        PROVE  /\ chain'[d] \in {"endWs", "finalize", "done"} =>
                    \A i \in DOMAIN saved : saved[i] # s
               /\ chain'[d] \in {"finalize", "done"} =>
                    \A f \in Frames : Socket(f) = s => <<f, "ws">> \notin userSessions[owner[s]]
    BY <1>2, <1>4, <2>5, <2>6 DEF Orderly, ClosedSoFar, Closings
  <2>7. stage'[s] # "gone"
    BY <1>1, <1>7 DEF Disconnects
  <2>8. ClosedSoFar(s)'
    BY <1>1, <2>2, <2>6, <2>7 DEF ClosedSoFar, Closings, Chains, Socket, RegistrationPcs
  <2> QED
    BY <2>3, <2>4, <2>8 DEF Orderly
<1> QED
  BY <1>6, <1>7

LEMMA ArrivalClean ==
    ASSUME TypeOK, SocketsInOrder, CleanInv, NEW c \in Frames,
           NEW pc \in {"login", "ping", "setActive", "setInactive"}, FrameArrives(c, pc)
    PROVE  CleanInv'
<1> SUFFICES ASSUME NEW s \in Sockets \ overtaken' PROVE Orderly(s)'
  BY DEF CleanInv
<1>1. UNCHANGED <<owner, stage, session, saved, userSessions>>
  BY DEF FrameArrives, given, redisVars
<1>2. Orderly(s) /\ c \in Chains /\ Socket(c) \in Sockets
  BY ChainForm DEF FrameArrives, CleanInv
<1>3. chain'[c] = pc /\ \A d \in Chains \ {c} : chain'[d] = chain[d]
  BY <1>2, ChainGoes DEF FrameArrives, Pcs
<1>4. \A d \in Closings : chain'[d] = chain[d]
  BY <1>3 DEF Closings
<1>5. CASE Socket(c) # s \/ pc # "login"
  <2>1. \A d \in Frames : Socket(d) = s =>
           chain'[d] = chain[d] \/ chain'[d] \notin RegistrationPcs
    BY <1>3, <1>5, ChainForm DEF RegistrationPcs
  <2> QED
    BY <1>1, <1>2, <1>4, <2>1, OrderlyKept
<1>6. CASE Socket(c) = s /\ pc = "login"
  <2>1. ~ Registering(s) /\ ~ session[s].isRegistered /\ alive[s]
    BY <1>6 DEF FrameArrives
  <2>2. \A d \in Frames : Socket(d) = s => chain[d] \notin RegistrationPcs
    BY <2>1, RegisteringMeans
  <2>3. \A d \in Frames : Socket(d) = s /\ chain'[d] \in RegistrationPcs =>
           d = c /\ chain'[d] = "login"
    BY <1>3, <1>6, <2>2, ChainForm
  <2>4. OneByOne(s)'
    BY <2>3 DEF OneByOne, Socket, RegistrationPcs
  <2>5. SessionSoFar(s)'
    BY <1>1, <1>2, <2>1, <2>3
       DEF Orderly, SessionSoFar, Socket, UnregisteredPcs, RegistrationPcs
  <2>6. \A d \in Closings : Socket(d) = s => chain'[d] = "idle"
    BY <1>4, <2>1 DEF SocketsInOrder
  <2>7. stage'[s] # "gone"
    BY <1>1, <1>6 DEF FrameArrives
  <2>8. ClosedSoFar(s)'
    BY <2>6, <2>7 DEF ClosedSoFar, Closings, Chains, Socket
  <2> QED
    BY <2>4, <2>5, <2>8 DEF Orderly
<1> QED
  BY <1>5, <1>6
LEMMA ChainKeeps ==
    ASSUME NEW c \in Chains, ChainStep(c)
    PROVE  owner' = owner /\ overtaken' = overtaken
  BY DEF ChainStep, RegistrationStep, FrameStep, DisconnectStep, Login, CreateClient,
     IndexClient, Activate, ClientConnect, ConnectSession, SaveSession, WsSession, PingSession,
     Authorizes, ClientStatus, RemoveSession, WsEndSession, Forget, RedisOnly, mapVars, given,
     histories

\* Only wsCreateSession adds a record whose id is kept.
LEMMA WsRecords ==
    ASSUME TypeOK, NEW c \in Chains, ChainStep(c), NEW p \in Principals, NEW d \in Frames,
           <<d, "ws">> \in userSessions'[p], <<d, "ws">> \notin userSessions[p]
    PROVE  WsSession(c) /\ d = c
<1> USE DEF RedisOnly, mapVars, redisVars
<1>1. Principal(c) \in Principals
  BY PrincipalOf
<1>2. ASSUME NEW kinds, OpenSessions(c, kinds) PROVE d = c /\ "ws" \in kinds
  BY <1>1, <1>2 DEF OpenSessions, TypeOK
<1>3. ASSUME WsEndSession(c) PROVE FALSE
  BY <1>1, <1>3 DEF WsEndSession, TypeOK
<1>4. ConnectSession(c) \/ PingSession(c) \/ WsSession(c)
  BY <1>3 DEF ChainStep, RegistrationStep, FrameStep, DisconnectStep, Login, CreateClient,
     IndexClient, Activate, ClientConnect, SaveSession,
     Authorizes, ClientStatus, RemoveSession, Forget, SetStatus
<1> QED
  BY <1>2, <1>4 DEF ConnectSession, PingSession, WsSession

LEMMA OthersClean ==
    ASSUME TypeOK, ChainsInPlace, CleanInv, NEW c \in Chains, ChainStep(c),
           NEW t \in Sockets \ overtaken, t # Socket(c)
    PROVE  Orderly(t)'
<1>1. c \in Frames \/ DisconnectStep(c)
  BY ChainSteps
<1>2. Orderly(t) /\ t # None /\ owner' = owner
  BY SessionsAssumption, ChainKeeps DEF CleanInv
<1>3. /\ \A d \in Chains : Socket(d) = t => chain'[d] = chain[d]
      /\ session'[t] = session[t] /\ stage'[t] = stage[t]
      /\ DOMAIN saved' = DOMAIN saved
      /\ \A i \in DOMAIN saved : saved'[i] = t => saved[i] = t
  BY <1>1, <1>2, ChainStepEffect
<1>4. \A d \in Frames : Socket(d) = t /\ <<d, "ws">> \in userSessions'[owner[t]] =>
         <<d, "ws">> \in userSessions[owner[t]]
  <2>1. owner[t] \in Principals
    BY DEF TypeOK
  <2> QED
    BY <2>1, WsRecords
<1> QED
  BY <1>2, <1>3, <1>4, ChainForm, OrderlyKept

\* A registration at work: no close of its socket has begun.
LEMMA NotClosing ==
    ASSUME NEW c \in Frames, NEW s, Socket(c) = s, Orderly(s), chain[c] \in RegistrationPcs
    PROVE  /\ \A d \in Closings : Socket(d) = s => chain[d] = "idle"
           /\ \A d \in Frames : Socket(d) = s /\ chain[d] \in RegistrationPcs => d = c
           /\ stage[s] # "gone"
<1>1. \A d \in Closings : Socket(d) = s => chain[d] = "idle"
  BY DEF Orderly, ClosedSoFar
<1>2. stage[s] # "gone"
  BY <1>1 DEF Orderly, ClosedSoFar
<1> QED
  BY <1>1, <1>2 DEF Orderly, OneByOne

LEMMA FrameClean ==
    ASSUME TypeOK, CleanInv, NEW c \in Frames, RegistrationStep(c) \/ FrameStep(c),
           NEW s \in Sockets \ overtaken, Socket(c) = s
    PROVE  Orderly(s)'
<1> USE DEF RedisOnly, mapVars, histories, bounds, given, redisVars
<1>1. ChainStep(c) /\ c \in Chains /\ c \notin Closings
  BY ChainForm DEF ChainStep, Closings
<1>2. Orderly(s) /\ owner' = owner /\ owner[s] \in Principals
  BY <1>1, ChainKeeps DEF CleanInv, TypeOK
<1>3. /\ \A d \in Chains \ {c} : chain'[d] = chain[d]
      /\ \A d \in Closings : chain'[d] = chain[d]
      /\ stage'[s] \in {stage[s], "gone"}
      /\ DOMAIN saved' = DOMAIN saved
      /\ \A i \in DOMAIN saved : saved'[i] # saved[i] => saved'[i] \in {s, None}
  BY <1>1, ChainStepEffect DEF Closings
<1>4. stage' = stage
  BY DEF RegistrationStep, FrameStep, Login, CreateClient, IndexClient, Activate, ClientConnect,
     ConnectSession, SaveSession, WsSession, PingSession, Authorizes, ClientStatus
<1>5. CASE Login(c) \/ CreateClient(c) \/ IndexClient(c) \/ Activate(c) \/ ClientConnect(c)
           \/ FrameStep(c)
  <2>1. PICK pc \in Pcs :
            /\ To(c, pc)
            /\ pc \in RegistrationPcs => chain[c] \in UnregisteredPcs /\ pc \in UnregisteredPcs
    BY <1>5 DEF Login, LoginContinues, CreateClient, IndexClient, Activate, ClientConnect,
       FrameStep, PingSession, Authorizes, ClientStatus, Pcs, RegistrationPcs, UnregisteredPcs
  <2>2. chain'[c] = pc
    BY <1>1, <2>1, ChainGoes
  <2>3. session' = session /\ saved' = saved /\ ~ WsSession(c)
    BY <1>5 DEF Login, CreateClient, IndexClient, Activate, ClientConnect, SetStatus, WsSession,
       FrameStep, PingSession, OpenSessions, Authorizes, ClientStatus
  <2>4. \A d \in Frames : <<d, "ws">> \in userSessions'[owner[s]] =>
           <<d, "ws">> \in userSessions[owner[s]]
    BY <1>1, <1>2, <2>3, WsRecords
  <2>5. \A d \in Frames : \/ chain'[d] = chain[d] \/ chain'[d] \notin RegistrationPcs
                          \/ chain[d] \in UnregisteredPcs /\ chain'[d] \in UnregisteredPcs
    BY <1>3, <2>1, <2>2, ChainForm
  <2> QED
    BY <1>2, <1>3, <1>4, <2>3, <2>4, <2>5, OrderlyKept
<1>6. CASE SaveSession(c)
  <2>1. chain[c] = "save" /\ chain'[c] = "wsSession" /\ session' = session
    BY <1>1, <1>6, ChainGoes DEF SaveSession, Pcs
  <2>2. userSessions' = userSessions
    BY <1>6 DEF SaveSession
  <2>3. \A d \in Frames : \/ chain'[d] = chain[d]
                          \/ chain[d] = "save" /\ chain'[d] = "wsSession"
    BY <1>3, <2>1, ChainForm
  <2> QED
    BY <1>2, <1>3, <1>4, <2>1, <2>2, <2>3, OrderlyKept
<1>7. CASE ConnectSession(c)
  <2>1. chain[c] = "connectSession" /\ chain'[c] = "save" /\ saved' = saved /\ ~ WsSession(c)
    BY <1>1, <1>7, ChainGoes DEF ConnectSession, OpenSessions, WsSession, Pcs
  <2>2. /\ session'[s].isRegistered = TRUE /\ session'[s].clientId # None
        /\ session'[s].wsSessionId = session[s].wsSessionId
    BY <1>7, SessionConnected, WsIsSome
  <2>3. session[s].wsSessionId = None
    BY <1>2, <2>1 DEF Orderly, SessionSoFar, UnregisteredPcs, RegistrationPcs
  <2>4. /\ \A d \in Closings : Socket(d) = s => chain'[d] = "idle"
        /\ stage'[s] # "gone"
        /\ \A d \in Frames : Socket(d) = s /\ chain'[d] \in RegistrationPcs => d = c
    BY <1>2, <1>3, <1>4, <2>1, ChainForm, NotClosing DEF RegistrationPcs
  <2>5. \A d \in Frames : <<d, "ws">> \in userSessions'[owner[s]] =>
           <<d, "ws">> \in userSessions[owner[s]]
    BY <1>1, <1>2, <2>1, WsRecords
  <2>6. OneByOne(s)'
    BY <2>4 DEF OneByOne, Socket, RegistrationPcs
  <2>7. SessionSoFar(s)'
    BY <1>2, <2>1, <2>2, <2>3, <2>4, <2>5
       DEF Orderly, SessionSoFar, Socket, UnregisteredPcs, RegistrationPcs
  <2>8. ClosedSoFar(s)'
    BY <2>4 DEF ClosedSoFar, Closings, Chains, Socket
  <2> QED
    BY <2>6, <2>7, <2>8 DEF Orderly
<1>8. CASE WsSession(c)
  <2>1. chain[c] = "wsSession" /\ chain'[c] = "done" /\ saved' = saved
    BY <1>1, <1>8, ChainGoes DEF WsSession, OpenSessions, Pcs
  <2>2. session[s].isRegistered /\ session[s].wsSessionId = None
    BY <1>2, <2>1 DEF Orderly, SessionSoFar
  <2>3. /\ session'[s].isRegistered = session[s].isRegistered
        /\ session'[s].clientId = session[s].clientId
        /\ session'[s].wsSessionId = <<c, "ws">>
    BY <1>8, SessionEnlisted
  <2>4. /\ \A d \in Closings : Socket(d) = s => chain'[d] = "idle"
        /\ stage'[s] # "gone"
        /\ \A d \in Frames : Socket(d) = s => chain'[d] \notin RegistrationPcs
    BY <1>2, <1>3, <1>4, <2>1, ChainForm, NotClosing DEF RegistrationPcs
  <2>5. \A d \in Frames : Socket(d) = s /\ <<d, "ws">> \in userSessions'[owner[s]] => d = c
    <3>1. \A d \in Frames : Socket(d) = s => <<d, "ws">> \notin userSessions[owner[s]]
      BY <1>2, <2>2, WsIsSome DEF Orderly, SessionSoFar
    <3> QED
      BY <1>1, <1>2, <3>1, WsRecords
  <2>6. OneByOne(s)'
    BY <2>4 DEF OneByOne, Socket, RegistrationPcs
  <2>7. SessionSoFar(s)'
    BY <1>2, <2>1, <2>2, <2>3, <2>4, <2>5, WsIsSome
       DEF Orderly, SessionSoFar, Socket, UnregisteredPcs, RegistrationPcs
  <2>8. ClosedSoFar(s)'
    BY <2>4 DEF ClosedSoFar, Closings, Chains, Socket
  <2> QED
    BY <2>6, <2>7, <2>8 DEF Orderly
<1> QED
  BY <1>5, <1>6, <1>7, <1>8 DEF RegistrationStep

LEMMA ClosingClean ==
    ASSUME TypeOK, ChainsInPlace, SocketsInOrder, CleanInv, NEW c \in Closings,
           DisconnectStep(c), NEW s \in Sockets \ overtaken, Socket(c) = s
    PROVE  Orderly(s)'
<1> USE DEF RedisOnly, mapVars, histories, bounds, given, redisVars
<1>1. ChainStep(c) /\ c \in Chains /\ c \notin Frames /\ s # None
  BY ChainForm, SessionsAssumption DEF ChainStep, Closings
<1>2. Orderly(s) /\ owner' = owner /\ owner[s] \in Principals /\ session' = session
  BY <1>1, ChainKeeps
     DEF CleanInv, TypeOK, DisconnectStep, RemoveSession, WsEndSession, Forget
<1>3. /\ \A d \in Chains \ {c} : chain'[d] = chain[d]
      /\ \A d \in Frames : chain'[d] = chain[d]
      /\ chain[c] # "idle"
  BY <1>1, ChainForm, ChainStepEffect
<1>4. \A d \in Frames : <<d, "ws">> \in userSessions'[owner[s]] =>
         <<d, "ws">> \in userSessions[owner[s]]
  BY <1>1, <1>2, WsRecords
<1>5. DOMAIN saved' = DOMAIN saved /\ \A i \in DOMAIN saved : saved'[i] = s => saved[i] = s
  <2>1. CASE RemoveSession(c)
    BY <1>1, <2>1 DEF RemoveSession, TypeOK
  <2>2. CASE WsEndSession(c) \/ Forget(c)
    <3>1. saved' = saved
      BY <2>2 DEF WsEndSession, Forget
    <3> QED
      BY <3>1
  <2> QED
    BY <2>1, <2>2 DEF DisconnectStep
<1>6. \A d \in Frames : Socket(d) = s => chain'[d] \notin RegistrationPcs
  BY <1>2, <1>3 DEF Orderly, ClosedSoFar
<1>7. OneByOne(s)'
  BY <1>6 DEF OneByOne, Socket, RegistrationPcs
<1>8. SessionSoFar(s)'
  BY <1>2, <1>3, <1>4, <1>5
     DEF Orderly, SessionSoFar, Socket, UnregisteredPcs, RegistrationPcs
<1>9. /\ chain'[c] \in {"endWs", "finalize", "done"}
      /\ \A i \in DOMAIN saved : saved'[i] # s
  <2>1. CASE RemoveSession(c)
    <3>1. chain'[c] \in {"endWs", "finalize"}
      BY <1>1, <2>1, ChainGoes DEF RemoveSession, Pcs
    <3>2. \A i \in DOMAIN saved : saved'[i] = IF i = session[s].id THEN None ELSE saved[i]
      BY <2>1 DEF RemoveSession, TypeOK
    <3> QED
      BY <1>1, <3>1, <3>2 DEF SocketsInOrder
  <2>2. CASE WsEndSession(c) \/ Forget(c)
    <3>1. chain[c] \in {"endWs", "finalize"} /\ chain'[c] \in {"finalize", "done"}
      BY <1>1, <2>2, ChainGoes DEF WsEndSession, Forget, Pcs
    <3>2. \A i \in DOMAIN saved : saved[i] # s
      BY <1>2, <3>1 DEF Orderly, ClosedSoFar
    <3> QED
      BY <1>5, <3>1, <3>2
  <2> QED
    BY <2>1, <2>2 DEF DisconnectStep
<1>10. chain'[c] \in {"finalize", "done"} =>
          \A d \in Frames : Socket(d) = s => <<d, "ws">> \notin userSessions'[owner[s]]
  <2>1. CASE RemoveSession(c) /\ chain'[c] \in {"finalize", "done"}
    <3>1. session[s].wsSessionId = None
      BY <1>1, <2>1, ChainGoes DEF RemoveSession, Pcs
    <3> QED
      BY <1>2, <1>4, <3>1, WsIsSome DEF Orderly, SessionSoFar
  <2>2. CASE WsEndSession(c)
    <3>1. userSessions'[owner[s]] = userSessions[owner[s]] \ {session[s].wsSessionId}
      BY <1>2, <2>2 DEF WsEndSession, Ended, Principal, TypeOK
    <3> QED
      BY <1>2, <3>1 DEF Orderly, SessionSoFar
  <2>3. CASE Forget(c)
    <3>1. chain[c] = "finalize"
      BY <2>3 DEF Forget
    <3> QED
      BY <1>2, <1>4, <3>1 DEF Orderly, ClosedSoFar
  <2> QED
    BY <2>1, <2>2, <2>3 DEF DisconnectStep
<1>11. ASSUME NEW d \in Closings, Socket(d) = s, chain'[d] \in {"finalize", "done"}
       PROVE  \A f \in Frames : Socket(f) = s => <<f, "ws">> \notin userSessions'[owner[s]]
  <2>1. CASE d = c
    BY <1>10, <1>11, <2>1
  <2>2. CASE d # c
    <3>1. chain[d] \in {"finalize", "done"}
      BY <1>3, <1>11, <2>2 DEF Closings
    <3> QED
      BY <1>2, <1>4, <1>11, <3>1 DEF Orderly, ClosedSoFar
  <2> QED
    BY <2>1, <2>2
<1>12. stage'[s] = "gone" => \E d \in Closings : Socket(d) = s /\ chain'[d] = "done"
  <2>1. CASE Forget(c)
    <3>1. chain'[c] = "done"
      BY <1>1, <2>1, ChainGoes DEF Forget, Pcs
    <3> QED
      BY <3>1
  <2>2. CASE ~ Forget(c)
    <3>1. stage' = stage
      BY <2>2 DEF DisconnectStep, RemoveSession, WsEndSession
    <3>2. ASSUME stage[s] = "gone" PROVE \E d \in Closings : Socket(d) = s /\ chain'[d] = "done"
      <4>1. PICK d \in Closings : Socket(d) = s /\ chain[d] = "done"
        BY <1>2, <3>2 DEF Orderly, ClosedSoFar
      <4>2. d # c
        BY <1>1, <4>1, ChainStepEffect
      <4> QED
        BY <1>3, <4>1, <4>2 DEF Closings
    <3> QED
      BY <3>1, <3>2
  <2> QED
    BY <2>1, <2>2
<1>13. ClosedSoFar(s)'
  BY <1>2, <1>5, <1>6, <1>9, <1>11, <1>12
     DEF ClosedSoFar, Closings, Chains, Socket, RegistrationPcs
<1> QED
  BY <1>7, <1>8, <1>13 DEF Orderly

LEMMA RestartClean == ASSUME TypeOK, SocketsInOrder, CleanInv, Restart PROVE CleanInv'
<1> USE DEF histories, bounds, given, redisVars
<1> SUFFICES ASSUME NEW s \in Sockets \ overtaken' PROVE Orderly(s)'
  BY DEF CleanInv
<1>1. s \notin overtaken /\ Orderly(s) /\ stage[s] \in {"absent", "gone"}
  BY DEF Restart, CleanInv
<1>2. UNCHANGED <<owner, session, saved, userSessions>>
  BY DEF Restart
<1>3. CASE stage[s] = "absent"
  <2>1. \A c \in Chains : Socket(c) = s => chain'[c] = chain[c]
    BY <1>3 DEF Restart, SocketsInOrder, NotBegun
  <2>2. stage'[s] = "absent"
    BY <1>3 DEF Restart
  <2> QED
    BY <1>1, <1>2, <2>1, <2>2, ChainForm, OrderlyKept
<1>4. CASE stage[s] = "gone"
  <2>1. \A c \in Chains : Socket(c) = s => chain'[c] = "done"
    BY <1>4 DEF Restart
  <2>2. PICK d \in Closings : Socket(d) = s /\ chain[d] = "done"
    BY <1>1, <1>4 DEF Orderly, ClosedSoFar
  <2>3. /\ \A i \in DOMAIN saved : saved[i] # s
        /\ \A c \in Frames : Socket(c) = s => <<c, "ws">> \notin userSessions[owner[s]]
    BY <1>1, <2>2 DEF Orderly, ClosedSoFar
  <2>4. OneByOne(s)'
    BY <2>1, ChainForm DEF OneByOne, Socket, RegistrationPcs
  <2>5. SessionSoFar(s)'
    BY <1>1, <1>2, <2>1, <2>3, ChainForm
       DEF Orderly, SessionSoFar, Socket, UnregisteredPcs, RegistrationPcs
  <2>6. \E e \in Closings : Socket(e) = s /\ chain'[e] = "done"
    BY <2>1, <2>2, ChainForm
  <2>7. ClosedSoFar(s)'
    BY <1>2, <2>1, <2>3, <2>6, ChainForm
       DEF ClosedSoFar, Closings, Chains, Frames, Socket, RegistrationPcs
  <2> QED
    BY <2>4, <2>5, <2>7 DEF Orderly
<1> QED
  BY <1>1, <1>3, <1>4

LEMMA StepClean ==
    TypeOK /\ ChainsInPlace /\ SocketsInOrder /\ CleanInv /\ [Next]_vars => CleanInv'
<1> SUFFICES ASSUME TypeOK, ChainsInPlace, SocketsInOrder, CleanInv, [Next]_vars PROVE CleanInv'
  OBVIOUS
<1>1. ASSUME NEW c \in Chains, ChainStep(c) PROVE CleanInv'
  <2> SUFFICES ASSUME NEW s \in Sockets \ overtaken PROVE Orderly(s)'
    BY <1>1, ChainKeeps DEF CleanInv
  <2>1. CASE Socket(c) = s
    BY <1>1, <2>1, ChainSteps, FrameClean, ClosingClean
  <2> QED
    BY <1>1, <2>1, OthersClean
<1>2. CASE UNCHANGED vars
  <2>1. UNCHANGED <<owner, session, stage, chain, saved, userSessions, overtaken>>
    BY <1>2 DEF vars, mapVars, redisVars, histories, given
  <2> QED
    BY <2>1, OrderlyKept DEF CleanInv
<1> QED
  BY <1>1, <1>2, SocketEventClean, DisconnectsClean, ArrivalClean, RestartClean, SessionSteps
SessionsInv ==
    /\ TypeOK /\ ChainsInPlace /\ SocketsInOrder
    /\ IndexInv /\ CleanInv /\ ReachInv

LEMMA SessionsInvHolds == Spec => []SessionsInv
<1>1. Init => SessionsInv
  BY InitTyped, InitInOrder, InitIndexed, InitClean, InitReachable DEF SessionsInv
<1>2. SessionsInv /\ [Next]_vars => SessionsInv'
  BY StepTyped, StepInOrder, StepIndexed, StepClean, StepReachable DEF SessionsInv
<1> QED
  BY <1>1, <1>2, PTL DEF Spec

\* Sessions, saved sessions, client records and chains stay well formed, for any
\* number of sockets, principals, frames and restarts.
THEOREM SessionsTypeCorrect == Spec => []TypeOK
<1>1. SessionsInv => TypeOK
  BY DEF SessionsInv
<1> QED
  BY <1>1, SessionsInvHolds, PTL

\* However the first logins of a principal overlap with one another and with the
\* frames that change its status, the status index lists it once they are done.
THEOREM ClientsListed == Spec => []StatusListed
<1>1. SessionsInv => StatusListed
  <2> SUFFICES ASSUME SessionsInv, NEW p \in Principals, record[p] # NoRecord, restarts = 0,
                      \A c \in Chains : Principal(c) = p => ~ Suspended(c)
               PROVE  record[p].status \in statusIndex[p]
    BY DEF StatusListed
  <2>1. Indexed(p) /\ record[p].status \in {"none", ACTIVE, INACTIVE}
    BY DEF SessionsInv, IndexInv, TypeOK
  <2>2. \A c \in Chains : Principal(c) = p => chain[c] # "index"
    BY DEF Suspended
  <2> QED
    BY <2>1, <2>2 DEF Indexed
<1> QED
  BY <1>1, SessionsInvHolds, PTL

\* A socket that was registered one frame at a time and closed leaves neither its
\* saved session nor its own session record.
THEOREM NothingStays == Spec => []NothingLeftBehind
<1>1. SessionsInv => NothingLeftBehind
  <2> SUFFICES ASSUME SessionsInv, NEW s \in Sockets, stage[s] = "gone", s \notin overtaken
               PROVE  /\ \A i \in DOMAIN saved : saved[i] # s
                      /\ \A k \in Slots : <<Frame(s, k), "ws">> \notin userSessions[owner[s]]
    BY DEF NothingLeftBehind
  <2>1. ClosedSoFar(s)
    BY DEF SessionsInv, CleanInv, Orderly
  <2>2. PICK d \in Closings : Socket(d) = s /\ chain[d] = "done"
    BY <2>1 DEF ClosedSoFar
  <2> QED
    BY <2>1, <2>2, ChainForm DEF ClosedSoFar
<1> QED
  BY <1>1, SessionsInvHolds, PTL

\* The map's order has a first session among any registered ones.
LEMMA FirstSession ==
    ASSUME TypeOK, NEW R, R \subseteq Sockets, R # {}
    PROVE  \E s \in R : \A t \in R : session[s].id <= session[t].id
<1> DEFINE Below(s) == {t \in R : session[t].id < session[s].id}
<1>1. IsFiniteSet(R)
  BY SessionsAssumption, FS_Subset
<1>2. \A s \in R : session[s].id \in Nat
  BY SessionRecords
<1>3. PICK B : B = {Below(s) : s \in R}
  OBVIOUS
<1>4. PICK m \in B : \A b \in B : ~ (b \subseteq m /\ b # m)
  <2>1. B \subseteq SUBSET R
    BY <1>3
  <2>2. PICK s \in R : TRUE
    OBVIOUS
  <2>3. Below(s) \in B
    BY <1>3
  <2> QED
    BY <1>1, <2>1, <2>3, MinimalSet
<1>5. PICK s \in R : m = Below(s)
  BY <1>3, <1>4
<1>6. ASSUME NEW t \in R, session[t].id < session[s].id PROVE FALSE
  <2>1. t \in Below(s) /\ t \notin Below(t)
    BY <1>2, <1>6
  <2>2. Below(t) \subseteq Below(s)
    BY <1>2, <1>6
  <2>3. Below(t) \in B
    BY <1>3
  <2> QED
    BY <1>4, <1>5, <2>1, <2>2, <2>3
<1> QED
  BY <1>2, <1>6

\* A job for a node whose registered sessions are open goes to one of them, and its
\* client is ACTIVE, unless it said it is inactive or was registered twice at once:
\* the lookup by principal, the status writes of login, createClient, clientConnect
\* and the status frame, and the order of a registration agree.
THEOREM JobsReachTheirNode == Spec => []JobReachesItsNode
<1>1. SessionsInv => JobReachesItsNode
  <2> SUFFICES ASSUME SessionsInv, NEW p \in Principals \ doubted, RegisteredFor(p) # {}
               PROVE  Target(p) \in RegisteredFor(p) /\ record[p].status = ACTIVE
    BY DEF JobReachesItsNode
  <2>1. record[p].status = ACTIVE
    BY DEF SessionsInv, ReachInv, Reachable, ActiveOnceRegistered
  <2>2. PICK first : first = {s \in RegisteredFor(p) :
                                 \A t \in RegisteredFor(p) : session[s].id <= session[t].id}
    OBVIOUS
  <2>3. RegisteredFor(p) \subseteq Sockets
    BY DEF RegisteredFor, Registered, InMap
  <2>4. PICK s \in first : TRUE
    BY <2>2, <2>3, FirstSession DEF SessionsInv
  <2>5. session[s].isRegistered
    BY <2>2, <2>4 DEF RegisteredFor, Registered
  <2>6. Target(p) = CHOOSE t \in first : TRUE
    BY <2>2, <2>4, <2>5 DEF Target, Candidates
  <2>7. Target(p) \in first
    BY <2>4, <2>6
  <2> QED
    BY <2>1, <2>2, <2>7
<1> QED
  BY <1>1, SessionsInvHolds, PTL
=============================================================================
