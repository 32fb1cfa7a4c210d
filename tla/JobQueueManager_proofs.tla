----------------------- MODULE JobQueueManager_proofs -----------------------
(***************************************************************************)
(* Proofs about JobQueueManager, for any number of jobs and clients, any   *)
(* queue size, any retry limit and any number of clears.                   *)
(***************************************************************************)
EXTENDS JobQueueManager, FiniteSetTheorems, SequenceTheorems, TLAPS

\* A suspended processClientQueue works for the client its job was queued for,
\* on a queue object that was created for that client.
LoopsWell ==
    \A w \in Jobs : Running(w) =>
        /\ target[w] \in Clients
        /\ loop[w].queue \in Jobs
        /\ target[loop[w].queue] = target[w]
        /\ loop[w].pc = "delivering" => loop[w].job \in Jobs

\* The map gives every client a queue object of its own.
QueuesOwned ==
    \A c \in Clients : clientQueues[c] # None => target[clientQueues[c]] = c

\* Nothing of a job's queue object is used before the job is queued.
Fresh ==
    \A j \in Jobs : target[j] = None => ~ isProcessing[j] /\ waitingJobs[j] = None

LoopPart == LoopsWell /\ QueuesOwned /\ Fresh /\ LockDiscipline /\ FlagMatchesLoop

\* What LockDiscipline and FlagMatchesLoop rest on, with the types.
IInv == TypeOK /\ LoopPart

\* None is no job and no client.
LEMMA NoneIsNone == None \notin Jobs /\ None \notin Clients
BY QueueAssumption

\* The first element that passes a test, if there is one, is an element.
LEMMA MinType ==
    ASSUME NEW I \in SUBSET Nat, I # {}
    PROVE  Min(I) \in I
<1> DEFINE R == {p \in Nat \X Nat : p[1] < p[2]}
<1>1. IsWellFoundedOn(R, Nat)
  BY NatLessThanWellFounded, Zenon DEF OpToRel
<1>2. PICK m \in I : \A n \in I : <<n, m>> \notin R
  BY <1>1, WFMin, Zenon
<1>3. ASSUME NEW n \in I PROVE m <= n
  <2>1. m \in Nat /\ n \in Nat
    OBVIOUS
  <2>2. ~ (n < m)
    BY <1>2, <2>1
  <2> QED
    BY <2>1, <2>2
<1> QED
  BY <1>3 DEF Min

\* Inserting by priority gives a non-empty sequence of jobs.
LEMMA InsertType ==
    ASSUME NEW s \in Seq(Jobs), NEW j \in Jobs
    PROVE  InsertByPriority(s, j) \in Seq(Jobs) /\ InsertByPriority(s, j) # <<>>
<1> DEFINE I == {k \in 1 .. Len(s) : priority[s[k]] < priority[j]}
           i == IF I # {} THEN Min(I) ELSE 0
<1>1. i \in 0 .. Len(s)
  <2>1. I \in SUBSET Nat
    OBVIOUS
  <2>2. I # {} => Min(I) \in I
    BY <2>1, MinType
  <2> QED
    BY <2>2
<1>2. InsertByPriority(s, j) = IF i = 0 THEN Append(s, j) ELSE InsertAt(s, i, j)
  BY DEF InsertByPriority, SelectInSeq
<1> HIDE DEF i
<1>3. CASE i = 0
  BY <1>2, <1>3
<1>4. CASE i # 0
  <2>1. SubSeq(s, 1, i - 1) \in Seq(Jobs) /\ SubSeq(s, i, Len(s)) \in Seq(Jobs)
    BY <1>1, <1>4
  <2>2. InsertAt(s, i, j) = SubSeq(s, 1, i - 1) \o <<j>> \o SubSeq(s, i, Len(s))
    BY DEF InsertAt
  <2>3. InsertAt(s, i, j) \in Seq(Jobs) /\ Len(InsertAt(s, i, j)) > 0
    BY <2>1, <2>2
  <2> QED
    BY <1>2, <1>4, <2>3
<1> QED
  BY <1>3, <1>4
-----------------------------------------------------------------------------
\* The invariant holds initially.
LEMMA InitIInv == Init => IInv
<1> SUFFICES ASSUME Init PROVE IInv
  OBVIOUS
<1>1. \A w \in Jobs : loop[w] = Idle /\ ~ Running(w)
  BY DEF Init, Idle, Running
<1>2. TypeOK
  <2>1. MinPriority \in Int /\ 0 \in MinPriority .. 0 /\ 0 \in 0 .. MaxClears
    BY QueueAssumption
  <2>2. Idle \in Activations
    BY DEF Idle, Activations
  <2> QED
    BY <2>1, <2>2 DEF Init, TypeOK, Replies, Outcomes
<1>3. LoopsWell /\ LockDiscipline
  BY <1>1 DEF Init, LoopsWell, LockDiscipline
<1>4. QueuesOwned /\ Fresh /\ FlagMatchesLoop
  BY <1>1 DEF Init, QueuesOwned, Fresh, FlagMatchesLoop
<1> QED
  BY <1>2, <1>3, <1>4 DEF IInv, LoopPart

\* A loop that leaves takes its lock and its flag with it.
LEMMA LeavePreserves ==
    ASSUME IInv, NEW w \in Jobs, Running(w), LeaveLoop(w),
           UNCHANGED <<clientQueues, target, waitingJobs>>
    PROVE  LoopPart'
<1> USE DEF IInv, LoopPart
<1>1. /\ \A v \in Jobs : v # w => loop'[v] = loop[v] /\ (Running(v)' <=> Running(v))
      /\ ~ Running(w)'
  BY DEF LeaveLoop, TypeOK, Idle, Running
<1>2. /\ target[w] \in Clients /\ loop[w].queue \in Jobs
      /\ target[loop[w].queue] = target[w]
  BY DEF LoopsWell
<1>3. \A v \in Jobs : Running(v)' => target[v] # target[w] /\ loop[v].queue # loop[w].queue
  BY <1>1, <1>2 DEF LockDiscipline, LoopsWell
<1>4. LoopsWell' /\ QueuesOwned'
  BY <1>1 DEF LoopsWell, QueuesOwned
<1>5. Fresh'
  BY <1>2 DEF Fresh, LeaveLoop, TypeOK
<1>6. LockDiscipline'
  BY <1>1, <1>2, <1>3 DEF LockDiscipline, LeaveLoop
<1>7. FlagMatchesLoop'
  <2> SUFFICES ASSUME NEW c \in Clients, clientQueues[c] # None
               PROVE  isProcessing'[clientQueues[c]]
                        <=> \E v \in Jobs : Running(v)' /\ loop'[v].queue = clientQueues[c]
    BY DEF FlagMatchesLoop
  <2>1. clientQueues[c] \in Jobs
    BY DEF TypeOK
  <2>2. CASE clientQueues[c] = loop[w].queue
    BY <1>1, <1>3, <2>1, <2>2 DEF LeaveLoop, TypeOK
  <2>3. CASE clientQueues[c] # loop[w].queue
    <3>1. isProcessing'[clientQueues[c]] = isProcessing[clientQueues[c]]
      BY <2>1, <2>3 DEF LeaveLoop, TypeOK
    <3> QED
      BY <1>1, <2>3, <3>1 DEF FlagMatchesLoop
  <2> QED
    BY <2>2, <2>3
<1> QED
  BY <1>4, <1>5, <1>6, <1>7

\* A loop that goes on changes nothing but what it holds.
LEMMA StayPreserves ==
    ASSUME IInv, NEW w \in Jobs, Running(w), NEW r \in Activations,
           loop' = [loop EXCEPT ![w] = r],
           r.pc # "idle", r.queue = loop[w].queue,
           r.pc = "delivering" => r.job \in Jobs,
           UNCHANGED <<clientQueues, isProcessing, processingLocks, target, waitingJobs>>
    PROVE  LoopPart'
<1> USE DEF IInv, LoopPart
<1>1. \A v \in Jobs : /\ Running(v)' <=> Running(v)
                      /\ loop'[v].queue = loop[v].queue
                      /\ v # w => loop'[v] = loop[v]
  BY DEF TypeOK, Running
<1>2. loop'[w] = r
  BY DEF TypeOK
<1>3. LoopsWell' /\ QueuesOwned'
  BY <1>1, <1>2 DEF LoopsWell, QueuesOwned
<1>4. Fresh' /\ LockDiscipline'
  BY <1>1 DEF Fresh, LockDiscipline
<1>5. FlagMatchesLoop'
  BY <1>1 DEF FlagMatchesLoop
<1> QED
  BY <1>3, <1>4, <1>5

\* The types of what a loop works with.
QueueTypes ==
    /\ pendingJobs \in [Jobs -> Seq(Jobs)]
    /\ isProcessing \in [Jobs -> BOOLEAN]
    /\ processingLocks \in SUBSET Clients
    /\ loop \in [Jobs -> Activations]

\* After a delivery the loop pauses or leaves.
LEMMA AfterDeliveryPreserves ==
    ASSUME IInv, NEW w \in Jobs, loop[w].pc = "delivering",
           NEW pending \in Seq(Jobs), AfterDelivery(w, pending),
           UNCHANGED <<clientQueues, target, waitingJobs>>
    PROVE  QueueTypes' /\ LoopPart'
<1>1. Running(w) /\ loop[w].queue \in Jobs /\ loop[w] \in Activations
  BY DEF IInv, LoopPart, LoopsWell, Running, TypeOK
<1>2. pendingJobs' \in [Jobs -> Seq(Jobs)]
  BY DEF AfterDelivery, IInv, TypeOK
<1>3. CASE pending = <<>>
  <2>1. LeaveLoop(w)
    BY <1>3 DEF AfterDelivery
  <2>2. QueueTypes'
    BY <1>2, <2>1 DEF LeaveLoop, QueueTypes, IInv, TypeOK, Idle, Activations
  <2> QED
    BY <1>1, <2>1, <2>2, LeavePreserves
<1>4. CASE pending # <<>>
  <2> DEFINE r == [pc |-> "delaying", queue |-> loop[w].queue, job |-> None]
  <2>1. r \in Activations /\ loop' = [loop EXCEPT ![w] = r]
    BY <1>1, <1>4 DEF AfterDelivery, Activations
  <2>2. UNCHANGED <<isProcessing, processingLocks>>
    BY <1>4 DEF AfterDelivery
  <2>3. QueueTypes'
    BY <1>2, <2>1, <2>2 DEF QueueTypes, IInv, TypeOK
  <2>4. r.pc = "delaying" /\ r.queue = loop[w].queue
    OBVIOUS
  <2> HIDE DEF r
  <2>5. LoopPart'
    BY <1>1, <2>1, <2>2, <2>4, StayPreserves
  <2> QED
    BY <2>3, <2>5
<1> QED
  BY <1>3, <1>4

\* The same after a delivery that failed, with the failed job's priority.
LEMMA DeliveryFailedPreserves ==
    ASSUME IInv, NEW w \in Jobs, loop[w].pc = "delivering", DeliveryFailed(w),
           UNCHANGED <<clientQueues, target, waitingJobs>>
    PROVE  /\ QueueTypes' /\ LoopPart'
           /\ priority' \in [Jobs -> MinPriority .. 0]
           /\ outcome' \in [Jobs -> Outcomes]
<1> DEFINE j == loop[w].job
           pending == pendingJobs[loop[w].queue]
<1>1. j \in Jobs /\ pending \in Seq(Jobs)
  BY DEF IInv, LoopPart, LoopsWell, Running, TypeOK
<1>2. CASE CanRetry(j)
  <2>1. /\ priority' = [priority EXCEPT ![j] = @ - 1]
        /\ AfterDelivery(w, Requeued(j, pending))
        /\ outcome' = outcome
    BY <1>2 DEF DeliveryFailed
  <2>2. Requeued(j, pending) \in Seq(Jobs)
    BY <1>1 DEF Requeued, Cons
  <2>3. QueueTypes' /\ LoopPart'
    BY <2>1, <2>2, AfterDeliveryPreserves
  <2>4. priority' \in [Jobs -> MinPriority .. 0]
    <3>1. MinPriority \in Int /\ priority \in [Jobs -> MinPriority .. 0]
      BY QueueAssumption DEF IInv, TypeOK
    <3>2. priority[j] - 1 \in MinPriority .. 0
      BY <1>1, <1>2, <3>1 DEF CanRetry
    <3> QED
      BY <2>1, <3>1, <3>2
  <2> QED
    BY <2>1, <2>3, <2>4 DEF IInv, TypeOK
<1>3. CASE ~ CanRetry(j)
  <2>1. /\ outcome' = [outcome EXCEPT ![j] = "dropped"]
        /\ AfterDelivery(w, pending)
        /\ priority' = priority
    BY <1>3 DEF DeliveryFailed
  <2>2. QueueTypes' /\ LoopPart'
    BY <1>1, <2>1, AfterDeliveryPreserves
  <2> QED
    BY <2>1, <2>2 DEF IInv, TypeOK, Outcomes
<1> QED
  BY <1>2, <1>3
-----------------------------------------------------------------------------
\* A request that finds the queue full changes no queue.
LEMMA RefuseStep ==
    ASSUME IInv, NEW j \in Jobs, NEW c \in Clients, RefuseJob(j, c)
    PROVE  IInv'
<1>1. TypeOK'
  BY DEF RefuseJob, queueVars, wireVars, IInv, TypeOK, Replies
<1>2. \A k \in Jobs : target[k] # None => target'[k] = target[k]
  BY DEF RefuseJob, IInv, TypeOK
<1>3. /\ \A k \in Jobs : Running(k) => target[k] # None /\ target[loop[k].queue] # None
      /\ \A k \in Jobs : Running(k)' <=> Running(k)
      /\ \A d \in Clients : clientQueues[d] # None => target[clientQueues[d]] # None
  BY NoneIsNone DEF IInv, LoopPart, LoopsWell, QueuesOwned, RefuseJob, queueVars, Running
<1>4. LoopsWell'
  BY <1>2, <1>3 DEF IInv, LoopPart, LoopsWell, RefuseJob, queueVars
<1>5. QueuesOwned'
  BY <1>2, <1>3 DEF IInv, LoopPart, QueuesOwned, RefuseJob, queueVars, TypeOK
<1>6. Fresh' /\ FlagMatchesLoop'
  <2>1. UNCHANGED <<clientQueues, isProcessing, waitingJobs, loop>>
    BY DEF RefuseJob, queueVars
  <2>2. Fresh'
    BY <1>2, <2>1 DEF IInv, LoopPart, Fresh
  <2>3. FlagMatchesLoop'
    BY <1>3, <2>1 DEF IInv, LoopPart, FlagMatchesLoop
  <2> QED
    BY <2>2, <2>3
<1>7. LockDiscipline'
  <2>1. \A k \in Jobs : Running(k) => target'[k] = target[k]
    BY <1>2, <1>3
  <2> QED
    BY <1>3, <2>1 DEF IInv, LoopPart, LockDiscipline, RefuseJob, queueVars
<1> QED
  BY <1>1, <1>4, <1>5, <1>6, <1>7 DEF IInv, LoopPart

\* A job of which nothing is used yet: no loop and no queue in the map is named
\* after it.
LEMMA NewJob ==
    ASSUME IInv, NEW j \in Jobs, target[j] = None
    PROVE  /\ ~ Running(j)
           /\ \A w \in Jobs : Running(w) => loop[w].queue # j
           /\ \A c \in Clients : clientQueues[c] # j
BY NoneIsNone DEF IInv, LoopPart, LoopsWell, QueuesOwned

\* What a request does to the map, and to the targets.
LEMMA QueueMaps ==
    ASSUME IInv, NEW j \in Jobs, NEW c \in Clients, QueueJobForClient(j, c)
    PROVE  /\ QueueFor(c, j) \in Jobs
           /\ target' \in [Jobs -> Clients \cup {None}]
           /\ clientQueues' \in [Clients -> Jobs \cup {None}]
           /\ target'[j] = c /\ \A k \in Jobs \ {j} : target'[k] = target[k]
           /\ target'[QueueFor(c, j)] = c
           /\ clientQueues'[c] = QueueFor(c, j)
           /\ \A d \in Clients \ {c} : clientQueues'[d] = clientQueues[d]
           /\ QueuesOwned'
<1>1. /\ target[j] = None
      /\ target' = [target EXCEPT ![j] = c]
      /\ clientQueues' = [clientQueues EXCEPT ![c] = QueueFor(c, j)]
  BY DEF QueueJobForClient
<1>2. QueueFor(c, j) \in Jobs
  BY DEF QueueFor, IInv, TypeOK
<1>3. /\ target' \in [Jobs -> Clients \cup {None}]
      /\ clientQueues' \in [Clients -> Jobs \cup {None}]
      /\ target'[j] = c /\ \A k \in Jobs \ {j} : target'[k] = target[k]
      /\ clientQueues'[c] = QueueFor(c, j)
      /\ \A d \in Clients \ {c} : clientQueues'[d] = clientQueues[d]
  BY <1>1, <1>2 DEF IInv, TypeOK
<1>4. target'[QueueFor(c, j)] = c
  <2>1. CASE clientQueues[c] = None
    BY <1>3, <2>1 DEF QueueFor
  <2>2. CASE clientQueues[c] # None
    <3>1. QueueFor(c, j) = clientQueues[c] /\ target[clientQueues[c]] = c
      BY <2>2 DEF QueueFor, IInv, LoopPart, QueuesOwned
    <3>2. QueueFor(c, j) # j
      BY <1>1, <3>1, NoneIsNone
    <3> QED
      BY <1>2, <1>3, <3>1, <3>2
  <2> QED
    BY <2>1, <2>2
<1>5. QueuesOwned'
  <2>1. \A d \in Clients \ {c} : clientQueues[d] # None => target'[clientQueues[d]] = d
    <3> SUFFICES ASSUME NEW d \in Clients \ {c}, clientQueues[d] # None
                 PROVE  target'[clientQueues[d]] = d
      OBVIOUS
    <3>1. clientQueues[d] \in Jobs /\ target[clientQueues[d]] = d
      BY DEF IInv, LoopPart, QueuesOwned, TypeOK
    <3>2. clientQueues[d] # j
      BY <1>1, <3>1, NoneIsNone
    <3> QED
      BY <1>3, <3>1, <3>2
  <2> QED
    BY <1>3, <1>4, <2>1 DEF QueuesOwned
<1> QED
  BY <1>2, <1>3, <1>4, <1>5

\* Waiting for a job that was just queued.
LEMMA WaitTypes ==
    ASSUME IInv, NEW j \in Jobs, NEW c \in Clients, WaitForJobCompletion(j, c)
    PROVE  /\ waitingJobs' \in [Jobs -> Clients \cup {None}]
           /\ clientJobCounts' \in [Clients -> Nat]
           /\ reply' \in [Jobs -> Replies]
           /\ \A k \in Jobs \ {j} : waitingJobs'[k] = waitingJobs[k]
BY DEF WaitForJobCompletion, IInv, TypeOK, Replies

\* A request that finds the client's lock taken only adds to the queue.
LEMMA QueueLocked ==
    ASSUME IInv, NEW j \in Jobs, NEW c \in Clients, QueueJobForClient(j, c), Locked(c)
    PROVE  QueueTypes' /\ LoopPart' /\ attempts' \in [Jobs -> Nat]
<1> DEFINE q == QueueFor(c, j)
           pending == InsertByPriority(pendingJobs[q], j)
<1>1. /\ target[j] = None /\ pending \in Seq(Jobs)
      /\ pendingJobs' = [pendingJobs EXCEPT ![q] = pending]
      /\ UNCHANGED <<isProcessing, processingLocks, loop, attempts>>
  BY QueueMaps, InsertType DEF QueueJobForClient, ProcessClientQueue, IInv, TypeOK
<1>2. QueueTypes' /\ attempts' \in [Jobs -> Nat]
  BY <1>1, QueueMaps DEF QueueTypes, IInv, TypeOK
<1>3. \A w \in Jobs : /\ Running(w)' <=> Running(w)
                      /\ Running(w) => w # j /\ loop[w].queue \in Jobs \ {j}
  BY <1>1, NewJob DEF Running, IInv, LoopPart, LoopsWell
<1>4. \A w \in Jobs : Running(w) => /\ target'[w] = target[w]
                                    /\ target'[loop[w].queue] = target[loop[w].queue]
  BY <1>3, QueueMaps
<1>5. LoopsWell' /\ LockDiscipline'
  BY <1>1, <1>3, <1>4 DEF IInv, LoopPart, LoopsWell, LockDiscipline
<1>6. Fresh'
  <2>1. \A k \in Jobs \ {j} : waitingJobs'[k] = waitingJobs[k]
    BY WaitTypes DEF QueueJobForClient
  <2> QED
    BY <1>1, <2>1, QueueMaps, NoneIsNone DEF IInv, LoopPart, Fresh
<1>7. FlagMatchesLoop'
  <2>1. ~ isProcessing[j] /\ \A w \in Jobs : ~ (Running(w) /\ loop[w].queue = j)
    BY <1>1, <1>3 DEF IInv, LoopPart, Fresh
  <2>2. \A d \in Clients : clientQueues'[d] \in {clientQueues[d], j}
    BY QueueMaps DEF QueueFor
  <2> QED
    BY <1>1, <1>3, <2>1, <2>2 DEF IInv, LoopPart, FlagMatchesLoop
<1> QED
  BY <1>2, <1>5, <1>6, <1>7, QueueMaps DEF LoopPart

\* A request that finds the lock free takes it and starts the loop.
LEMMA QueueUnlocked ==
    ASSUME IInv, NEW j \in Jobs, NEW c \in Clients, QueueJobForClient(j, c), ~ Locked(c)
    PROVE  QueueTypes' /\ LoopPart' /\ attempts' \in [Jobs -> Nat]
<1> DEFINE q == QueueFor(c, j)
           pending == InsertByPriority(pendingJobs[q], j)
           r == [pc |-> "delivering", queue |-> q, job |-> Head(pending)]
<1>1. /\ target[j] = None /\ q \in Jobs
      /\ pending \in Seq(Jobs) /\ pending # <<>>
      /\ Head(pending) \in Jobs /\ Tail(pending) \in Seq(Jobs)
  <2>1. target[j] = None /\ q \in Jobs /\ pendingJobs[q] \in Seq(Jobs)
    BY QueueMaps DEF QueueJobForClient, IInv, TypeOK
  <2>2. pending \in Seq(Jobs) /\ pending # <<>>
    BY <2>1, InsertType
  <2> HIDE DEF pending
  <2>3. Head(pending) \in Jobs /\ Tail(pending) \in Seq(Jobs)
    BY <2>2
  <2> QED
    BY <2>1, <2>2, <2>3
<1>2. /\ processingLocks' = processingLocks \cup {c}
      /\ isProcessing' = [isProcessing EXCEPT ![q] = TRUE]
      /\ loop' = [loop EXCEPT ![j] = r]
      /\ pendingJobs' = [pendingJobs EXCEPT ![q] = Tail(pending)]
      /\ attempts' = [attempts EXCEPT ![Head(pending)] = @ + 1]
  BY DEF QueueJobForClient, ProcessClientQueue, Deliver
<1>3. r \in Activations /\ r.pc = "delivering" /\ r.queue = q /\ r.job \in Jobs
  BY <1>1 DEF Activations
<1> HIDE DEF r, pending, q
<1>4. QueueTypes' /\ attempts' \in [Jobs -> Nat]
  <2>1. attempts' \in [Jobs -> Nat]
    <3> DEFINE h == Head(pending)
    <3>1. h \in Jobs /\ attempts' = [attempts EXCEPT ![h] = @ + 1] /\ attempts \in [Jobs -> Nat]
      BY <1>1, <1>2 DEF IInv, TypeOK
    <3> HIDE DEF h
    <3> QED
      BY <3>1
  <2>2. pendingJobs' \in [Jobs -> Seq(Jobs)] /\ loop' \in [Jobs -> Activations]
    BY <1>1, <1>2, <1>3 DEF IInv, TypeOK
  <2>3. isProcessing' \in [Jobs -> BOOLEAN] /\ processingLocks' \in SUBSET Clients
    BY <1>2 DEF IInv, TypeOK
  <2> QED
    BY <2>1, <2>2, <2>3 DEF QueueTypes
<1>5. /\ loop'[j] = r /\ Running(j)'
      /\ \A w \in Jobs \ {j} : loop'[w] = loop[w] /\ (Running(w)' <=> Running(w))
  BY <1>2, <1>3 DEF Running, IInv, TypeOK
<1>6. \A w \in Jobs : Running(w) =>
          /\ w # j /\ loop[w].queue \in Jobs \ {j}
          /\ target'[w] = target[w]
          /\ target'[loop[w].queue] = target[loop[w].queue]
  BY <1>1, NewJob, QueueMaps DEF IInv, LoopPart, LoopsWell
<1>7. \A w \in Jobs : Running(w) => target[w] # c
  BY DEF Locked, IInv, LoopPart, LockDiscipline
<1>8. target'[j] = c /\ target'[q] = c
  BY QueueMaps DEF q
<1>9. LoopsWell'
  BY <1>1, <1>3, <1>5, <1>6, <1>8 DEF IInv, LoopPart, LoopsWell
<1>10. LockDiscipline'
  BY <1>2, <1>5, <1>6, <1>7, <1>8 DEF IInv, LoopPart, LockDiscipline
<1>11. Fresh'
  <2>1. \A k \in Jobs \ {j} : waitingJobs'[k] = waitingJobs[k] /\ target'[k] = target[k]
    BY WaitTypes, QueueMaps DEF QueueJobForClient
  <2>2. \A k \in Jobs : target'[k] = None => k # j /\ k # q
    BY <1>8, NoneIsNone
  <2> QED
    BY <1>1, <1>2, <2>1, <2>2 DEF IInv, LoopPart, Fresh, TypeOK
<1>12. FlagMatchesLoop'
  <2> SUFFICES ASSUME NEW d \in Clients, clientQueues'[d] # None
               PROVE  isProcessing'[clientQueues'[d]]
                        <=> \E w \in Jobs : Running(w)' /\ loop'[w].queue = clientQueues'[d]
    BY DEF FlagMatchesLoop
  <2>1. CASE d = c
    <3>1. clientQueues'[d] = q /\ isProcessing'[q]
      BY <1>1, <1>2, <2>1, QueueMaps DEF q, IInv, TypeOK
    <3> QED
      BY <1>3, <1>5, <3>1
  <2>2. CASE d # c
    <3>1. clientQueues'[d] = clientQueues[d] /\ clientQueues[d] \in Jobs
      <4>1. clientQueues'[d] = clientQueues[d]
        BY <2>2, QueueMaps
      <4>2. clientQueues[d] \in Jobs \cup {None}
        BY DEF IInv, TypeOK
      <4> QED
        BY <4>1, <4>2
    <3>2. clientQueues[d] # q /\ clientQueues[d] # j
      BY <1>1, <1>8, <2>2, <3>1, QueueMaps, NewJob DEF QueuesOwned
    <3>3. isProcessing'[clientQueues[d]] = isProcessing[clientQueues[d]]
      BY <1>2, <3>1, <3>2 DEF IInv, TypeOK
    <3>4. \A w \in Jobs : Running(w)' /\ loop'[w].queue = clientQueues[d]
                            <=> Running(w) /\ loop[w].queue = clientQueues[d]
      BY <1>3, <1>5, <1>6, <3>2
    <3> QED
      BY <3>1, <3>3, <3>4 DEF IInv, LoopPart, FlagMatchesLoop
  <2> QED
    BY <2>1, <2>2
<1> QED
  BY <1>4, <1>9, <1>10, <1>11, <1>12, QueueMaps DEF LoopPart

\* A request that is accepted, with the lock free or taken.
LEMMA QueueStep ==
    ASSUME IInv, NEW j \in Jobs, NEW c \in Clients, QueueJobForClient(j, c)
    PROVE  IInv'
<1>1. QueueTypes' /\ LoopPart' /\ attempts' \in [Jobs -> Nat]
  BY QueueLocked, QueueUnlocked
<1>2. /\ waitingJobs' \in [Jobs -> Clients \cup {None}]
      /\ clientJobCounts' \in [Clients -> Nat]
      /\ reply' \in [Jobs -> Replies]
  BY WaitTypes DEF QueueJobForClient
<1>3. UNCHANGED <<priority, late, timeouts, sent, outcome, clears>>
  BY DEF QueueJobForClient
<1>4. TypeOK'
  BY <1>1, <1>2, <1>3, QueueMaps DEF QueueTypes, IInv, TypeOK
<1> QED
  BY <1>1, <1>4 DEF IInv
-----------------------------------------------------------------------------
\* The listener's callback or the delivery timer, whichever ends a delivery.
LEMMA DeliveryStepPreserves ==
    ASSUME IInv, NEW w \in Jobs, DeliveryStep(w)
    PROVE  IInv'
<1>0. loop[w].pc = "delivering" => loop[w].job \in Jobs /\ pendingJobs[loop[w].queue] \in Seq(Jobs)
  BY DEF IInv, LoopPart, LoopsWell, Running, TypeOK
<1>1. ASSUME NEW reached \in BOOLEAN, DeliverySucceeds(w, reached) PROVE IInv'
  <2>1. QueueTypes' /\ LoopPart'
    BY <1>0, <1>1, AfterDeliveryPreserves DEF DeliverySucceeds, waitVars
  <2>2. outcome' \in [Jobs -> Outcomes] /\ sent' \in [Jobs -> Nat]
    <3> DEFINE j == loop[w].job
    <3>1. /\ j \in Jobs /\ sent \in [Jobs -> Nat] /\ outcome \in [Jobs -> Outcomes]
          /\ outcome' = [outcome EXCEPT ![j] = "delivered"]
          /\ sent' = [sent EXCEPT ![j] = IF reached THEN @ + 1 ELSE @]
      BY <1>0, <1>1 DEF DeliverySucceeds, Written, IInv, TypeOK
    <3> HIDE DEF j
    <3>2. outcome' \in [Jobs -> Outcomes]
      BY <3>1 DEF Outcomes
    <3>3. sent' \in [Jobs -> Nat]
      BY <3>1
    <3> QED
      BY <3>2, <3>3
  <2>3. TypeOK'
    BY <1>1, <2>1, <2>2 DEF DeliverySucceeds, waitVars, QueueTypes, IInv, TypeOK
  <2> QED
    BY <2>1, <2>3 DEF IInv
<1>2. ASSUME DeliveryRefused(w) PROVE IInv'
  <2>1. /\ QueueTypes' /\ LoopPart'
        /\ priority' \in [Jobs -> MinPriority .. 0]
        /\ outcome' \in [Jobs -> Outcomes]
    BY <1>2, DeliveryFailedPreserves DEF DeliveryRefused, waitVars
  <2>2. TypeOK'
    BY <1>2, <2>1 DEF DeliveryRefused, waitVars, QueueTypes, IInv, TypeOK
  <2> QED
    BY <2>1, <2>2 DEF IInv
<1>3. ASSUME DeliveryTimesOut(w) PROVE IInv'
  <2>1. /\ QueueTypes' /\ LoopPart'
        /\ priority' \in [Jobs -> MinPriority .. 0]
        /\ outcome' \in [Jobs -> Outcomes]
    BY <1>3, DeliveryFailedPreserves DEF DeliveryTimesOut, waitVars
  <2>2. late' \in [Jobs -> Nat] /\ timeouts' \in [Jobs -> Nat]
    <3> DEFINE j == loop[w].job
    <3>1. /\ j \in Jobs /\ late \in [Jobs -> Nat] /\ timeouts \in [Jobs -> Nat]
          /\ late' = [late EXCEPT ![j] = @ + 1]
          /\ timeouts' = [timeouts EXCEPT ![j] = @ + 1]
      BY <1>0, <1>3 DEF DeliveryTimesOut, IInv, TypeOK
    <3> HIDE DEF j
    <3> QED
      BY <3>1
  <2>3. TypeOK'
    BY <1>3, <2>1, <2>2 DEF DeliveryTimesOut, waitVars, QueueTypes, IInv, TypeOK
  <2> QED
    BY <2>1, <2>3 DEF IInv
<1> QED
  BY <1>1, <1>2, <1>3 DEF DeliveryStep

\* The loop wakes up after JOB_DELIVERY_DELAY.
LEMMA DelayStep ==
    ASSUME IInv, NEW w \in Jobs, DelayElapses(w)
    PROVE  IInv'
<1> DEFINE q == loop[w].queue
<1>1. /\ Running(w) /\ q \in Jobs /\ pendingJobs[q] \in Seq(Jobs)
      /\ UNCHANGED <<clientQueues, target, waitingJobs>>
  BY DEF DelayElapses, waitVars, Running, IInv, LoopPart, LoopsWell, TypeOK
<1>2. CASE pendingJobs[q] = <<>>
  <2>1. LeaveLoop(w) /\ UNCHANGED <<pendingJobs, attempts>>
    BY <1>2 DEF DelayElapses
  <2>2. LoopPart'
    BY <1>1, <2>1, LeavePreserves
  <2>3. QueueTypes'
    BY <2>1 DEF LeaveLoop, QueueTypes, IInv, TypeOK, Idle, Activations
  <2>4. TypeOK'
    BY <2>1, <2>3 DEF DelayElapses, waitVars, QueueTypes, IInv, TypeOK
  <2> QED
    BY <2>2, <2>4 DEF IInv
<1>3. CASE pendingJobs[q] # <<>>
  <2> DEFINE h == Head(pendingJobs[q])
             t == Tail(pendingJobs[q])
             r == [pc |-> "delivering", queue |-> q, job |-> h]
  <2>1. h \in Jobs /\ t \in Seq(Jobs)
    BY <1>1, <1>3
  <2>2. /\ loop' = [loop EXCEPT ![w] = r]
        /\ pendingJobs' = [pendingJobs EXCEPT ![q] = t]
        /\ attempts' = [attempts EXCEPT ![h] = @ + 1]
        /\ UNCHANGED <<isProcessing, processingLocks>>
    BY <1>3 DEF DelayElapses, Deliver
  <2>3. r \in Activations /\ r.pc = "delivering" /\ r.queue = q /\ r.job \in Jobs
    BY <1>1, <2>1 DEF Activations
  <2> HIDE DEF h, t, r
  <2>4. LoopPart'
    BY <1>1, <2>2, <2>3, StayPreserves
  <2>5. attempts' \in [Jobs -> Nat]
    BY <2>1, <2>2 DEF IInv, TypeOK
  <2>6. QueueTypes'
    BY <1>1, <2>1, <2>2, <2>3 DEF QueueTypes, IInv, TypeOK
  <2>7. TypeOK'
    BY <2>5, <2>6 DEF DelayElapses, waitVars, QueueTypes, IInv, TypeOK
  <2> QED
    BY <2>4, <2>7 DEF IInv
<1> QED
  BY <1>2, <1>3

\* A listener that outlived its timeout touches no queue.
LEMMA LateStep ==
    ASSUME IInv, NEW j \in Jobs, LateDelivery(j)
    PROVE  IInv'
<1>1. late' \in [Jobs -> Nat] /\ sent' \in [Jobs -> Nat]
  BY DEF LateDelivery, Written, IInv, TypeOK
<1>2. TypeOK'
  BY <1>1 DEF LateDelivery, queueVars, waitVars, IInv, TypeOK
<1>3. LoopPart'
  BY DEF LateDelivery, queueVars, waitVars, IInv, LoopPart, LoopsWell, QueuesOwned, Fresh,
         LockDiscipline, FlagMatchesLoop, Running
<1> QED
  BY <1>2, <1>3 DEF IInv
-----------------------------------------------------------------------------
\* Settling counts down, and no further than to zero.
LEMMA SettleTypes ==
    ASSUME IInv, NEW settled \in SUBSET Jobs, Settle(settled)
    PROVE  /\ waitingJobs' \in [Jobs -> Clients \cup {None}]
           /\ clientJobCounts' \in [Clients -> Nat]
           /\ reply' \in [Jobs -> Replies]
           /\ \A j \in Jobs : waitingJobs[j] = None => waitingJobs'[j] = None
<1>1. \A c \in Clients : Cardinality({j \in settled : waitingJobs[j] = c}) \in Nat
  BY FS_Subset, FS_CardinalityType, QueueAssumption
<1>2. \A c \in Clients :
        Decremented(clientJobCounts, c, Cardinality({j \in settled : waitingJobs[j] = c})) \in Nat
  BY <1>1 DEF Decremented, IInv, TypeOK
<1>3. clientJobCounts' \in [Clients -> Nat]
  BY <1>2 DEF Settle
<1> QED
  BY <1>3 DEF Settle, IInv, TypeOK, Replies

\* Settling alone does not touch the queues.
LEMMA SettlePreserves ==
    ASSUME IInv, NEW settled \in SUBSET Jobs, Settle(settled),
           UNCHANGED <<queueVars, wireVars, target, clears>>
    PROVE  IInv'
<1>1. TypeOK'
  BY SettleTypes DEF queueVars, wireVars, IInv, TypeOK
<1>2. Fresh'
  BY SettleTypes DEF queueVars, IInv, LoopPart, Fresh
<1>3. LoopsWell' /\ QueuesOwned' /\ LockDiscipline' /\ FlagMatchesLoop'
  BY DEF queueVars, IInv, LoopPart, LoopsWell, QueuesOwned, LockDiscipline, FlagMatchesLoop, Running
<1> QED
  BY <1>1, <1>2, <1>3 DEF IInv, LoopPart

\* cleanupStaleQueues removes only objects no loop works on.
LEMMA StaleStep ==
    ASSUME IInv, NEW c \in Clients, CleanupStaleQueue(c)
    PROVE  IInv'
<1>1. TypeOK'
  BY DEF CleanupStaleQueue, waitVars, wireVars, IInv, TypeOK
<1>2. LoopsWell' /\ Fresh' /\ LockDiscipline'
  BY DEF CleanupStaleQueue, waitVars, IInv, LoopPart, LoopsWell, Fresh, LockDiscipline, Running
<1>3. \A d \in Clients : clientQueues'[d] \in {clientQueues[d], None}
  BY DEF CleanupStaleQueue, IInv, TypeOK
<1>4. QueuesOwned'
  BY <1>3 DEF CleanupStaleQueue, IInv, LoopPart, QueuesOwned
<1>5. FlagMatchesLoop'
  BY <1>3 DEF CleanupStaleQueue, IInv, LoopPart, FlagMatchesLoop, Running
<1> QED
  BY <1>1, <1>2, <1>4, <1>5 DEF IInv, LoopPart

\* A clear leaves the lock to the suspended loop, and takes the flag off an
\* object that is in the map no more.
LEMMA ClearStep ==
    ASSUME IInv, NEW c \in Clients, ClearClientQueue(c)
    PROVE  IInv'
<1> DEFINE q == clientQueues[c]
           S == {j \in Jobs : waitingJobs[j] = c}
<1>1. Settle(S) /\ UNCHANGED <<processingLocks, priority, loop, wireVars, target>>
  BY DEF ClearClientQueue
<1>2. clears' \in 0 .. MaxClears
  BY QueueAssumption DEF ClearClientQueue, IInv, TypeOK
<1>3. /\ waitingJobs' \in [Jobs -> Clients \cup {None}]
      /\ clientJobCounts' \in [Clients -> Nat]
      /\ reply' \in [Jobs -> Replies]
      /\ \A j \in Jobs : waitingJobs[j] = None => waitingJobs'[j] = None
  BY <1>1, SettleTypes
<1>4. /\ pendingJobs' \in [Jobs -> Seq(Jobs)]
      /\ isProcessing' \in [Jobs -> BOOLEAN]
      /\ clientQueues' \in [Clients -> Jobs \cup {None}]
      /\ clientQueues'[c] = None
      /\ \A d \in Clients \ {c} : clientQueues'[d] = clientQueues[d]
      /\ \A k \in Jobs \ {q} : isProcessing'[k] = isProcessing[k]
      /\ q \in Jobs => ~ isProcessing'[q]
  <2>1. CASE q = None
    BY <2>1, NoneIsNone DEF ClearClientQueue, IInv, TypeOK
  <2>2. CASE q # None
    <3>1. /\ pendingJobs' = [pendingJobs EXCEPT ![q] = <<>>]
          /\ isProcessing' = [isProcessing EXCEPT ![q] = FALSE]
          /\ clientQueues' = [clientQueues EXCEPT ![c] = None]
      BY <2>2 DEF ClearClientQueue
    <3>2. q \in Jobs /\ <<>> \in Seq(Jobs)
      BY <2>2 DEF IInv, TypeOK
    <3>3. pendingJobs' \in [Jobs -> Seq(Jobs)]
      BY <3>1, <3>2 DEF IInv, TypeOK
    <3>4. /\ isProcessing' \in [Jobs -> BOOLEAN] /\ ~ isProcessing'[q]
          /\ \A k \in Jobs \ {q} : isProcessing'[k] = isProcessing[k]
      BY <3>1, <3>2 DEF IInv, TypeOK
    <3>5. /\ clientQueues' \in [Clients -> Jobs \cup {None}] /\ clientQueues'[c] = None
          /\ \A d \in Clients \ {c} : clientQueues'[d] = clientQueues[d]
      BY <3>1 DEF IInv, TypeOK
    <3> QED
      BY <3>3, <3>4, <3>5
  <2> QED
    BY <2>1, <2>2
<1>5. TypeOK'
  BY <1>1, <1>2, <1>3, <1>4 DEF wireVars, IInv, TypeOK
<1>6. LoopsWell' /\ LockDiscipline'
  BY <1>1 DEF IInv, LoopPart, LoopsWell, LockDiscipline, Running
<1>7. QueuesOwned'
  BY <1>1, <1>4 DEF IInv, LoopPart, QueuesOwned
<1>8. Fresh'
  BY <1>1, <1>3, <1>4 DEF IInv, LoopPart, Fresh
<1>9. FlagMatchesLoop'
  <2>1. \A d \in Clients \ {c} : clientQueues[d] # None => clientQueues[d] # q
    BY DEF IInv, LoopPart, QueuesOwned
  <2> SUFFICES ASSUME NEW d \in Clients, clientQueues'[d] # None
               PROVE  isProcessing'[clientQueues'[d]]
                        <=> \E w \in Jobs : Running(w)' /\ loop'[w].queue = clientQueues'[d]
    BY DEF FlagMatchesLoop
  <2>2. d # c /\ clientQueues'[d] = clientQueues[d] /\ clientQueues[d] \in Jobs \ {q}
    BY <1>4, <2>1 DEF IInv, TypeOK
  <2>3. isProcessing'[clientQueues[d]] = isProcessing[clientQueues[d]]
    BY <1>4, <2>2
  <2> QED
    BY <1>1, <2>2, <2>3 DEF IInv, LoopPart, FlagMatchesLoop, Running
<1> QED
  BY <1>5, <1>6, <1>7, <1>8, <1>9 DEF IInv, LoopPart
-----------------------------------------------------------------------------
\* Every step preserves the invariant.
LEMMA NextIInv == IInv /\ [Next]_vars => IInv'
<1> SUFFICES ASSUME IInv, [Next]_vars PROVE IInv'
  OBVIOUS
<1>1. CASE UNCHANGED vars
  BY <1>1 DEF vars, queueVars, waitVars, wireVars, IInv, LoopPart, TypeOK, LoopsWell, QueuesOwned,
              Fresh, LockDiscipline, FlagMatchesLoop, Running
<1>2. ASSUME NEW j \in Jobs, NEW c \in Clients, RefuseJob(j, c) \/ QueueJobForClient(j, c)
      PROVE  IInv'
  BY <1>2, RefuseStep, QueueStep
<1>3. ASSUME NEW w \in Jobs, DeliveryStep(w) \/ DelayElapses(w) PROVE IInv'
  BY <1>3, DeliveryStepPreserves, DelayStep
<1>4. ASSUME NEW j \in Jobs, LateDelivery(j) PROVE IInv'
  BY <1>4, LateStep
<1>5. ASSUME NEW j \in Jobs, JobCompleted(j) \/ WaitTimesOut(j) PROVE IInv'
  BY <1>5, SettlePreserves DEF JobCompleted, WaitTimesOut
<1>6. ASSUME NEW overdue \in SUBSET Jobs, CleanupOrphanedJobs(overdue) PROVE IInv'
  BY <1>6, SettlePreserves DEF CleanupOrphanedJobs
<1>7. ASSUME NEW c \in Clients, CleanupStaleQueue(c) \/ ClearClientQueue(c) PROVE IInv'
  BY <1>7, StaleStep, ClearStep
<1> QED
  BY <1>1, <1>2, <1>3, <1>4, <1>5, <1>6, <1>7 DEF Next

\* The invariant holds in every reachable state.
LEMMA IInvHolds == Spec => []IInv
BY InitIInv, NextIInv, PTL DEF Spec

\* The maps, queue objects and loops stay well formed, and a failing job's
\* priority stays at or above the drop limit, for any limit.
THEOREM TypeCorrect == Spec => []TypeOK
<1>1. IInv => TypeOK
  BY DEF IInv
<1> QED
  BY <1>1, IInvHolds, PTL

\* "Prevent concurrent processing of the same client's queue": whatever timers,
\* answers, clears and cleanups interleave, a client's lock is held exactly
\* while one processClientQueue, and no other, works for it.
THEOREM OneLoopPerClient == Spec => []LockDiscipline
<1>1. IInv => LockDiscipline
  BY DEF IInv, LoopPart
<1> QED
  BY <1>1, IInvHolds, PTL

\* cleanupStaleQueues may trust isProcessing: for every queue object in the
\* map it says whether a loop works on it, also when clears replaced objects
\* while their loops were suspended.
THEOREM FlagIsTrue == Spec => []FlagMatchesLoop
<1>1. IInv => FlagMatchesLoop
  BY DEF IInv, LoopPart
<1> QED
  BY <1>1, IInvHolds, PTL

\* Both of them: processClientQueue and cleanupStaleQueues go by what is true.
THEOREM LoopsTracked == Spec => []LoopsAreTracked
<1>1. IInv => LoopsAreTracked
  BY DEF IInv, LoopPart, LoopsAreTracked
<1> QED
  BY <1>1, IInvHolds, PTL
-----------------------------------------------------------------------------
\* The jobs a client is waited for.
WaitingFor(c) == {j \in Jobs : waitingJobs[j] = c}

\* waitForJobCompletion counts up by the one promise it adds.
LEMMA WaitCounts ==
    ASSUME IInv, CountMatchesWaiting, NEW j \in Jobs, NEW c \in Clients, QueueJobForClient(j, c)
    PROVE  CountMatchesWaiting'
<1>1. /\ waitingJobs' = [waitingJobs EXCEPT ![j] = c]
      /\ clientJobCounts' = [clientJobCounts EXCEPT ![c] = @ + 1]
      /\ waitingJobs[j] = None
  BY DEF QueueJobForClient, WaitForJobCompletion, IInv, LoopPart, Fresh
<1> SUFFICES ASSUME NEW d \in Clients
             PROVE  clientJobCounts'[d] = Cardinality(WaitingFor(d)')
  BY DEF CountMatchesWaiting, WaitingFor
<1>2. clientJobCounts[d] = Cardinality(WaitingFor(d)) /\ IsFiniteSet(WaitingFor(d))
  BY FS_Subset, QueueAssumption DEF CountMatchesWaiting, WaitingFor
<1>3. CASE d = c
  <2>1. WaitingFor(d)' = WaitingFor(d) \cup {j} /\ j \notin WaitingFor(d)
    BY <1>1, <1>3, NoneIsNone DEF WaitingFor, IInv, TypeOK
  <2>2. Cardinality(WaitingFor(d)') = Cardinality(WaitingFor(d)) + 1
    BY <1>2, <2>1, FS_AddElement
  <2> QED
    BY <1>1, <1>2, <1>3, <2>2 DEF IInv, TypeOK
<1>4. CASE d # c
  <2>1. WaitingFor(d)' = WaitingFor(d)
    BY <1>1, <1>4, NoneIsNone DEF WaitingFor, IInv, TypeOK
  <2> QED
    BY <1>1, <1>2, <1>4, <2>1 DEF IInv, TypeOK
<1> QED
  BY <1>3, <1>4

\* Settling promises counts down by exactly those of the client.
LEMMA SettleCounts ==
    ASSUME IInv, CountMatchesWaiting, NEW settled \in SUBSET Jobs, Settle(settled)
    PROVE  CountMatchesWaiting'
<1> SUFFICES ASSUME NEW c \in Clients
             PROVE  clientJobCounts'[c] = Cardinality(WaitingFor(c)')
  BY DEF CountMatchesWaiting, WaitingFor
<1> DEFINE S == WaitingFor(c)
           T == {j \in settled : waitingJobs[j] = c}
<1>1. T \subseteq S /\ IsFiniteSet(S) /\ IsFiniteSet(T)
  BY FS_Subset, QueueAssumption DEF WaitingFor
<1>2. WaitingFor(c)' = S \ T
  BY NoneIsNone DEF Settle, WaitingFor
<1>3. Cardinality(S \ T) = Cardinality(S) - Cardinality(T)
  <2>1. Cardinality(S \ T) = Cardinality(S) - Cardinality(S \cap T)
    BY <1>1, FS_Difference
  <2>2. S \cap T = T
    BY <1>1
  <2> QED
    BY <2>1, <2>2
<1>4. Cardinality(S) \in Nat /\ Cardinality(T) \in Nat /\ Cardinality(T) <= Cardinality(S)
  BY <1>1, FS_CardinalityType, FS_Subset
<1>5. clientJobCounts[c] = Cardinality(S)
  BY DEF CountMatchesWaiting, WaitingFor
<1>6. clientJobCounts'[c] = Decremented(clientJobCounts, c, Cardinality(T))
  BY DEF Settle
<1> QED
  BY <1>2, <1>3, <1>4, <1>5, <1>6 DEF Decremented

\* Every step keeps the counts exact.
LEMMA NextCounts == IInv /\ CountMatchesWaiting /\ [Next]_vars => CountMatchesWaiting'
<1> SUFFICES ASSUME IInv, CountMatchesWaiting, [Next]_vars PROVE CountMatchesWaiting'
  OBVIOUS
<1>1. ASSUME UNCHANGED <<waitingJobs, clientJobCounts>> PROVE CountMatchesWaiting'
  BY <1>1 DEF CountMatchesWaiting
<1>2. CASE UNCHANGED vars
  BY <1>1, <1>2 DEF vars, waitVars
<1>3. ASSUME NEW j \in Jobs, NEW c \in Clients, RefuseJob(j, c) \/ QueueJobForClient(j, c)
      PROVE  CountMatchesWaiting'
  BY <1>1, <1>3, WaitCounts DEF RefuseJob
<1>4. ASSUME NEW w \in Jobs, DeliveryStep(w) \/ DelayElapses(w) PROVE CountMatchesWaiting'
  BY <1>1, <1>4 DEF DeliveryStep, DeliverySucceeds, DeliveryRefused, DeliveryTimesOut,
                    DelayElapses, waitVars
<1>5. ASSUME NEW j \in Jobs, LateDelivery(j) \/ JobCompleted(j) \/ WaitTimesOut(j)
      PROVE  CountMatchesWaiting'
  BY <1>1, <1>5, SettleCounts DEF LateDelivery, JobCompleted, WaitTimesOut, waitVars
<1>6. ASSUME NEW overdue \in SUBSET Jobs, CleanupOrphanedJobs(overdue)
      PROVE  CountMatchesWaiting'
  BY <1>6, SettleCounts DEF CleanupOrphanedJobs
<1>7. ASSUME NEW c \in Clients, CleanupStaleQueue(c) PROVE CountMatchesWaiting'
  BY <1>1, <1>7 DEF CleanupStaleQueue, waitVars
<1>8. ASSUME NEW c \in Clients, ClearClientQueue(c) PROVE CountMatchesWaiting'
  BY <1>8, SettleCounts DEF ClearClientQueue
<1> QED
  BY <1>2, <1>3, <1>4, <1>5, <1>6, <1>7, <1>8 DEF Next

\* clientJobCounts is kept by hand: counted up by waitForJobCompletion, down
\* "if > 0" by its timer, resolveJobCompletion and rejectJobCompletion, deleted
\* by clearClientQueue.  It always is the number of promises that wait for the
\* client, for any number of jobs: the "if > 0" is never needed.
THEOREM CountIsExact == Spec => []CountMatchesWaiting
<1>1. Init => CountMatchesWaiting
  <2> SUFFICES ASSUME Init PROVE CountMatchesWaiting
    OBVIOUS
  <2>1. \A c \in Clients : clientJobCounts[c] = 0 /\ {j \in Jobs : waitingJobs[j] = c} = {}
    BY NoneIsNone DEF Init
  <2> QED
    BY <2>1, FS_EmptySet DEF CountMatchesWaiting
<1> QED
  BY <1>1, IInvHolds, NextCounts, PTL DEF Spec

-----------------------------------------------------------------------------
(***************************************************************************)
(* Queues as sequences without repetition.                                 *)
(***************************************************************************)

\* What stands at a place of a sequence is in it.
LEMMA PlaceInRange ==
    ASSUME NEW s \in Seq(Jobs)
    PROVE  \A i \in 1 .. Len(s) : s[i] \in Range(s)
<1>1. DOMAIN s = 1 .. Len(s)
  OBVIOUS
<1> QED
  BY <1>1 DEF Range

\* What is in a sequence stands at one of its places.
LEMMA RangeHasPlace ==
    ASSUME NEW s \in Seq(Jobs)
    PROVE  \A k \in Range(s) : \E i \in 1 .. Len(s) : s[i] = k
<1>1. DOMAIN s = 1 .. Len(s)
  OBVIOUS
<1> QED
  BY <1>1 DEF Range

\* A queue has only jobs.
LEMMA RangeInJobs ==
    ASSUME NEW s \in Seq(Jobs), NEW k \in Range(s)
    PROVE  k \in Jobs
<1>1. PICK i \in 1 .. Len(s) : s[i] = k
  BY RangeHasPlace
<1> QED
  BY <1>1

\* No repetition, in terms of places.
LEMMA InjectiveSeq ==
    ASSUME NEW s \in Seq(Jobs)
    PROVE  /\ IsInjective(s) => \A a, b \in 1 .. Len(s) : s[a] = s[b] => a = b
           /\ (\A a, b \in 1 .. Len(s) : s[a] = s[b] => a = b) => IsInjective(s)
<1>1. DOMAIN s = 1 .. Len(s)
  OBVIOUS
<1> QED
  BY <1>1, Zenon DEF IsInjective

\* Shifting the first job off a queue.
LEMMA Shifted ==
    ASSUME NEW s \in Seq(Jobs), s # <<>>, IsInjective(s)
    PROVE  /\ Head(s) \in Range(s) /\ Tail(s) \in Seq(Jobs)
           /\ Range(Tail(s)) = Range(s) \ {Head(s)}
           /\ IsInjective(Tail(s)) /\ Len(Tail(s)) = Len(s) - 1
<1> DEFINE t == Tail(s)
<1>1. /\ t \in Seq(Jobs) /\ Len(t) = Len(s) - 1 /\ Len(s) \in Nat \ {0}
      /\ \A i \in 1 .. Len(t) : t[i] = s[i + 1]
      /\ Head(s) = s[1]
  BY HeadTailProperties
<1> HIDE DEF t
<1>2. /\ \A k \in Range(s) : \E i \in 1 .. Len(s) : s[i] = k
      /\ \A i \in 1 .. Len(s) : s[i] \in Range(s)
  BY PlaceInRange, RangeHasPlace
<1>8. /\ \A k \in Range(t) : \E i \in 1 .. Len(t) : t[i] = k
      /\ \A i \in 1 .. Len(t) : t[i] \in Range(t)
  BY <1>1, PlaceInRange, RangeHasPlace
<1>0. \A a, b \in 1 .. Len(s) : s[a] = s[b] => a = b
  BY InjectiveSeq
<1>3. Head(s) \in Range(s)
  BY <1>1, <1>2
<1>4. ASSUME NEW k \in Range(t) PROVE k \in Range(s) /\ k # Head(s)
  <2>1. PICK i \in 1 .. Len(t) : t[i] = k
    BY <1>8
  <2>2. i + 1 \in 1 .. Len(s) /\ s[i + 1] = k /\ i + 1 # 1 /\ 1 \in 1 .. Len(s)
    BY <1>1, <2>1
  <2> QED
    BY <1>0, <1>1, <1>2, <2>2
<1>5. ASSUME NEW k \in Range(s), k # Head(s) PROVE k \in Range(t)
  <2>1. PICK i \in 1 .. Len(s) : s[i] = k
    BY <1>2
  <2>2. i # 1 /\ i - 1 \in 1 .. Len(t) /\ (i - 1) + 1 = i
    BY <1>1, <1>5, <2>1
  <2>3. t[i - 1] = k
    BY <1>1, <2>1, <2>2
  <2> QED
    BY <1>8, <2>2, <2>3
<1>6. Range(t) = Range(s) \ {Head(s)}
  BY <1>4, <1>5
<1>7. IsInjective(t)
  <2>1. ASSUME NEW a \in 1 .. Len(t), NEW b \in 1 .. Len(t), t[a] = t[b] PROVE a = b
    <3>1. a + 1 \in 1 .. Len(s) /\ b + 1 \in 1 .. Len(s) /\ s[a + 1] = s[b + 1]
      BY <1>1, <2>1
    <3> QED
      BY <1>0, <3>1
  <2> QED
    BY <1>1, <2>1, InjectiveSeq
<1> QED
  BY <1>1, <1>3, <1>6, <1>7 DEF t

\* t is queue s with a job added after its first p jobs.
AddedAfter(s, j, p, t) ==
    /\ Len(t) = Len(s) + 1
    /\ \A i \in 1 .. Len(s) + 1 :
          t[i] = IF i <= p THEN s[i] ELSE IF i = p + 1 THEN j ELSE s[i - 1]

\* A queue with a job added between two parts of it, in front or at the end.
LEMMA Inserted ==
    ASSUME NEW s \in Seq(Jobs), IsInjective(s), NEW j \in Jobs, j \notin Range(s),
           NEW p \in 0 .. Len(s), NEW t \in Seq(Jobs), AddedAfter(s, j, p, t)
    PROVE  Range(t) = Range(s) \cup {j} /\ IsInjective(t) /\ t # <<>>
<1> USE DEF AddedAfter
<1>1. /\ \A k \in Range(s) : \E i \in 1 .. Len(s) : s[i] = k
      /\ \A i \in 1 .. Len(s) : s[i] \in Range(s)
      /\ Len(s) \in Nat
  BY PlaceInRange, RangeHasPlace
<1>7. /\ \A k \in Range(t) : \E i \in 1 .. Len(t) : t[i] = k
      /\ \A i \in 1 .. Len(t) : t[i] \in Range(t)
  BY PlaceInRange, RangeHasPlace
<1>0. \A a, b \in 1 .. Len(s) : s[a] = s[b] => a = b
  BY InjectiveSeq
<1>2. ASSUME NEW i \in 1 .. Len(t)
      PROVE  \/ i <= p /\ i \in 1 .. Len(s) /\ t[i] = s[i]
             \/ i = p + 1 /\ t[i] = j
             \/ i > p + 1 /\ i - 1 \in 1 .. Len(s) /\ t[i] = s[i - 1]
  BY <1>1
<1>3. ASSUME NEW k \in Range(t) PROVE k \in Range(s) \cup {j}
  <2>1. PICK i \in 1 .. Len(t) : t[i] = k
    BY <1>7
  <2> QED
    BY <1>1, <1>2, <2>1
<1>4. ASSUME NEW k \in Range(s) PROVE k \in Range(t)
  <2>1. PICK i \in 1 .. Len(s) : s[i] = k
    BY <1>1
  <2>2. CASE i <= p
    <3>1. i \in 1 .. Len(t) /\ t[i] = s[i]
      BY <1>1, <2>1, <2>2
    <3> QED
      BY <1>7, <2>1, <3>1
  <2>3. CASE i > p
    <3>1. i + 1 \in 1 .. Len(t) /\ t[i + 1] = s[i]
      BY <1>1, <2>1, <2>3
    <3> QED
      BY <1>7, <2>1, <3>1
  <2> QED
    BY <2>2, <2>3
<1>5. j \in Range(t)
  <2>1. p + 1 \in 1 .. Len(t) /\ t[p + 1] = j
    BY <1>1
  <2> QED
    BY <1>7, <2>1
<1>6. IsInjective(t)
  <2>1. ASSUME NEW a \in 1 .. Len(t), NEW b \in 1 .. Len(t), t[a] = t[b] PROVE a = b
    <3>1. \A i \in 1 .. Len(s) : s[i] # j
      BY <1>1
    <3>2. CASE a = p + 1 \/ b = p + 1
      <4>1. t[a] = j => a = p + 1
        BY <1>2, <3>1
      <4>2. t[b] = j => b = p + 1
        BY <1>2, <3>1
      <4>3. t[p + 1] = j
        BY <1>1
      <4> QED
        BY <2>1, <3>2, <4>1, <4>2, <4>3
    <3>3. CASE a <= p /\ b <= p
      BY <1>0, <1>2, <2>1, <3>3
    <3>4. CASE a <= p /\ b > p + 1
      <4>1. s[a] = s[b - 1] /\ a \in 1 .. Len(s) /\ b - 1 \in 1 .. Len(s)
        BY <1>2, <2>1, <3>4
      <4>2. a = b - 1
        BY <1>0, <4>1
      <4> QED
        BY <3>4, <4>2
    <3>5. CASE b <= p /\ a > p + 1
      <4>1. s[b] = s[a - 1] /\ b \in 1 .. Len(s) /\ a - 1 \in 1 .. Len(s)
        BY <1>2, <2>1, <3>5
      <4>2. b = a - 1
        BY <1>0, <4>1
      <4> QED
        BY <3>5, <4>2
    <3>6. CASE a > p + 1 /\ b > p + 1
      <4>1. s[b - 1] = s[a - 1] /\ b - 1 \in 1 .. Len(s) /\ a - 1 \in 1 .. Len(s)
        BY <1>2, <2>1, <3>6
      <4>2. b - 1 = a - 1
        BY <1>0, <4>1
      <4> QED
        BY <2>1, <4>2
    <3> QED
      BY <1>1, <3>2, <3>3, <3>4, <3>5, <3>6
  <2> QED
    BY <1>1, <2>1, InjectiveSeq
<1> QED
  BY <1>3, <1>4, <1>5, <1>6

\* Putting a job back in front of a queue.
LEMMA PutBack ==
    ASSUME NEW s \in Seq(Jobs), IsInjective(s), NEW j \in Jobs, j \notin Range(s)
    PROVE  /\ Cons(j, s) \in Seq(Jobs) /\ Cons(j, s) # <<>>
           /\ Range(Cons(j, s)) = Range(s) \cup {j}
           /\ IsInjective(Cons(j, s)) /\ Len(Cons(j, s)) = Len(s) + 1
<1> DEFINE t == Cons(j, s)
<1>1. <<j>> \in Seq(Jobs) /\ Len(<<j>>) = 1 /\ <<j>>[1] = j /\ Len(s) \in Nat
  OBVIOUS
<1>2. t = <<j>> \o s
  BY DEF Cons
<1>3. /\ t \in Seq(Jobs) /\ Len(t) = 1 + Len(s)
      /\ \A i \in 1 .. 1 + Len(s) : t[i] = IF i <= 1 THEN <<j>>[i] ELSE s[i - 1]
  BY <1>1, <1>2, ConcatProperties
<1> HIDE DEF t
<1>4. 0 \in 0 .. Len(s) /\ AddedAfter(s, j, 0, t)
  BY <1>1, <1>3 DEF AddedAfter
<1>5. Range(t) = Range(s) \cup {j} /\ IsInjective(t) /\ t # <<>>
  BY <1>3, <1>4, Inserted
<1> QED
  BY <1>1, <1>3, <1>5 DEF t

\* Inserting a job by its priority.
LEMMA InsertedByPriority ==
    ASSUME NEW s \in Seq(Jobs), IsInjective(s), NEW j \in Jobs, j \notin Range(s)
    PROVE  LET t == InsertByPriority(s, j)
           IN  /\ t \in Seq(Jobs) /\ t # <<>> /\ Range(t) = Range(s) \cup {j}
               /\ IsInjective(t) /\ Len(t) = Len(s) + 1
<1> DEFINE I == {k \in 1 .. Len(s) : priority[s[k]] < priority[j]}
           n == IF I # {} THEN Min(I) ELSE 0
           t == InsertByPriority(s, j)
<1>1. n \in 0 .. Len(s) /\ Len(s) \in Nat
  <2>1. I \in SUBSET Nat
    OBVIOUS
  <2>2. I # {} => Min(I) \in I
    BY <2>1, MinType
  <2> QED
    BY <2>2
<1>2. t = IF n = 0 THEN Append(s, j) ELSE InsertAt(s, n, j)
  BY DEF InsertByPriority, SelectInSeq
<1> HIDE DEF n, t
<1>3. CASE n = 0
  <2>1. /\ t \in Seq(Jobs) /\ Len(t) = Len(s) + 1 /\ Len(s) \in 0 .. Len(s)
        /\ \A i \in 1 .. Len(s) + 1 : t[i] = IF i <= Len(s) THEN s[i] ELSE j
    BY <1>1, <1>2, <1>3
  <2>2. \A i \in 1 .. Len(s) + 1 :
            t[i] = IF i <= Len(s) THEN s[i] ELSE IF i = Len(s) + 1 THEN j ELSE s[i - 1]
    BY <1>1, <2>1
  <2>3. Range(t) = Range(s) \cup {j} /\ IsInjective(t) /\ t # <<>>
    <3>1. PICK p \in 0 .. Len(s) : p = Len(s)
      BY <2>1
    <3>2. AddedAfter(s, j, p, t)
      BY <2>1, <2>2, <3>1 DEF AddedAfter
    <3> QED
      BY <2>1, <3>2, Inserted
  <2> QED
    BY <2>1, <2>3 DEF t
<1>4. CASE n # 0
  <2> DEFINE a == SubSeq(s, 1, n - 1)
             b == SubSeq(s, n, Len(s))
             o == <<j>>
  <2>1. /\ a \in Seq(Jobs) /\ Len(a) = n - 1 /\ \A i \in 1 .. n - 1 : a[i] = s[i]
        /\ b \in Seq(Jobs) /\ Len(b) = Len(s) - n + 1
        /\ \A i \in 1 .. Len(s) - n + 1 : b[i] = s[n + i - 1]
    BY <1>1, <1>4
  <2>2. t = (a \o o) \o b
    BY <1>2, <1>4 DEF InsertAt
  <2>3. o \in Seq(Jobs) /\ Len(o) = 1 /\ o[1] = j
    OBVIOUS
  <2> HIDE DEF a, b, o
  <2>4. /\ a \o o \in Seq(Jobs) /\ Len(a \o o) = n
        /\ \A i \in 1 .. n : (a \o o)[i] = IF i <= n - 1 THEN a[i] ELSE o[i - (n - 1)]
    <3>1. (n - 1) + 1 = n
      BY <1>1
    <3>2. /\ a \o o \in Seq(Jobs) /\ Len(a \o o) = Len(a) + Len(o)
          /\ \A i \in 1 .. Len(a) + Len(o) :
                (a \o o)[i] = IF i <= Len(a) THEN a[i] ELSE o[i - Len(a)]
      BY <2>1, <2>3, ConcatProperties
    <3>3. Len(a) = n - 1 /\ Len(o) = 1 /\ Len(a) + Len(o) = n
      BY <2>1, <2>3, <3>1
    <3> QED
      BY <3>2, <3>3
  <2>5. \A i \in 1 .. n : (a \o o)[i] = IF i <= n - 1 THEN s[i] ELSE j
    <3> SUFFICES ASSUME NEW i \in 1 .. n
                 PROVE  (a \o o)[i] = IF i <= n - 1 THEN s[i] ELSE j
      OBVIOUS
    <3>1. CASE i <= n - 1
      <4>1. i \in 1 .. n - 1
        BY <1>1, <3>1
      <4> QED
        BY <2>1, <2>4, <3>1, <4>1
    <3>2. CASE i = n
      <4>1. ~ (i <= n - 1) /\ i - (n - 1) = 1
        BY <1>1, <1>4, <3>2
      <4>2. (a \o o)[i] = o[1]
        BY <2>4, <4>1
      <4> QED
        BY <2>3, <4>1, <4>2
    <3>3. i <= n - 1 \/ i = n
      BY <1>1
    <3> QED
      BY <3>1, <3>2, <3>3
  <2>6. /\ t \in Seq(Jobs) /\ Len(t) = Len(s) + 1
        /\ \A i \in 1 .. Len(s) + 1 : t[i] = IF i <= n THEN (a \o o)[i] ELSE b[i - n]
    <3> DEFINE e == a \o o
    <3>1. e \in Seq(Jobs) /\ Len(e) = n /\ t = e \o b
      BY <2>2, <2>4
    <3> HIDE DEF e
    <3>2. n + Len(b) = Len(s) + 1 /\ b \in Seq(Jobs)
      BY <1>1, <2>1
    <3>3. /\ t \in Seq(Jobs) /\ Len(t) = Len(s) + 1
          /\ \A i \in 1 .. Len(s) + 1 : t[i] = IF i <= n THEN e[i] ELSE b[i - n]
      BY <3>1, <3>2, ConcatProperties
    <3> QED
      BY <3>3 DEF e
  <2>7. n - 1 \in 0 .. Len(s)
    BY <1>1, <1>4
  <2>8. \A i \in 1 .. Len(s) + 1 :
            t[i] = IF i <= n - 1 THEN s[i] ELSE IF i = (n - 1) + 1 THEN j ELSE s[i - 1]
    <3> SUFFICES ASSUME NEW i \in 1 .. Len(s) + 1
                 PROVE  t[i] = IF i <= n - 1 THEN s[i] ELSE IF i = (n - 1) + 1 THEN j ELSE s[i - 1]
      OBVIOUS
    <3>1. CASE i <= n
      <4>1. i \in 1 .. n /\ (i <= n - 1 \/ i = (n - 1) + 1)
        BY <1>1, <3>1
      <4>2. t[i] = IF i <= n - 1 THEN s[i] ELSE j
        BY <2>5, <2>6, <3>1, <4>1
      <4> QED
        BY <1>1, <4>1, <4>2
    <3>2. CASE i > n
      <4>1. i - n \in 1 .. Len(s) - n + 1 /\ n + (i - n) - 1 = i - 1
        BY <1>1, <3>2
      <4>2. b[i - n] = s[i - 1]
        BY <2>1, <4>1
      <4> QED
        BY <1>1, <2>6, <3>2, <4>2
    <3> QED
      BY <1>1, <3>1, <3>2
  <2>9. Range(t) = Range(s) \cup {j} /\ IsInjective(t) /\ t # <<>>
    <3>1. PICK p \in 0 .. Len(s) : p = n - 1
      BY <2>7
    <3>2. AddedAfter(s, j, p, t)
      BY <2>6, <2>8, <3>1 DEF AddedAfter
    <3> QED
      BY <2>6, <3>2, Inserted
  <2> QED
    BY <2>6, <2>9 DEF t
<1> QED
  BY <1>3, <1>4
-----------------------------------------------------------------------------
(***************************************************************************)
(* Where a job is.                                                         *)
(***************************************************************************)
BeingDelivered == {k \in Jobs : \E w \in Jobs : loop[w].job = k}
Queued == {k \in Jobs : \E q \in Jobs : k \in Range(pendingJobs[q])}

\* Only a loop that delivers has a job, and no other loop has it.
JobsOut ==
    /\ \A w \in Jobs : loop[w].pc # "delivering" => loop[w].job = None
    /\ \A v, w \in Jobs : loop[v].job = loop[w].job /\ loop[v].job # None => v = w
    /\ \A w \in Jobs : loop[w].job # None => target[loop[w].job] = target[w]

\* A queue object has jobs of the client it was created for, each once, none
\* that another object has or that is being delivered.
JobsQueued ==
    /\ \A q \in Jobs : IsInjective(pendingJobs[q])
    /\ \A q, r \in Jobs : \A k \in Range(pendingJobs[q]) : k \in Range(pendingJobs[r]) => q = r
    /\ \A q, w \in Jobs : loop[w].job \notin Range(pendingJobs[q])
    /\ \A q \in Jobs : \A k \in Range(pendingJobs[q]) :
          target[k] = target[q] /\ target[q] \in Clients

\* The queue is not done with a job it has, and did not refuse it.
NotDoneWith ==
    \A k \in Queued \cup BeingDelivered :
        outcome[k] = "none" /\ target[k] # None /\ reply[k] # "refused"

\* Nothing happened to a job that was not queued; a refused one is not awaited.
Untouched ==
    /\ \A k \in Jobs : target[k] = None =>
          /\ pendingJobs[k] = <<>> /\ outcome[k] = "none" /\ reply[k] = "none"
          /\ attempts[k] = 0 /\ priority[k] = 0
    /\ \A k \in Jobs : waitingJobs[k] # None => target[k] # None /\ reply[k] # "refused"

\* Every failed attempt took one from the priority.
TriesCounted ==
    \A k \in Jobs : outcome[k] = "none" =>
        attempts[k] + priority[k] = IF k \in BeingDelivered THEN 1 ELSE 0

\* Every queue object keeps room for the job that is out and may be put back.
DeliversFrom(q) == \E w \in Jobs : loop[w].queue = q /\ loop[w].pc = "delivering"
RoomKept ==
    \A q \in Jobs :
        /\ Len(pendingJobs[q]) <= MaxQueueSize + 1
        /\ DeliversFrom(q) => Len(pendingJobs[q]) <= MaxQueueSize

\* Until an operator clears a queue, an accepted job the queue is not done with
\* is in it or being delivered.
NoneLost ==
    clears = 0 => \A k \in Jobs :
        Accepted(k) /\ outcome[k] = "none" => k \in Queued \cup BeingDelivered

PlacesPart == JobsOut /\ JobsQueued /\ NotDoneWith /\ Untouched /\ TriesCounted /\ RoomKept /\ NoneLost

\* Loop w, which becomes a, takes and gives jobs, from and to the queue object
\* q, which becomes s.  The jobs N were nowhere before.
Move(w, a, q, s, N) ==
    /\ loop' = [loop EXCEPT ![w] = a] /\ pendingJobs' = [pendingJobs EXCEPT ![q] = s]
    /\ N \cap (Queued \cup BeingDelivered) = {} /\ IsInjective(s)
    /\ \A k \in Range(s) : k \in Range(pendingJobs[q]) \/ k \in N \/ k = loop[w].job
    /\ a.job \in Range(pendingJobs[q]) \/ a.job \in N \/ a.job = loop[w].job \/ a.job = None
    /\ a.job \notin Range(s)
    /\ a.pc # "delivering" => a.job = None
    /\ target'[q] \in Clients /\ target'[w] = target'[q]
    /\ \A k \in Jobs : target[k] # None => target'[k] = target[k]
    /\ \A k \in N : target'[k] = target'[q]
    /\ loop[w].job # None => loop[w].queue = q

\* Every job is in one place again, and where it is told.
LEMMA Moved ==
    ASSUME IInv, JobsOut, JobsQueued,
           NEW q \in Jobs, NEW w \in Jobs, NEW N \in SUBSET Jobs,
           NEW s \in Seq(Jobs), NEW a \in Activations, Move(w, a, q, s, N)
    PROVE  /\ JobsOut' /\ JobsQueued'
           /\ Queued' = (Queued \ Range(pendingJobs[q])) \cup Range(s)
           /\ BeingDelivered' = (BeingDelivered \ {loop[w].job}) \cup ({a.job} \ {None})
<1> USE DEF Move
<1>0. /\ \A r \in Jobs : pendingJobs[r] \in Seq(Jobs)
      /\ \A v \in Jobs : loop[v].job \in Jobs \cup {None}
      /\ a.job \in Jobs \cup {None}
      /\ \A k \in Jobs : target[k] \in Clients \cup {None}
      /\ None \notin Jobs /\ None \notin Clients
  <2>1. \A b \in Activations : b.job \in Jobs \cup {None}
    BY DEF Activations
  <2> QED
    BY <2>1, NoneIsNone DEF IInv, TypeOK
<1>1. /\ pendingJobs'[q] = s /\ \A r \in Jobs : r # q => pendingJobs'[r] = pendingJobs[r]
      /\ loop'[w] = a /\ \A v \in Jobs : v # w => loop'[v] = loop[v]
  BY DEF IInv, TypeOK
<1>2. /\ \A r \in Jobs : \A k \in Range(pendingJobs[r]) : k \in Jobs
      /\ \A k \in Range(s) : k \in Jobs
  BY <1>0, RangeInJobs
<1>3. /\ \A k \in N : \A r \in Jobs : k \notin Range(pendingJobs[r])
      /\ \A k \in N : \A v \in Jobs : loop[v].job # k
  BY DEF Queued, BeingDelivered
<1>4. \A v \in Jobs : loop[v].job # None => target[v] \in Clients /\ target[loop[v].queue] = target[v]
  BY DEF JobsOut, IInv, LoopPart, LoopsWell, Running
<1>5. \A k \in Jobs : k \in Range(pendingJobs[q]) \/ k \in N \/ k = loop[w].job =>
          target'[k] = target'[q]
  <2>1. ASSUME NEW k \in Jobs, k \in Range(pendingJobs[q]) PROVE target'[k] = target'[q]
    BY <1>0, <2>1 DEF JobsQueued
  <2>2. ASSUME NEW k \in Jobs, k = loop[w].job PROVE target'[k] = target'[q]
    <3>1. target[k] = target[w] /\ target[w] \in Clients /\ target[q] = target[w]
      BY <1>0, <1>4, <2>2 DEF JobsOut
    <3> QED
      BY <1>0, <3>1
  <2> QED
    BY <2>1, <2>2
<1>6. JobsOut'
  <2>1. \A v \in Jobs : loop'[v].pc # "delivering" => loop'[v].job = None
    BY <1>1 DEF JobsOut
  <2>2. ASSUME NEW v \in Jobs, NEW u \in Jobs, loop'[v].job = loop'[u].job, loop'[v].job # None
        PROVE  v = u
    <3>1. \A x \in Jobs : x # w => loop[x].job # a.job \/ a.job = None
      BY <1>3 DEF JobsOut, JobsQueued
    <3>2. CASE v # w /\ u # w
      BY <1>1, <2>2, <3>2 DEF JobsOut
    <3> QED
      BY <1>1, <2>2, <3>1, <3>2
  <2>3. ASSUME NEW v \in Jobs, loop'[v].job # None
        PROVE  target'[loop'[v].job] = target'[v]
    <3>1. CASE v = w
      BY <1>0, <1>1, <1>5, <2>3, <3>1
    <3>2. CASE v # w
      <4>1. loop'[v] = loop[v] /\ target[loop[v].job] = target[v] /\ target[v] \in Clients
        BY <1>1, <1>4, <2>3, <3>2 DEF JobsOut
      <4> QED
        BY <1>0, <2>3, <4>1
    <3> QED
      BY <3>1, <3>2
  <2> QED
    BY <2>1, <2>2, <2>3 DEF JobsOut
<1>7. JobsQueued'
  <2>1. \A r \in Jobs : IsInjective(pendingJobs'[r])
    BY <1>1 DEF JobsQueued
  <2>2. ASSUME NEW r \in Jobs, r # q, NEW k \in Range(pendingJobs[r]) PROVE k \notin Range(s)
    <3>1. k \notin N /\ k # loop[w].job /\ k \notin Range(pendingJobs[q])
      BY <1>3, <2>2 DEF JobsQueued
    <3> QED
      BY <3>1
  <2>3. ASSUME NEW r \in Jobs, NEW x \in Jobs, NEW k \in Range(pendingJobs'[r]),
               k \in Range(pendingJobs'[x])
        PROVE  r = x
    <3>1. CASE r # q /\ x # q
      BY <1>1, <2>3, <3>1 DEF JobsQueued
    <3> QED
      BY <1>1, <2>2, <2>3, <3>1
  <2>4. ASSUME NEW r \in Jobs, NEW v \in Jobs PROVE loop'[v].job \notin Range(pendingJobs'[r])
    <3>1. CASE v = w /\ r = q
      BY <1>1, <3>1
    <3>2. CASE v = w /\ r # q
      <4>1. pendingJobs'[r] = pendingJobs[r] /\ loop'[v].job = a.job
        BY <1>1, <3>2
      <4>2. None \notin Range(pendingJobs[r])
        BY <1>0, <1>2
      <4>3. Range(pendingJobs[r]) \cap Range(pendingJobs[q]) = {}
        BY <3>2 DEF JobsQueued
      <4>4. N \cap Range(pendingJobs[r]) = {} /\ loop[w].job \notin Range(pendingJobs[r])
        BY <1>3 DEF JobsQueued
      <4> QED
        BY <4>1, <4>2, <4>3, <4>4
    <3>3. CASE v # w /\ r = q
      <4>1. loop'[v].job = loop[v].job /\ pendingJobs'[r] = s
        BY <1>1, <3>3
      <4>2. loop[v].job # None => loop[v].job # loop[w].job
        BY <3>3 DEF JobsOut
      <4>3. loop[v].job \notin Range(pendingJobs[q]) /\ loop[v].job \notin N
        BY <1>3 DEF JobsQueued
      <4> QED
        BY <1>0, <1>2, <4>1, <4>2, <4>3
    <3>4. CASE v # w /\ r # q
      BY <1>1, <3>4 DEF JobsQueued
    <3> QED
      BY <3>1, <3>2, <3>3, <3>4
  <2>5. ASSUME NEW r \in Jobs, NEW k \in Range(pendingJobs'[r])
        PROVE  target'[k] = target'[r] /\ target'[r] \in Clients
    <3>1. CASE r = q
      BY <1>1, <1>2, <1>5, <2>5, <3>1
    <3>2. CASE r # q
      <4>1. k \in Range(pendingJobs[r]) /\ k \in Jobs
        BY <1>1, <1>2, <3>2
      <4>2. target[k] = target[r] /\ target[r] \in Clients
        BY <4>1 DEF JobsQueued
      <4> QED
        BY <1>0, <4>1, <4>2
    <3> QED
      BY <3>1, <3>2
  <2> QED
    BY <2>1, <2>3, <2>4, <2>5 DEF JobsQueued
<1>8. Queued' = (Queued \ Range(pendingJobs[q])) \cup Range(s)
  <2>1. ASSUME NEW k \in Jobs, k \in Queued'
        PROVE  (k \in Queued /\ k \notin Range(pendingJobs[q])) \/ k \in Range(s)
    <3>1. PICK r \in Jobs : k \in Range(pendingJobs'[r])
      BY <2>1 DEF Queued
    <3> QED
      BY <1>1, <3>1 DEF Queued, JobsQueued
  <2>2. ASSUME NEW k \in Jobs,
               (k \in Queued /\ k \notin Range(pendingJobs[q])) \/ k \in Range(s)
        PROVE  k \in Queued'
    <3>1. CASE k \in Range(s)
      BY <1>1, <3>1 DEF Queued
    <3>2. CASE k \in Queued /\ k \notin Range(pendingJobs[q])
      <4>1. PICK r \in Jobs : k \in Range(pendingJobs[r])
        BY <3>2 DEF Queued
      <4> QED
        BY <1>1, <3>2, <4>1 DEF Queued
    <3> QED
      BY <2>2, <3>1, <3>2
  <2>3. Queued \subseteq Jobs /\ Queued' \subseteq Jobs
    BY DEF Queued
  <2> QED
    BY <1>2, <2>1, <2>2, <2>3
<1>9. BeingDelivered' = (BeingDelivered \ {loop[w].job}) \cup ({a.job} \ {None})
  <2>1. ASSUME NEW k \in Jobs
        PROVE  k \in BeingDelivered'
                 <=> (k \in BeingDelivered /\ k # loop[w].job) \/ k = a.job
    <3>1. k = a.job => k \in BeingDelivered'
      BY <1>1 DEF BeingDelivered
    <3>2. ASSUME k \in BeingDelivered, k # loop[w].job PROVE k \in BeingDelivered'
      BY <1>1, <3>2 DEF BeingDelivered
    <3>3. ASSUME k \in BeingDelivered', k # a.job PROVE k \in BeingDelivered /\ k # loop[w].job
      <4>1. PICK v \in Jobs : loop'[v].job = k
        BY <3>3 DEF BeingDelivered
      <4>2. v # w /\ loop[v].job = k /\ k # None
        BY <1>0, <1>1, <3>3, <4>1
      <4> QED
        BY <4>2 DEF BeingDelivered, JobsOut
    <3> QED
      BY <3>1, <3>2, <3>3
  <2>2. BeingDelivered \subseteq Jobs /\ BeingDelivered' \subseteq Jobs
    BY DEF BeingDelivered
  <2> QED
    BY <1>0, <2>1, <2>2
<1> QED
  BY <1>6, <1>7, <1>8, <1>9
-----------------------------------------------------------------------------
\* Two loops do not work on one queue object.
LEMMA OneLoopPerQueue ==
    ASSUME IInv, NEW v \in Jobs, NEW w \in Jobs, Running(v), Running(w), loop[v].queue = loop[w].queue
    PROVE  v = w
BY DEF IInv, LoopPart, LoopsWell, LockDiscipline

\* What a loop that delivers works with.
LEMMA LoopHasJob ==
    ASSUME IInv, PlacesPart, NEW w \in Jobs, loop[w].pc = "delivering"
    PROVE  /\ Running(w) /\ loop[w].queue \in Jobs /\ target[loop[w].queue] = target[w]
           /\ loop[w].job \in BeingDelivered /\ target[loop[w].job] = target[w]
           /\ target[w] \in Clients /\ DeliversFrom(loop[w].queue)
<1>1. /\ Running(w) /\ loop[w].queue \in Jobs /\ target[loop[w].queue] = target[w]
      /\ loop[w].job \in Jobs /\ target[w] \in Clients
  BY DEF IInv, LoopPart, LoopsWell, Running
<1> QED
  BY <1>1, NoneIsNone DEF PlacesPart, JobsOut, BeingDelivered, DeliversFrom

\* What a queue object has is queued.
LEMMA InQueueIsQueued ==
    ASSUME IInv, NEW q \in Jobs
    PROVE  Range(pendingJobs[q]) \subseteq Queued
<1>1. pendingJobs[q] \in Seq(Jobs)
  BY DEF IInv, TypeOK
<1>2. \A k \in Range(pendingJobs[q]) : k \in Jobs
  BY <1>1, RangeInJobs
<1> QED
  BY <1>2 DEF Queued

\* A job nobody queued yet is nowhere.
LEMMA NewJobNowhere ==
    ASSUME PlacesPart, NEW j \in Jobs, target[j] = None
    PROVE  /\ j \notin Queued /\ j \notin BeingDelivered /\ pendingJobs[j] = <<>>
           /\ outcome[j] = "none" /\ reply[j] = "none" /\ attempts[j] = 0 /\ priority[j] = 0
BY DEF PlacesPart, NotDoneWith, Untouched

\* The queue a request finds, with its job.
LEMMA QueuePending ==
    ASSUME IInv, PlacesPart, NEW j \in Jobs, NEW c \in Clients, QueueJobForClient(j, c)
    PROVE  LET q == QueueFor(c, j)
               s == InsertByPriority(pendingJobs[q], j)
           IN  /\ q \in Jobs /\ s \in Seq(Jobs) /\ s # <<>> /\ IsInjective(s)
               /\ Range(s) = Range(pendingJobs[q]) \cup {j}
               /\ Len(s) = Len(pendingJobs[q]) + 1 /\ Len(s) <= MaxQueueSize
               /\ \A k \in Jobs : target[k] # None => target'[k] = target[k]
               /\ target'[j] = c /\ target'[q] = c /\ loop[j].job = None
<1> DEFINE q == QueueFor(c, j)
           s == InsertByPriority(pendingJobs[q], j)
<1>1. q \in Jobs /\ pendingJobs[q] \in Seq(Jobs) /\ target[j] = None /\ ~ IsFull(c)
  BY QueueMaps DEF QueueJobForClient, IInv, TypeOK
<1>2. j \notin Range(pendingJobs[q]) /\ IsInjective(pendingJobs[q])
  BY <1>1, NewJobNowhere DEF Queued, PlacesPart, JobsQueued
<1>3. /\ s \in Seq(Jobs) /\ s # <<>> /\ Range(s) = Range(pendingJobs[q]) \cup {j}
      /\ IsInjective(s) /\ Len(s) = Len(pendingJobs[q]) + 1
  BY <1>1, <1>2, InsertedByPriority
<1>4. Len(pendingJobs[q]) < MaxQueueSize
  <2>1. CASE clientQueues[c] = None
    <3>1. q = j /\ Len(pendingJobs[q]) = 0
      BY <1>1, <2>1, NewJobNowhere DEF QueueFor
    <3> QED
      BY <3>1, QueueAssumption
  <2>2. CASE clientQueues[c] # None
    BY <1>1, <2>2, QueueAssumption DEF QueueFor, IsFull
  <2> QED
    BY <2>1, <2>2
<1>5. /\ \A k \in Jobs : target[k] # None => target'[k] = target[k]
      /\ target'[j] = c /\ target'[q] = c
  BY <1>1, QueueMaps
<1>6. loop[j].job = None
  BY <1>1, NewJob DEF PlacesPart, JobsOut, Running
<1> HIDE DEF s
<1>7. Len(s) <= MaxQueueSize
  BY <1>1, <1>3, <1>4, QueueAssumption
<1> QED
  BY <1>1, <1>3, <1>5, <1>6, <1>7 DEF s

\* A request that finds the client's lock taken leaves its job in the queue.
LEMMA QueueLockedMoves ==
    ASSUME IInv, PlacesPart, NEW j \in Jobs, NEW c \in Clients, QueueJobForClient(j, c), Locked(c)
    PROVE  /\ JobsOut' /\ JobsQueued' /\ RoomKept'
           /\ Queued' = Queued \cup {j} /\ BeingDelivered' = BeingDelivered
           /\ attempts' = attempts /\ pendingJobs'[QueueFor(c, j)] # <<>>
           /\ \A r \in Jobs : r # QueueFor(c, j) => pendingJobs'[r] = pendingJobs[r]
<1>1. PICK q \in Jobs : q = QueueFor(c, j)
  BY QueuePending
<1>2. PICK s \in Seq(Jobs) : s = InsertByPriority(pendingJobs[q], j)
  BY <1>1, QueuePending
<1>3. /\ s # <<>> /\ IsInjective(s) /\ Range(s) = Range(pendingJobs[q]) \cup {j}
      /\ Len(s) <= MaxQueueSize
      /\ \A k \in Jobs : target[k] # None => target'[k] = target[k]
      /\ target'[j] = c /\ target'[q] = c /\ loop[j].job = None
  BY <1>1, <1>2, QueuePending
<1>4. pendingJobs' = [pendingJobs EXCEPT ![q] = s] /\ UNCHANGED <<loop, attempts>> /\ target[j] = None
  BY <1>1, <1>2 DEF QueueJobForClient, ProcessClientQueue
<1>5. PICK a \in Activations : a = loop[j]
  BY DEF IInv, TypeOK
<1>6. loop' = [loop EXCEPT ![j] = a] /\ a.job = None
  BY <1>3, <1>4, <1>5 DEF IInv, TypeOK
<1>7. j \notin Queued /\ j \notin BeingDelivered
  BY <1>4, NewJobNowhere
<1>8. /\ JobsOut' /\ JobsQueued'
      /\ Queued' = (Queued \ Range(pendingJobs[q])) \cup Range(s)
      /\ BeingDelivered' = (BeingDelivered \ {loop[j].job}) \cup ({a.job} \ {None})
  <2>1. PICK N \in SUBSET Jobs : N = {j}
    OBVIOUS
  <2>2. N \cap (Queued \cup BeingDelivered) = {}
    BY <1>7, <2>1
  <2>3. /\ a.job \notin Range(s) /\ (a.pc # "delivering" => a.job = None)
        /\ loop[j].job # None => loop[j].queue = q
    BY <1>3, <1>6, NoneIsNone, RangeInJobs
  <2>4. JobsOut /\ JobsQueued
    BY DEF PlacesPart
  <2>5. \A k \in N : target'[k] = target'[q]
    BY <1>3, <2>1
  <2>6. target'[q] \in Clients /\ target'[j] = target'[q]
    BY <1>3
  <2>7. \A k \in Range(s) : k \in Range(pendingJobs[q]) \/ k \in N \/ k = loop[j].job
    BY <1>3, <2>1
  <2>8. a.job \in Range(pendingJobs[q]) \/ a.job \in N \/ a.job = loop[j].job \/ a.job = None
    BY <1>6
  <2>9. Move(j, a, q, s, N)
    BY <1>3, <1>4, <1>6, <2>2, <2>3, <2>5, <2>6, <2>7, <2>8 DEF Move
  <2> QED
    BY <2>4, <2>9, Moved, ZenonT(40)
<1>9. Queued' = Queued \cup {j} /\ BeingDelivered' = BeingDelivered
  <2>1. Range(pendingJobs[q]) \subseteq Queued
    BY InQueueIsQueued
  <2>2. None \notin BeingDelivered
    BY NoneIsNone DEF BeingDelivered
  <2> QED
    BY <1>3, <1>6, <1>8, <2>1, <2>2
<1>10. RoomKept'
  <2>1. ASSUME NEW r \in Jobs
        PROVE  /\ Len(pendingJobs'[r]) <= MaxQueueSize + 1
               /\ DeliversFrom(r)' => Len(pendingJobs'[r]) <= MaxQueueSize
    <3>1. DeliversFrom(r)' <=> DeliversFrom(r)
      BY <1>4 DEF DeliversFrom
    <3>2. CASE r = q
      <4>1. pendingJobs'[r] = s
        BY <1>4, <3>2 DEF IInv, TypeOK
      <4>2. Len(s) \in Nat
        OBVIOUS
      <4> QED
        BY <1>3, <4>1, <4>2, QueueAssumption
    <3>3. CASE r # q
      BY <1>4, <3>1, <3>3 DEF PlacesPart, RoomKept, IInv, TypeOK
    <3> QED
      BY <3>2, <3>3
  <2> QED
    BY <2>1 DEF RoomKept
<1>11. pendingJobs'[q] # <<>> /\ \A r \in Jobs : r # q => pendingJobs'[r] = pendingJobs[r]
  BY <1>3, <1>4 DEF IInv, TypeOK
<1> QED
  BY <1>1, <1>4, <1>8, <1>9, <1>10, <1>11
-----------------------------------------------------------------------------
\* The loop takes the first job of its queue object.
Takes(h) ==
    /\ attempts' = [attempts EXCEPT ![h] = @ + 1]
    /\ BeingDelivered' = BeingDelivered \cup {h}

\* A loop that was not delivering takes the first job of queue object q, whose
\* jobs now are s: those it had and the jobs N.
Brings(w, q, s, N) ==
    /\ Deliver(w, q, s) /\ s # <<>> /\ IsInjective(s) /\ loop[w].job = None
    /\ Range(s) = Range(pendingJobs[q]) \cup N /\ N \cap (Queued \cup BeingDelivered) = {}
    /\ target'[q] \in Clients /\ target'[w] = target'[q]
    /\ \A k \in Jobs : target[k] # None => target'[k] = target[k]
    /\ \A k \in N : target'[k] = target'[q]
    /\ Len(s) <= MaxQueueSize + 1

LEMMA DeliverMoves ==
    ASSUME IInv, PlacesPart, NEW w \in Jobs, NEW q \in Jobs, NEW s \in Seq(Jobs), NEW N \in SUBSET Jobs,
           Brings(w, q, s, N)
    PROVE  /\ JobsOut' /\ JobsQueued' /\ RoomKept'
           /\ Head(s) \in Jobs /\ Head(s) \in Range(s) /\ Takes(Head(s))
           /\ Queued' = (Queued \cup N) \ {Head(s)}
           /\ \A r \in Jobs : r # q => pendingJobs'[r] = pendingJobs[r]
<1> USE DEF Brings
<1>1. PICK t \in Seq(Jobs) : t = Tail(s)
  BY Shifted
<1>2. PICK h \in Jobs : h = Head(s)
  BY Shifted, RangeInJobs
<1>3. /\ h \in Range(s) /\ Range(t) = Range(s) \ {h} /\ IsInjective(t) /\ Len(t) = Len(s) - 1
      /\ h \notin Range(t)
  BY <1>1, <1>2, Shifted
<1>4. PICK a \in Activations : a = [pc |-> "delivering", queue |-> q, job |-> h]
  BY DEF Activations
<1>5. /\ loop' = [loop EXCEPT ![w] = a] /\ pendingJobs' = [pendingJobs EXCEPT ![q] = t]
      /\ attempts' = [attempts EXCEPT ![h] = @ + 1]
      /\ a.pc = "delivering" /\ a.queue = q /\ a.job = h
  BY <1>1, <1>2, <1>4 DEF Deliver
<1>6. /\ JobsOut' /\ JobsQueued'
      /\ Queued' = (Queued \ Range(pendingJobs[q])) \cup Range(t)
      /\ BeingDelivered' = (BeingDelivered \ {loop[w].job}) \cup ({a.job} \ {None})
  <2>1. Move(w, a, q, t, N)
    BY <1>3, <1>5 DEF Move
  <2> QED
    BY <2>1, Moved DEF PlacesPart
<1>7. Queued' = (Queued \cup N) \ {h} /\ BeingDelivered' = BeingDelivered \cup {h}
  <2>1. Range(pendingJobs[q]) \subseteq Queued
    BY InQueueIsQueued
  <2>2. None \notin BeingDelivered /\ h # None
    BY NoneIsNone DEF BeingDelivered
  <2>3. BeingDelivered' = BeingDelivered \cup {h}
    BY <1>5, <1>6, <2>2
  <2>4. h \notin Queued \/ h \in Range(pendingJobs[q])
    BY <1>3
  <2>5. Queued' = (Queued \cup N) \ {h}
    BY <1>3, <1>6, <2>1, <2>4
  <2> QED
    BY <2>3, <2>5
<1>8. pendingJobs'[q] = t /\ \A r \in Jobs : r # q => pendingJobs'[r] = pendingJobs[r]
  BY <1>5 DEF IInv, TypeOK
<1>9. RoomKept'
  <2>1. ASSUME NEW r \in Jobs
        PROVE  /\ Len(pendingJobs'[r]) <= MaxQueueSize + 1
               /\ DeliversFrom(r)' => Len(pendingJobs'[r]) <= MaxQueueSize
    <3>1. CASE r = q
      <4>1. Len(t) <= MaxQueueSize /\ Len(t) \in Nat
        BY <1>3, QueueAssumption
      <4> QED
        BY <1>8, <3>1, <4>1, QueueAssumption
    <3>2. CASE r # q
      <4>1. DeliversFrom(r)' => DeliversFrom(r)
        BY <1>5, <3>2 DEF DeliversFrom, IInv, TypeOK
      <4> QED
        BY <1>8, <3>2, <4>1 DEF PlacesPart, RoomKept
    <3> QED
      BY <3>1, <3>2
  <2> QED
    BY <2>1 DEF RoomKept
<1> QED
  BY <1>2, <1>3, <1>5, <1>6, <1>7, <1>8, <1>9 DEF Takes

\* A request that finds the lock free starts a loop with the first job of the queue.
LEMMA QueueUnlockedMoves ==
    ASSUME IInv, PlacesPart, NEW j \in Jobs, NEW c \in Clients, QueueJobForClient(j, c), ~ Locked(c)
    PROVE  /\ JobsOut' /\ JobsQueued' /\ RoomKept'
           /\ \A r \in Jobs : r # QueueFor(c, j) => pendingJobs'[r] = pendingJobs[r]
           /\ \E h \in Jobs : /\ h = j \/ (h \in Queued /\ target[h] = c)
                              /\ Takes(h) /\ Queued' = (Queued \cup {j}) \ {h}
<1>1. PICK q \in Jobs : q = QueueFor(c, j)
  BY QueuePending
<1>2. PICK s \in Seq(Jobs) : s = InsertByPriority(pendingJobs[q], j)
  BY <1>1, QueuePending
<1>3. /\ s # <<>> /\ IsInjective(s) /\ Range(s) = Range(pendingJobs[q]) \cup {j}
      /\ Len(s) <= MaxQueueSize
      /\ \A k \in Jobs : target[k] # None => target'[k] = target[k]
      /\ target'[j] = c /\ target'[q] = c /\ loop[j].job = None
  BY <1>1, <1>2, QueuePending
<1>4. Deliver(j, q, s) /\ target[j] = None
  BY <1>1, <1>2 DEF QueueJobForClient, ProcessClientQueue
<1>5. PICK N \in SUBSET Jobs : N = {j}
  OBVIOUS
<1>6. Len(s) \in Nat /\ Len(s) <= MaxQueueSize + 1
  BY <1>3, QueueAssumption
<1>7. N \cap (Queued \cup BeingDelivered) = {}
  BY <1>4, <1>5, NewJobNowhere
<1>8. /\ target'[q] \in Clients /\ target'[j] = target'[q] /\ \A k \in N : target'[k] = target'[q]
      /\ Range(s) = Range(pendingJobs[q]) \cup N
  BY <1>3, <1>5
<1>9. /\ JobsOut' /\ JobsQueued' /\ RoomKept'
      /\ Head(s) \in Jobs /\ Head(s) \in Range(s) /\ Takes(Head(s))
      /\ Queued' = (Queued \cup N) \ {Head(s)}
      /\ \A r \in Jobs : r # q => pendingJobs'[r] = pendingJobs[r]
  <2>1. Brings(j, q, s, N)
    BY <1>3, <1>4, <1>6, <1>7, <1>8 DEF Brings
  <2> QED
    BY <2>1, DeliverMoves
<1>10. Head(s) = j \/ (Head(s) \in Queued /\ target[Head(s)] = c)
  <2>1. ASSUME Head(s) # j PROVE Head(s) \in Queued /\ target[Head(s)] = c
    <3>1. Head(s) \in Range(pendingJobs[q])
      BY <1>3, <1>9, <2>1
    <3>2. target[Head(s)] = target[q] /\ target[q] \in Clients
      BY <3>1 DEF PlacesPart, JobsQueued
    <3>3. target[q] = c
      BY <1>3, <3>2, NoneIsNone
    <3> QED
      BY <3>1, <3>2, <3>3, InQueueIsQueued
  <2> QED
    BY <2>1
<1> QED
  BY <1>1, <1>5, <1>9, <1>10

\* After JOB_DELIVERY_DELAY a loop goes on with the first job left.
LEMMA DelayMoves ==
    ASSUME IInv, PlacesPart, NEW w \in Jobs, DelayElapses(w), pendingJobs[loop[w].queue] # <<>>
    PROVE  /\ JobsOut' /\ JobsQueued' /\ RoomKept'
           /\ \A r \in Jobs : r # loop[w].queue => pendingJobs'[r] = pendingJobs[r]
           /\ target[w] \in Clients /\ target[loop[w].queue] = target[w]
           /\ \E h \in Queued : target[h] = target[w] /\ Takes(h) /\ Queued' = Queued \ {h}
<1>1. /\ loop[w].queue \in Jobs /\ target[loop[w].queue] = target[w] /\ target[w] \in Clients
      /\ loop[w].job = None
  BY DEF DelayElapses, IInv, LoopPart, LoopsWell, Running, PlacesPart, JobsOut
<1>2. PICK q \in Jobs : q = loop[w].queue
  BY <1>1
<1>3. PICK s \in Seq(Jobs) : s = pendingJobs[q]
  BY DEF IInv, TypeOK
<1>4. /\ Deliver(w, q, s) /\ target' = target /\ s # <<>>
      /\ IsInjective(s) /\ Len(s) <= MaxQueueSize + 1
  BY <1>2, <1>3 DEF DelayElapses, PlacesPart, JobsQueued, RoomKept
<1>5. PICK N \in SUBSET Jobs : N = {}
  OBVIOUS
<1>6. /\ Range(s) = Range(pendingJobs[q]) \cup N /\ N \cap (Queued \cup BeingDelivered) = {}
      /\ target'[q] \in Clients /\ target'[w] = target'[q] /\ \A k \in N : target'[k] = target'[q]
      /\ \A k \in Jobs : target[k] # None => target'[k] = target[k]
  BY <1>1, <1>2, <1>3, <1>4, <1>5
<1>7. /\ JobsOut' /\ JobsQueued' /\ RoomKept'
      /\ Head(s) \in Jobs /\ Head(s) \in Range(s) /\ Takes(Head(s))
      /\ Queued' = (Queued \cup N) \ {Head(s)}
      /\ \A r \in Jobs : r # q => pendingJobs'[r] = pendingJobs[r]
  <2>1. Brings(w, q, s, N)
    BY <1>1, <1>2, <1>4, <1>6 DEF Brings
  <2> QED
    BY <2>1, DeliverMoves
<1>8. Head(s) \in Queued /\ target[Head(s)] = target[w]
  <2>1. Head(s) \in Range(pendingJobs[q]) /\ target[w] = target[q]
    BY <1>1, <1>2, <1>3, <1>7
  <2>2. target[Head(s)] = target[q]
    BY <2>1 DEF PlacesPart, JobsQueued
  <2> QED
    BY <2>1, <2>2, InQueueIsQueued
<1> QED
  BY <1>1, <1>2, <1>5, <1>7, <1>8
-----------------------------------------------------------------------------
\* After a delivery the loop has no job; the job may be back in the queue.
LEMMA AfterMoves ==
    ASSUME IInv, PlacesPart, NEW w \in Jobs, loop[w].pc = "delivering", NEW s \in Seq(Jobs),
           AfterDelivery(w, s), IsInjective(s), Len(s) <= MaxQueueSize + 1, target' = target,
           Range(s) = Range(pendingJobs[loop[w].queue])
             \/ Range(s) = Range(pendingJobs[loop[w].queue]) \cup {loop[w].job}
    PROVE  /\ JobsOut' /\ JobsQueued' /\ RoomKept'
           /\ Queued' = Queued \cup Range(s) /\ BeingDelivered' = BeingDelivered \ {loop[w].job}
           /\ \A r \in Jobs : r # loop[w].queue => pendingJobs'[r] = pendingJobs[r]
<1>1. /\ Running(w) /\ loop[w].queue \in Jobs /\ target[loop[w].queue] = target[w]
      /\ loop[w].job \in BeingDelivered /\ target[w] \in Clients
  BY LoopHasJob
<1>2. PICK q \in Jobs : q = loop[w].queue
  BY <1>1
<1>3. PICK a \in Activations :
          loop' = [loop EXCEPT ![w] = a] /\ a.job = None /\ a.pc # "delivering"
  <2>1. [pc |-> "delaying", queue |-> q, job |-> None] \in Activations /\ Idle \in Activations
    BY DEF Activations, Idle
  <2>2. CASE s # <<>>
    BY <1>2, <2>1, <2>2 DEF AfterDelivery
  <2>3. CASE s = <<>>
    <3>1. loop' = [loop EXCEPT ![w] = Idle]
      BY <2>3 DEF AfterDelivery, LeaveLoop
    <3> QED
      BY <2>1, <3>1 DEF Idle
  <2> QED
    BY <2>2, <2>3
<1>4. pendingJobs' = [pendingJobs EXCEPT ![q] = s]
  BY <1>2 DEF AfterDelivery
<1>5. /\ pendingJobs'[q] = s /\ \A r \in Jobs : r # q => pendingJobs'[r] = pendingJobs[r]
      /\ loop'[w] = a /\ \A v \in Jobs : v # w => loop'[v] = loop[v]
  BY <1>3, <1>4 DEF IInv, TypeOK
<1>6. PICK N \in SUBSET Jobs : N = {}
  OBVIOUS
<1>7. /\ JobsOut' /\ JobsQueued'
      /\ Queued' = (Queued \ Range(pendingJobs[q])) \cup Range(s)
      /\ BeingDelivered' = (BeingDelivered \ {loop[w].job}) \cup ({a.job} \ {None})
  <2>1. a.job \notin Range(s)
    BY <1>3, RangeInJobs, NoneIsNone
  <2>2. N \cap (Queued \cup BeingDelivered) = {} /\ \A k \in N : target'[k] = target'[q]
    BY <1>6
  <2>3. \A k \in Range(s) : k \in Range(pendingJobs[q]) \/ k \in N \/ k = loop[w].job
    BY <1>2
  <2>4. Move(w, a, q, s, N)
    BY <1>1, <1>2, <1>3, <1>4, <2>1, <2>2, <2>3 DEF Move
  <2> QED
    <3>1. JobsOut /\ JobsQueued
      BY DEF PlacesPart
    <3> QED
      BY <2>4, <3>1, Moved, ZenonT(60)
<1>8. Queued' = Queued \cup Range(s) /\ BeingDelivered' = BeingDelivered \ {loop[w].job}
  <2>1. Range(pendingJobs[q]) \subseteq Queued /\ Range(pendingJobs[q]) \subseteq Range(s)
    BY <1>2, InQueueIsQueued
  <2>2. Queued' = Queued \cup Range(s)
    BY <1>7, <2>1
  <2> QED
    BY <1>3, <1>7, <2>2
<1>9. RoomKept'
  <2>1. ASSUME NEW r \in Jobs
        PROVE  /\ Len(pendingJobs'[r]) <= MaxQueueSize + 1
               /\ DeliversFrom(r)' => Len(pendingJobs'[r]) <= MaxQueueSize
    <3>1. CASE r = q
      <4>1. ~ DeliversFrom(q)'
        <5> SUFFICES ASSUME NEW v \in Jobs, loop'[v].queue = q, loop'[v].pc = "delivering"
                     PROVE  FALSE
          BY DEF DeliversFrom
        <5>1. v # w
          BY <1>3, <1>5
        <5>2. Running(v) /\ loop[v].queue = q
          BY <1>5, <5>1 DEF Running
        <5> QED
          BY <1>1, <1>2, <5>1, <5>2, OneLoopPerQueue
      <4> QED
        BY <1>5, <3>1, <4>1
    <3>2. CASE r # q
      <4>1. DeliversFrom(r)' => DeliversFrom(r)
        BY <1>3, <1>5 DEF DeliversFrom
      <4> QED
        BY <1>5, <3>2, <4>1 DEF PlacesPart, RoomKept
    <3> QED
      BY <3>1, <3>2
  <2> QED
    BY <2>1 DEF RoomKept
<1> QED
  BY <1>2, <1>5, <1>7, <1>8, <1>9

\* A job that was delivered, or dropped, leaves the loop.
LEMMA DoneMoves ==
    ASSUME IInv, PlacesPart, NEW w \in Jobs, loop[w].pc = "delivering",
           AfterDelivery(w, pendingJobs[loop[w].queue]), target' = target
    PROVE  /\ JobsOut' /\ JobsQueued' /\ RoomKept'
           /\ Queued' = Queued /\ BeingDelivered' = BeingDelivered \ {loop[w].job}
           /\ \A r \in Jobs : r # loop[w].queue => pendingJobs'[r] = pendingJobs[r]
<1>1. loop[w].queue \in Jobs
  BY LoopHasJob
<1>2. PICK s \in Seq(Jobs) : s = pendingJobs[loop[w].queue]
  BY <1>1 DEF IInv, TypeOK
<1>3. IsInjective(s) /\ Len(s) <= MaxQueueSize + 1 /\ Range(s) \subseteq Queued
  BY <1>1, <1>2, InQueueIsQueued DEF PlacesPart, JobsQueued, RoomKept
<1>4. AfterDelivery(w, s) /\ Range(s) = Range(pendingJobs[loop[w].queue])
  BY <1>2
<1> QED
  BY <1>3, <1>4, AfterMoves

\* A job that failed goes back in front of its queue, or is dropped at the limit.
LEMMA FailedMoves ==
    ASSUME IInv, PlacesPart, NEW w \in Jobs, loop[w].pc = "delivering", DeliveryFailed(w),
           target' = target
    PROVE  /\ JobsOut' /\ JobsQueued' /\ RoomKept'
           /\ BeingDelivered' = BeingDelivered \ {loop[w].job}
           /\ \A r \in Jobs : r # loop[w].queue => pendingJobs'[r] = pendingJobs[r]
           /\ \/ /\ priority[loop[w].job] > MinPriority
                 /\ priority' = [priority EXCEPT ![loop[w].job] = @ - 1]
                 /\ outcome' = outcome /\ Queued' = Queued \cup {loop[w].job}
              \/ /\ ~ (priority[loop[w].job] > MinPriority)
                 /\ outcome' = [outcome EXCEPT ![loop[w].job] = "dropped"]
                 /\ priority' = priority /\ Queued' = Queued
<1>1. loop[w].queue \in Jobs /\ loop[w].job \in BeingDelivered /\ DeliversFrom(loop[w].queue)
  BY LoopHasJob
<1>2. PICK j \in Jobs : j = loop[w].job
  BY <1>1 DEF BeingDelivered
<1>3. CASE CanRetry(j)
  <2>1. /\ priority' = [priority EXCEPT ![j] = @ - 1] /\ outcome' = outcome
        /\ AfterDelivery(w, Cons(j, pendingJobs[loop[w].queue])) /\ priority[j] > MinPriority
    BY <1>2, <1>3 DEF DeliveryFailed, Requeued, CanRetry
  <2>2. PICK s \in Seq(Jobs) : s = pendingJobs[loop[w].queue]
    BY <1>1 DEF IInv, TypeOK
  <2>3. IsInjective(s) /\ j \notin Range(s) /\ Len(s) <= MaxQueueSize
    BY <1>1, <1>2, <2>2 DEF PlacesPart, JobsQueued, RoomKept
  <2>4. PICK t \in Seq(Jobs) : t = Cons(j, s)
    BY <2>3, PutBack
  <2>5. Range(t) = Range(s) \cup {j} /\ IsInjective(t) /\ Len(t) = Len(s) + 1 /\ Len(s) \in Nat
    BY <2>3, <2>4, PutBack
  <2>6. Len(t) <= MaxQueueSize + 1
    BY <2>3, <2>5, QueueAssumption
  <2>7. AfterDelivery(w, t) /\ Range(t) = Range(pendingJobs[loop[w].queue]) \cup {loop[w].job}
    BY <1>2, <2>1, <2>2, <2>4, <2>5
  <2>8. /\ JobsOut' /\ JobsQueued' /\ RoomKept'
        /\ Queued' = Queued \cup Range(t) /\ BeingDelivered' = BeingDelivered \ {loop[w].job}
        /\ \A r \in Jobs : r # loop[w].queue => pendingJobs'[r] = pendingJobs[r]
    BY <2>5, <2>6, <2>7, AfterMoves
  <2>9. Queued' = Queued \cup {j}
    BY <1>1, <2>2, <2>5, <2>8, InQueueIsQueued
  <2> QED
    BY <1>2, <2>1, <2>8, <2>9
<1>4. CASE ~ CanRetry(j)
  <2>1. /\ outcome' = [outcome EXCEPT ![j] = "dropped"] /\ priority' = priority
        /\ AfterDelivery(w, pendingJobs[loop[w].queue]) /\ ~ (priority[j] > MinPriority)
    BY <1>2, <1>4 DEF DeliveryFailed, CanRetry
  <2> QED
    BY <1>2, <2>1, DoneMoves
<1> QED
  BY <1>3, <1>4
-----------------------------------------------------------------------------
\* A refused job is nowhere.
LEMMA RefusePlaces ==
    ASSUME IInv, PlacesPart, NEW j \in Jobs, NEW c \in Clients, RefuseJob(j, c)
    PROVE  PlacesPart' /\ Queued' = Queued /\ BeingDelivered' = BeingDelivered
<1>1. /\ target[j] = None /\ target' = [target EXCEPT ![j] = c] /\ reply' = [reply EXCEPT ![j] = "refused"]
      /\ UNCHANGED <<loop, pendingJobs, priority, attempts, outcome, waitingJobs, clears>>
  BY DEF RefuseJob, queueVars, wireVars
<1>2. Queued' = Queued /\ BeingDelivered' = BeingDelivered
  BY <1>1 DEF Queued, BeingDelivered
<1>3. /\ target'[j] = c /\ reply'[j] = "refused"
      /\ \A k \in Jobs : k # j => target'[k] = target[k] /\ reply'[k] = reply[k]
  BY <1>1 DEF IInv, TypeOK
<1>4. j \notin Queued /\ j \notin BeingDelivered
  BY <1>1, NewJobNowhere
<1>5. JobsOut'
  <2>1. ASSUME NEW w \in Jobs, loop[w].job # None PROVE target'[loop[w].job] = target'[w]
    <3>1. target[loop[w].job] = target[w] /\ target[w] \in Clients
      BY <2>1 DEF PlacesPart, JobsOut, IInv, LoopPart, LoopsWell, Running
    <3>2. loop[w].job \in Jobs /\ loop[w].job # j /\ w # j
      BY <1>1, <1>4, <2>1, <3>1, NoneIsNone DEF BeingDelivered, IInv, TypeOK, Activations
    <3> QED
      BY <1>3, <3>1, <3>2
  <2> QED
    BY <1>1, <2>1 DEF PlacesPart, JobsOut
<1>6. JobsQueued'
  <2>1. ASSUME NEW q \in Jobs, NEW k \in Range(pendingJobs[q])
        PROVE  target'[k] = target'[q] /\ target'[q] \in Clients
    <3>1. target[k] = target[q] /\ target[q] \in Clients /\ k \in Jobs
      BY InQueueIsQueued DEF PlacesPart, JobsQueued, Queued
    <3> QED
      BY <1>1, <1>3, <3>1, NoneIsNone
  <2> QED
    BY <1>1, <2>1 DEF PlacesPart, JobsQueued
<1>7. NotDoneWith'
  <2>1. \A k \in Queued \cup BeingDelivered : k \in Jobs
    BY DEF Queued, BeingDelivered
  <2> QED
    BY <1>1, <1>2, <1>3, <1>4, <2>1 DEF PlacesPart, NotDoneWith
<1>8. Untouched'
  BY <1>1, <1>3, NoneIsNone DEF PlacesPart, Untouched
<1>9. TriesCounted'
  BY <1>1, <1>2 DEF PlacesPart, TriesCounted
<1>10. RoomKept'
  BY <1>1 DEF PlacesPart, RoomKept, DeliversFrom
<1>11. NoneLost'
  BY <1>1, <1>2, <1>3 DEF PlacesPart, NoneLost, Accepted
<1> QED
  BY <1>2, <1>5, <1>6, <1>7, <1>8, <1>9, <1>10, <1>11 DEF PlacesPart

\* A queued job is not being delivered.
LEMMA QueuedNotOut == PlacesPart => Queued \cap BeingDelivered = {}
BY DEF PlacesPart, JobsQueued, Queued, BeingDelivered

\* An accepted job joins the queue of its client; if the lock is free, the first goes out.
LEMMA QueuePlaces ==
    ASSUME IInv, PlacesPart, NEW j \in Jobs, NEW c \in Clients, QueueJobForClient(j, c)
    PROVE  PlacesPart'
<1>1. PICK q \in Jobs : q = QueueFor(c, j)
  BY QueuePending
<1>2. /\ target[j] = None /\ target'[j] = c /\ target'[q] = c /\ None \notin Clients
      /\ \A k \in Jobs : k # j => target'[k] = target[k]
      /\ UNCHANGED <<priority, outcome, clears>>
  BY <1>1, QueueMaps, NoneIsNone DEF QueueJobForClient
<1>3. /\ reply'[j] = "waiting" /\ waitingJobs'[j] = c
      /\ \A k \in Jobs : k # j => reply'[k] = reply[k] /\ waitingJobs'[k] = waitingJobs[k]
  BY DEF QueueJobForClient, WaitForJobCompletion, IInv, TypeOK
<1>4. /\ j \notin Queued /\ j \notin BeingDelivered
      /\ outcome[j] = "none" /\ attempts[j] = 0 /\ priority[j] = 0
  BY <1>2, NewJobNowhere
<1>5. /\ JobsOut' /\ JobsQueued' /\ RoomKept'
      /\ \A r \in Jobs : r # q => pendingJobs'[r] = pendingJobs[r]
      /\ Queued' \cup BeingDelivered' = Queued \cup BeingDelivered \cup {j}
      /\ \A k \in Jobs : target'[k] = None => attempts'[k] = attempts[k]
      /\ \A k \in Jobs : outcome[k] = "none" =>
            attempts'[k] + priority[k] = IF k \in BeingDelivered' THEN 1 ELSE 0
  <2>1. CASE Locked(c)
    BY <1>1, <1>4, <2>1, QueueLockedMoves DEF PlacesPart, TriesCounted
  <2>2. CASE ~ Locked(c)
    <3>1. PICK h \in Jobs : /\ h = j \/ (h \in Queued /\ target[h] = c)
                            /\ Takes(h) /\ Queued' = (Queued \cup {j}) \ {h}
      BY <2>2, QueueUnlockedMoves
    <3>2. h \notin BeingDelivered /\ target'[h] = c /\ (outcome[h] = "none" => attempts[h] + priority[h] = 0)
      BY <1>2, <1>4, <3>1, QueuedNotOut DEF PlacesPart, TriesCounted
    <3>3. /\ attempts'[h] = attempts[h] + 1 /\ \A k \in Jobs : k # h => attempts'[k] = attempts[k]
          /\ \A k \in Jobs : attempts[k] \in Nat /\ priority[k] \in Int
      BY <3>1, QueueAssumption DEF Takes, IInv, TypeOK
    <3>4. Queued' \cup BeingDelivered' = Queued \cup BeingDelivered \cup {j}
      BY <3>1 DEF Takes
    <3>5. \A k \in Jobs : target'[k] = None => attempts'[k] = attempts[k]
      BY <1>2, <3>2, <3>3
    <3>6. ASSUME NEW k \in Jobs, outcome[k] = "none"
          PROVE  attempts'[k] + priority[k] = IF k \in BeingDelivered' THEN 1 ELSE 0
      <4>1. CASE k = h
        BY <3>1, <3>2, <3>3, <3>6, <4>1 DEF Takes
      <4>2. CASE k # h
        <5>1. k \in BeingDelivered' <=> k \in BeingDelivered
          BY <3>1, <4>2 DEF Takes
        <5> QED
          BY <3>3, <3>6, <4>2, <5>1 DEF PlacesPart, TriesCounted
      <4> QED
        BY <4>1, <4>2
    <3> QED
      BY <1>1, <2>2, <3>4, <3>5, <3>6, QueueUnlockedMoves
  <2> QED
    BY <2>1, <2>2
<1>6. \A k \in Queued \cup BeingDelivered : k \in Jobs
  BY DEF Queued, BeingDelivered
<1>7. NotDoneWith'
  BY <1>2, <1>3, <1>4, <1>5, <1>6 DEF PlacesPart, NotDoneWith
<1>8. Untouched'
  BY <1>2, <1>3, <1>5 DEF PlacesPart, Untouched
<1>9. TriesCounted'
  BY <1>2, <1>5 DEF TriesCounted
<1>10. NoneLost'
  BY <1>2, <1>3, <1>5 DEF PlacesPart, NoneLost, Accepted
<1> QED
  BY <1>5, <1>7, <1>8, <1>9, <1>10 DEF PlacesPart

\* The loop goes on, or finds its queue object empty and leaves.
LEMMA DelayPlaces ==
    ASSUME IInv, PlacesPart, NEW w \in Jobs, DelayElapses(w)
    PROVE  PlacesPart'
<1>1. UNCHANGED <<priority, outcome, clears, target, reply, waitingJobs>>
  BY DEF DelayElapses, waitVars
<1>2. CASE pendingJobs[loop[w].queue] = <<>>
  <2>1. loop' = [loop EXCEPT ![w] = Idle] /\ UNCHANGED <<pendingJobs, attempts>> /\ loop[w].pc = "delaying"
    BY <1>2 DEF DelayElapses, LeaveLoop
  <2>2. /\ \A v \in Jobs : loop'[v].job = loop[v].job
        /\ \A v \in Jobs : loop'[v].pc = "delivering" => loop'[v] = loop[v]
        /\ \A v \in Jobs : loop'[v].pc # "delivering" => loop[v].pc # "delivering"
    BY <2>1 DEF PlacesPart, JobsOut, Idle, IInv, TypeOK
  <2>3. Queued' = Queued /\ BeingDelivered' = BeingDelivered
    BY <2>1, <2>2 DEF Queued, BeingDelivered
  <2>4. JobsOut' /\ JobsQueued'
    BY <1>1, <2>1, <2>2 DEF PlacesPart, JobsOut, JobsQueued
  <2>5. RoomKept'
    <3>1. \A q \in Jobs : DeliversFrom(q)' => DeliversFrom(q)
      BY <2>2 DEF DeliversFrom
    <3> QED
      BY <2>1, <3>1 DEF PlacesPart, RoomKept
  <2>6. NotDoneWith' /\ Untouched' /\ TriesCounted' /\ NoneLost'
    BY <1>1, <2>1, <2>3 DEF PlacesPart, NotDoneWith, Untouched, TriesCounted, NoneLost, Accepted
  <2> QED
    BY <2>4, <2>5, <2>6 DEF PlacesPart
<1>3. CASE pendingJobs[loop[w].queue] # <<>>
  <2>1. /\ JobsOut' /\ JobsQueued' /\ RoomKept'
        /\ \A r \in Jobs : r # loop[w].queue => pendingJobs'[r] = pendingJobs[r]
        /\ target[w] \in Clients /\ target[loop[w].queue] = target[w]
    BY <1>3, DelayMoves
  <2>2. PICK h \in Queued : target[h] = target[w] /\ Takes(h) /\ Queued' = Queued \ {h}
    BY <1>3, DelayMoves
  <2>3. h \in Jobs /\ h \notin BeingDelivered /\ None \notin Clients
    BY QueuedNotOut, NoneIsNone DEF Queued
  <2>4. /\ attempts'[h] = attempts[h] + 1 /\ \A k \in Jobs : k # h => attempts'[k] = attempts[k]
        /\ \A k \in Jobs : attempts[k] \in Nat /\ priority[k] \in Int
    BY <2>2, <2>3, QueueAssumption DEF Takes, IInv, TypeOK
  <2>5. Queued' \cup BeingDelivered' = Queued \cup BeingDelivered
    BY <2>2 DEF Takes
  <2>6. NotDoneWith' /\ NoneLost'
    BY <1>1, <2>5 DEF PlacesPart, NotDoneWith, NoneLost, Accepted
  <2>7. Untouched'
    BY <1>1, <2>1, <2>2, <2>3, <2>4 DEF PlacesPart, Untouched
  <2>8. TriesCounted'
    <3> SUFFICES ASSUME NEW k \in Jobs, outcome[k] = "none"
                 PROVE  attempts'[k] + priority[k] = IF k \in BeingDelivered' THEN 1 ELSE 0
      BY <1>1 DEF TriesCounted
    <3>1. attempts[k] + priority[k] = IF k \in BeingDelivered THEN 1 ELSE 0
      BY DEF PlacesPart, TriesCounted
    <3>2. k \in BeingDelivered' <=> k \in BeingDelivered \/ k = h
      BY <2>2 DEF Takes
    <3>3. CASE k = h
      BY <2>3, <2>4, <3>1, <3>2, <3>3
    <3>4. CASE k # h
      BY <2>4, <3>1, <3>2, <3>4
    <3> QED
      BY <3>3, <3>4
  <2> QED
    BY <2>1, <2>6, <2>7, <2>8 DEF PlacesPart
<1> QED
  BY <1>2, <1>3
-----------------------------------------------------------------------------
\* What the end of a delivery does, however it ends: the job leaves the loop, is
\* put back with a lower priority, or is done with.
Ends(w) ==
    /\ BeingDelivered' = BeingDelivered \ {loop[w].job}
    /\ \A r \in Jobs : r # loop[w].queue => pendingJobs'[r] = pendingJobs[r]
    /\ UNCHANGED <<attempts, target, reply, waitingJobs, clears>>
    /\ \/ /\ priority[loop[w].job] > MinPriority
          /\ priority' = [priority EXCEPT ![loop[w].job] = @ - 1]
          /\ outcome' = outcome /\ Queued' = Queued \cup {loop[w].job}
       \/ /\ outcome' = [outcome EXCEPT ![loop[w].job] = "dropped"]
          /\ ~ (priority[loop[w].job] > MinPriority)
          /\ priority' = priority /\ Queued' = Queued
       \/ /\ outcome' = [outcome EXCEPT ![loop[w].job] = "delivered"]
          /\ priority' = priority /\ Queued' = Queued

LEMMA DeliveryEnds ==
    ASSUME IInv, PlacesPart, NEW w \in Jobs, DeliveryStep(w)
    PROVE  JobsOut' /\ JobsQueued' /\ RoomKept' /\ Ends(w) /\ loop[w].pc = "delivering"
<1>1. ASSUME NEW reached \in BOOLEAN, DeliverySucceeds(w, reached)
      PROVE  JobsOut' /\ JobsQueued' /\ RoomKept' /\ Ends(w) /\ loop[w].pc = "delivering"
  <2>1. /\ loop[w].pc = "delivering" /\ AfterDelivery(w, pendingJobs[loop[w].queue])
        /\ outcome' = [outcome EXCEPT ![loop[w].job] = "delivered"]
        /\ UNCHANGED <<attempts, target, reply, waitingJobs, clears, priority>>
    BY <1>1 DEF DeliverySucceeds, waitVars
  <2> QED
    BY <2>1, DoneMoves DEF Ends
<1>2. ASSUME DeliveryRefused(w) \/ DeliveryTimesOut(w)
      PROVE  JobsOut' /\ JobsQueued' /\ RoomKept' /\ Ends(w) /\ loop[w].pc = "delivering"
  <2>1. /\ loop[w].pc = "delivering" /\ DeliveryFailed(w)
        /\ UNCHANGED <<attempts, target, reply, waitingJobs, clears>>
    BY <1>2 DEF DeliveryRefused, DeliveryTimesOut, waitVars
  <2> QED
    BY <2>1, FailedMoves DEF Ends
<1> QED
  BY <1>1, <1>2 DEF DeliveryStep

LEMMA DeliveryPlaces ==
    ASSUME IInv, PlacesPart, NEW w \in Jobs, DeliveryStep(w)
    PROVE  PlacesPart'
<1>1. JobsOut' /\ JobsQueued' /\ RoomKept' /\ Ends(w) /\ loop[w].pc = "delivering"
  BY DeliveryEnds
<1>2. /\ loop[w].queue \in Jobs /\ target[loop[w].queue] = target[w] /\ target[w] \in Clients
      /\ loop[w].job \in BeingDelivered /\ None \notin Clients
  BY <1>1, LoopHasJob, NoneIsNone
<1>3. PICK j \in Jobs : j = loop[w].job
  BY <1>2 DEF BeingDelivered
<1>4. /\ outcome[j] = "none" /\ target[j] # None /\ reply[j] # "refused" /\ j \notin Queued
      /\ attempts[j] + priority[j] = 1
  BY <1>2, <1>3, QueuedNotOut DEF PlacesPart, NotDoneWith, TriesCounted
<1>5. \A k \in Jobs : attempts[k] \in Nat /\ priority[k] \in Int
  BY QueueAssumption DEF IInv, TypeOK
<1>6. /\ BeingDelivered' = BeingDelivered \ {j}
      /\ \A r \in Jobs : r # loop[w].queue => pendingJobs'[r] = pendingJobs[r]
      /\ UNCHANGED <<attempts, target, reply, waitingJobs, clears>>
      /\ \A k \in Jobs : k # j => outcome'[k] = outcome[k] /\ priority'[k] = priority[k]
      /\ \/ priority'[j] = priority[j] - 1 /\ outcome'[j] = outcome[j] /\ Queued' = Queued \cup {j}
         \/ outcome'[j] # "none" /\ Queued' = Queued
  BY <1>1, <1>3 DEF Ends, IInv, TypeOK
<1>7. NotDoneWith'
  <2>1. ASSUME NEW k \in Queued' \cup BeingDelivered' PROVE outcome'[k] = "none" /\ k \in Jobs
    <3>1. CASE k = j
      BY <1>4, <1>6, <3>1
    <3>2. CASE k # j
      <4>1. k \in Queued \cup BeingDelivered
        BY <1>6, <3>2
      <4>2. k \in Jobs /\ outcome[k] = "none"
        BY <4>1 DEF Queued, BeingDelivered, PlacesPart, NotDoneWith
      <4> QED
        BY <1>6, <3>2, <4>2
    <3> QED
      BY <3>1, <3>2
  <2>2. Queued' \cup BeingDelivered' \subseteq Queued \cup BeingDelivered
    BY <1>2, <1>3, <1>6
  <2> QED
    BY <1>6, <2>1, <2>2 DEF PlacesPart, NotDoneWith
<1>8. Untouched'
  BY <1>2, <1>4, <1>6 DEF PlacesPart, Untouched
<1>9. TriesCounted'
  <2> SUFFICES ASSUME NEW k \in Jobs, outcome'[k] = "none"
               PROVE  attempts'[k] + priority'[k] = IF k \in BeingDelivered' THEN 1 ELSE 0
    BY DEF TriesCounted
  <2>1. CASE k = j
    <3>1. priority'[j] = priority[j] - 1 /\ j \notin BeingDelivered'
      BY <1>6, <2>1
    <3> QED
      BY <1>4, <1>5, <1>6, <2>1, <3>1
  <2>2. CASE k # j
    BY <1>6, <2>2 DEF PlacesPart, TriesCounted
  <2> QED
    BY <2>1, <2>2
<1>10. NoneLost'
  <2> SUFFICES ASSUME clears = 0, NEW k \in Jobs, Accepted(k), outcome'[k] = "none"
               PROVE  k \in Queued' \cup BeingDelivered'
    BY <1>6 DEF NoneLost, Accepted
  <2>1. CASE k = j
    BY <1>6, <2>1
  <2>2. CASE k # j
    BY <1>6, <2>2 DEF PlacesPart, NoneLost
  <2> QED
    BY <2>1, <2>2
<1> QED
  BY <1>1, <1>7, <1>8, <1>9, <1>10 DEF PlacesPart

\* A late delivery, and the end of a wait, touch no queue and no loop.
LEMMA SamePlaces ==
    ASSUME PlacesPart,
           UNCHANGED <<loop, pendingJobs, priority, attempts, outcome, target, clears>>,
           \A k \in Jobs : waitingJobs'[k] = waitingJobs[k] \/ waitingJobs'[k] = None,
           \A k \in Jobs : \/ reply'[k] = reply[k]
                           \/ target[k] # None /\ reply[k] # "refused" /\ reply'[k] # "refused"
    PROVE  PlacesPart' /\ Queued' = Queued /\ BeingDelivered' = BeingDelivered
<1>1. Queued' = Queued /\ BeingDelivered' = BeingDelivered
  BY DEF Queued, BeingDelivered
<1>2. JobsOut' /\ JobsQueued' /\ RoomKept'
  BY DEF PlacesPart, JobsOut, JobsQueued, RoomKept, DeliversFrom
<1>3. NotDoneWith'
  <2>1. \A k \in Queued \cup BeingDelivered : k \in Jobs
    BY DEF Queued, BeingDelivered
  <2> QED
    BY <1>1, <2>1 DEF PlacesPart, NotDoneWith
<1>4. Untouched' /\ TriesCounted'
  BY <1>1 DEF PlacesPart, Untouched, TriesCounted
<1>5. NoneLost'
  BY <1>1 DEF PlacesPart, NoneLost, Accepted
<1> QED
  BY <1>1, <1>2, <1>3, <1>4, <1>5 DEF PlacesPart

\* Only jobs that are waited for are settled.
LEMMA SettleReplies ==
    ASSUME PlacesPart, NEW settled \in SUBSET Jobs, Settle(settled),
           \A k \in settled : waitingJobs[k] # None
    PROVE  /\ \A k \in Jobs : waitingJobs'[k] = waitingJobs[k] \/ waitingJobs'[k] = None
           /\ \A k \in Jobs : \/ reply'[k] = reply[k]
                              \/ target[k] # None /\ reply[k] # "refused" /\ reply'[k] # "refused"
BY DEF Settle, PlacesPart, Untouched

LEMMA SettlePlaces ==
    ASSUME PlacesPart, NEW settled \in SUBSET Jobs, Settle(settled),
           \A k \in settled : waitingJobs[k] # None,
           UNCHANGED <<queueVars, wireVars, target, clears>>
    PROVE  PlacesPart' /\ Queued' = Queued /\ BeingDelivered' = BeingDelivered
BY SettleReplies, SamePlaces DEF queueVars, wireVars

LEMMA LatePlaces ==
    ASSUME PlacesPart, NEW j \in Jobs, LateDelivery(j)
    PROVE  PlacesPart' /\ Queued' = Queued /\ BeingDelivered' = BeingDelivered
BY SamePlaces DEF LateDelivery, queueVars, waitVars

LEMMA StalePlaces ==
    ASSUME PlacesPart, NEW c \in Clients, CleanupStaleQueue(c)
    PROVE  PlacesPart' /\ Queued' = Queued /\ BeingDelivered' = BeingDelivered
BY SamePlaces DEF CleanupStaleQueue, waitVars, wireVars

\* A clear empties a queue object that is the client's; what is out stays out.
LEMMA ClearMoves ==
    ASSUME IInv, PlacesPart, NEW c \in Clients, ClearClientQueue(c)
    PROVE  /\ PlacesPart' /\ BeingDelivered' = BeingDelivered
           /\ \E gone \in SUBSET Queued : /\ \A k \in gone : target[k] = c
                                          /\ Queued' = Queued \ gone
<1>1. /\ UNCHANGED <<loop, priority, attempts, outcome, target>> /\ clears' = clears + 1
      /\ Settle({k \in Jobs : waitingJobs[k] = c}) /\ clears \in Nat
  BY QueueAssumption DEF ClearClientQueue, wireVars, IInv, TypeOK
<1>2. /\ \A k \in Jobs : waitingJobs'[k] = waitingJobs[k] \/ waitingJobs'[k] = None
      /\ \A k \in Jobs : \/ reply'[k] = reply[k]
                         \/ target[k] # None /\ reply[k] # "refused" /\ reply'[k] # "refused"
  <2>1. PICK settled \in SUBSET Jobs : settled = {k \in Jobs : waitingJobs[k] = c}
    OBVIOUS
  <2>2. Settle(settled) /\ \A k \in settled : waitingJobs[k] # None
    BY <1>1, <2>1, NoneIsNone
  <2> QED
    BY <2>2, SettleReplies
<1>3. \A r \in Jobs : pendingJobs[r] \in Seq(Jobs)
  BY DEF IInv, TypeOK
<1>4. IsInjective(<<>>) /\ Range(<<>>) = {} /\ Len(<<>>) = 0
  BY DEF IsInjective, Range
<1>5. /\ \A r \in Jobs : pendingJobs'[r] = pendingJobs[r] \/ pendingJobs'[r] = <<>>
      /\ \A r \in Jobs : pendingJobs'[r] # pendingJobs[r] => r = clientQueues[c] /\ target[r] = c
  BY DEF ClearClientQueue, IInv, TypeOK, LoopPart, QueuesOwned
<1>6. BeingDelivered' = BeingDelivered
  BY <1>1 DEF BeingDelivered
<1>7. \A r \in Jobs : \A k \in Range(pendingJobs'[r]) :
          pendingJobs'[r] = pendingJobs[r] /\ k \in Range(pendingJobs[r])
  BY <1>4, <1>5
<1>8. Queued' \subseteq Queued
  BY <1>7 DEF Queued
<1>9. \A k \in Queued \ Queued' : target[k] = c
  <2> SUFFICES ASSUME NEW k \in Jobs, NEW r \in Jobs, k \in Range(pendingJobs[r]), k \notin Queued'
               PROVE  target[k] = c
    BY DEF Queued
  <2>1. pendingJobs'[r] # pendingJobs[r]
    BY DEF Queued
  <2> QED
    BY <1>5, <2>1 DEF PlacesPart, JobsQueued
<1>10. JobsOut'
  BY <1>1 DEF PlacesPart, JobsOut
<1>11. JobsQueued'
  <2>1. \A r \in Jobs : IsInjective(pendingJobs'[r])
    BY <1>4, <1>5 DEF PlacesPart, JobsQueued
  <2> QED
    BY <1>1, <1>7, <2>1 DEF PlacesPart, JobsQueued
<1>12. RoomKept'
  <2>1. \A r \in Jobs : DeliversFrom(r)' <=> DeliversFrom(r)
    BY <1>1 DEF DeliversFrom
  <2> QED
    BY <1>4, <1>5, <2>1, QueueAssumption DEF PlacesPart, RoomKept
<1>13. NotDoneWith'
  <2>1. \A k \in Queued \cup BeingDelivered : k \in Jobs
    BY DEF Queued, BeingDelivered
  <2> QED
    BY <1>1, <1>2, <1>6, <1>8, <2>1 DEF PlacesPart, NotDoneWith
<1>14. Untouched' /\ TriesCounted' /\ NoneLost'
  <2>1. Untouched'
    BY <1>1, <1>2, <1>5 DEF PlacesPart, Untouched
  <2>2. TriesCounted'
    BY <1>1, <1>6 DEF PlacesPart, TriesCounted
  <2>3. NoneLost'
    BY <1>1 DEF NoneLost
  <2> QED
    BY <2>1, <2>2, <2>3
<1>15. PICK gone \in SUBSET Queued : gone = Queued \ Queued'
  OBVIOUS
<1> QED
  BY <1>6, <1>8, <1>9, <1>10, <1>11, <1>12, <1>13, <1>14, <1>15 DEF PlacesPart
-----------------------------------------------------------------------------
\* No job is anywhere initially.
LEMMA InitPlaces == Init => PlacesPart
<1> SUFFICES ASSUME Init PROVE PlacesPart
  OBVIOUS
<1>1. IsInjective(<<>>) /\ Range(<<>>) = {} /\ Len(<<>>) = 0
  BY DEF IsInjective, Range
<1>2. \A q \in Jobs : pendingJobs[q] = <<>> /\ loop[q].job = None /\ loop[q].pc = "idle"
  BY DEF Init, Idle
<1>3. Queued = {} /\ BeingDelivered = {}
  BY <1>1, <1>2, NoneIsNone DEF Queued, BeingDelivered
<1>4. JobsOut /\ JobsQueued
  BY <1>1, <1>2, NoneIsNone DEF JobsOut, JobsQueued
<1>5. NotDoneWith /\ TriesCounted
  BY <1>3 DEF NotDoneWith, TriesCounted, Init
<1>6. Untouched
  BY DEF Init, Untouched
<1>7. RoomKept
  BY <1>1, <1>2, QueueAssumption DEF RoomKept
<1>8. NoneLost
  BY DEF NoneLost, Accepted, Init
<1> QED
  BY <1>4, <1>5, <1>6, <1>7, <1>8 DEF PlacesPart

\* Every step keeps every job in its place.
LEMMA NextPlaces == IInv /\ PlacesPart /\ [Next]_vars => PlacesPart'
<1> SUFFICES ASSUME IInv, PlacesPart, [Next]_vars PROVE PlacesPart'
  OBVIOUS
<1>1. CASE UNCHANGED vars
  BY <1>1, SamePlaces DEF vars, queueVars, waitVars, wireVars
<1>2. ASSUME NEW j \in Jobs, NEW c \in Clients, RefuseJob(j, c) \/ QueueJobForClient(j, c)
      PROVE  PlacesPart'
  BY <1>2, RefusePlaces, QueuePlaces
<1>3. ASSUME NEW w \in Jobs, DeliveryStep(w) \/ DelayElapses(w) PROVE PlacesPart'
  BY <1>3, DeliveryPlaces, DelayPlaces
<1>4. ASSUME NEW j \in Jobs, LateDelivery(j) \/ JobCompleted(j) \/ WaitTimesOut(j) PROVE PlacesPart'
  <2>1. CASE LateDelivery(j)
    BY <2>1, LatePlaces
  <2>2. CASE JobCompleted(j) \/ WaitTimesOut(j)
    <3>1. PICK settled \in SUBSET Jobs : settled = {j}
      OBVIOUS
    <3>2. /\ Settle(settled) /\ \A k \in settled : waitingJobs[k] # None
          /\ UNCHANGED <<queueVars, wireVars, target, clears>>
      BY <2>2, <3>1 DEF JobCompleted, WaitTimesOut, IsAwaited
    <3> QED
      BY <3>2, SettlePlaces
  <2> QED
    BY <1>4, <2>1, <2>2
<1>5. ASSUME NEW overdue \in SUBSET Jobs, CleanupOrphanedJobs(overdue) PROVE PlacesPart'
  BY <1>5, SettlePlaces DEF CleanupOrphanedJobs, IsAwaited
<1>6. ASSUME NEW c \in Clients, CleanupStaleQueue(c) \/ ClearClientQueue(c) PROVE PlacesPart'
  BY <1>6, StalePlaces, ClearMoves
<1> QED
  BY <1>1, <1>2, <1>3, <1>4, <1>5, <1>6 DEF Next

LEMMA PlacesHolds == Spec => [](IInv /\ PlacesPart)
BY InitIInv, NextIInv, InitPlaces, NextPlaces, PTL DEF Spec
-----------------------------------------------------------------------------
\* Frames are counted against timeouts job by job.
LEMMA SameFrames ==
    ASSUME DuplicatesOnlyFromTimeouts, UNCHANGED <<sent, late, timeouts>>,
           \A k \in Jobs : outcome'[k] = outcome[k] \/ outcome[k] # "delivered",
           \A k \in Jobs : sent[k] \in Nat /\ late[k] \in Nat /\ timeouts[k] \in Nat
    PROVE  DuplicatesOnlyFromTimeouts'
<1> SUFFICES ASSUME NEW k \in Jobs
             PROVE  sent[k] + late[k] <= timeouts[k] + (IF outcome'[k] = "delivered" THEN 1 ELSE 0)
  BY DEF DuplicatesOnlyFromTimeouts
<1>1. sent[k] + late[k] <= timeouts[k] + (IF outcome[k] = "delivered" THEN 1 ELSE 0)
  BY DEF DuplicatesOnlyFromTimeouts
<1>2. CASE outcome'[k] = outcome[k]
  BY <1>1, <1>2
<1>3. CASE outcome[k] # "delivered"
  <2>1. sent[k] + late[k] <= timeouts[k]
    BY <1>1, <1>3
  <2> QED
    BY <2>1
<1> QED
  BY <1>2, <1>3

LEMMA NextFrames ==
    IInv /\ PlacesPart /\ DuplicatesOnlyFromTimeouts /\ [Next]_vars => DuplicatesOnlyFromTimeouts'
<1> SUFFICES ASSUME IInv, PlacesPart, DuplicatesOnlyFromTimeouts, [Next]_vars
             PROVE  DuplicatesOnlyFromTimeouts'
  OBVIOUS
<1>0. \A k \in Jobs : sent[k] \in Nat /\ late[k] \in Nat /\ timeouts[k] \in Nat
  BY DEF IInv, TypeOK
<1>1. CASE UNCHANGED <<sent, late, timeouts, outcome>>
  BY <1>1 DEF DuplicatesOnlyFromTimeouts
<1>2. ASSUME NEW w \in Jobs, DeliveryStep(w) PROVE DuplicatesOnlyFromTimeouts'
  <2>1. Ends(w) /\ loop[w].pc = "delivering"
    BY <1>2, DeliveryEnds
  <2>2. PICK j \in Jobs : j = loop[w].job
    BY <2>1, LoopHasJob DEF BeingDelivered
  <2>3. outcome[j] = "none" /\ sent[j] + late[j] <= timeouts[j]
    <3>1. outcome[j] = "none"
      BY <2>1, <2>2, LoopHasJob DEF PlacesPart, NotDoneWith
    <3>2. sent[j] + late[j] <= timeouts[j] + 0
      BY <3>1 DEF DuplicatesOnlyFromTimeouts
    <3> QED
      BY <1>0, <3>1, <3>2
  <2>4. \A k \in Jobs : k # j => outcome'[k] = outcome[k]
    BY <2>1, <2>2 DEF Ends, IInv, TypeOK
  <2>5. ASSUME NEW k \in Jobs, k = j \/ k # j,
               k # j => sent'[k] = sent[k] /\ late'[k] = late[k] /\ timeouts'[k] = timeouts[k],
               k = j => sent'[k] + late'[k] <= timeouts'[k] + (IF outcome'[k] = "delivered" THEN 1 ELSE 0)
        PROVE  sent'[k] + late'[k] <= timeouts'[k] + (IF outcome'[k] = "delivered" THEN 1 ELSE 0)
    BY <2>4, <2>5 DEF DuplicatesOnlyFromTimeouts
  <2>6. ASSUME NEW reached \in BOOLEAN, DeliverySucceeds(w, reached)
        PROVE  DuplicatesOnlyFromTimeouts'
    <3>1. /\ outcome'[j] = "delivered" /\ UNCHANGED <<late, timeouts>>
          /\ sent'[j] = sent[j] \/ sent'[j] = sent[j] + 1
          /\ \A k \in Jobs : k # j => sent'[k] = sent[k]
      BY <2>2, <2>6 DEF DeliverySucceeds, Written, IInv, TypeOK
    <3>2. sent'[j] + late'[j] <= timeouts'[j] + 1
      BY <1>0, <2>3, <3>1
    <3> QED
      BY <2>5, <3>1, <3>2 DEF DuplicatesOnlyFromTimeouts
  <2>7. ASSUME DeliveryRefused(w) PROVE DuplicatesOnlyFromTimeouts'
    <3>1. UNCHANGED <<sent, late, timeouts>>
      BY <2>7 DEF DeliveryRefused
    <3>2. \A k \in Jobs : outcome'[k] = outcome[k] \/ outcome[k] # "delivered"
      BY <2>3, <2>4
    <3> QED
      BY <1>0, <3>1, <3>2, SameFrames
  <2>8. ASSUME DeliveryTimesOut(w) PROVE DuplicatesOnlyFromTimeouts'
    <3>1. /\ late'[j] = late[j] + 1 /\ timeouts'[j] = timeouts[j] + 1 /\ sent' = sent
          /\ \A k \in Jobs : k # j => late'[k] = late[k] /\ timeouts'[k] = timeouts[k]
      BY <2>2, <2>8 DEF DeliveryTimesOut, IInv, TypeOK
    <3>2. /\ sent'[j] + late'[j] <= timeouts'[j]
          /\ sent'[j] + late'[j] <= timeouts'[j] + (IF outcome'[j] = "delivered" THEN 1 ELSE 0)
      BY <1>0, <2>3, <3>1
    <3> QED
      BY <2>5, <3>1, <3>2 DEF DuplicatesOnlyFromTimeouts
  <2> QED
    BY <1>2, <2>6, <2>7, <2>8 DEF DeliveryStep
<1>3. ASSUME NEW j \in Jobs, LateDelivery(j) PROVE DuplicatesOnlyFromTimeouts'
  <2>1. /\ sent'[j] = sent[j] + 1 /\ late'[j] = late[j] - 1 /\ UNCHANGED <<timeouts, outcome>>
        /\ \A k \in Jobs : k # j => late'[k] = late[k] /\ sent'[k] = sent[k]
    BY <1>3 DEF LateDelivery, Written, IInv, TypeOK
  <2>2. ASSUME NEW k \in Jobs
        PROVE  sent'[k] + late'[k] <= timeouts'[k] + (IF outcome'[k] = "delivered" THEN 1 ELSE 0)
    <3>1. sent'[k] + late'[k] = sent[k] + late[k]
      BY <1>0, <2>1
    <3> QED
      BY <2>1, <3>1 DEF DuplicatesOnlyFromTimeouts
  <2> QED
    BY <2>2 DEF DuplicatesOnlyFromTimeouts
<1>4. ASSUME NEW j \in Jobs, NEW c \in Clients, RefuseJob(j, c) \/ QueueJobForClient(j, c)
      PROVE  UNCHANGED <<sent, late, timeouts, outcome>>
  BY <1>4 DEF RefuseJob, QueueJobForClient, wireVars
<1>5. ASSUME NEW w \in Jobs, DelayElapses(w) PROVE UNCHANGED <<sent, late, timeouts, outcome>>
  BY <1>5 DEF DelayElapses
<1>6. ASSUME NEW j \in Jobs, JobCompleted(j) \/ WaitTimesOut(j)
      PROVE  UNCHANGED <<sent, late, timeouts, outcome>>
  BY <1>6 DEF JobCompleted, WaitTimesOut, wireVars
<1>7. ASSUME NEW overdue \in SUBSET Jobs, CleanupOrphanedJobs(overdue)
      PROVE  UNCHANGED <<sent, late, timeouts, outcome>>
  BY <1>7 DEF CleanupOrphanedJobs, wireVars
<1>8. ASSUME NEW c \in Clients, CleanupStaleQueue(c) \/ ClearClientQueue(c)
      PROVE  UNCHANGED <<sent, late, timeouts, outcome>>
  BY <1>8 DEF CleanupStaleQueue, ClearClientQueue, wireVars
<1>9. CASE UNCHANGED vars
  BY <1>1, <1>9 DEF vars, wireVars
<1> QED
  BY <1>1, <1>2, <1>3, <1>4, <1>5, <1>6, <1>7, <1>8, <1>9 DEF Next

\* The delivery timer counts a delivery as failed while its listener may still
\* write the frame: a job reaches a node more than once only when as many
\* deliveries of it timed out, for any number of retries.
THEOREM DuplicatesAreTimeouts == Spec => []DuplicatesOnlyFromTimeouts
<1>1. Init => DuplicatesOnlyFromTimeouts
  BY DEF Init, DuplicatesOnlyFromTimeouts
<1> QED
  BY <1>1, PlacesHolds, NextFrames, PTL DEF Spec

\* MAX_QUEUE_SIZE is tested where a job is queued, not where a failed one is put
\* back: the queue is bounded all the same, with room for one job more.
THEOREM QueueIsBounded == Spec => []QueueBounded
<1>1. IInv /\ PlacesPart => QueueBounded
  <2> SUFFICES ASSUME IInv, PlacesPart, NEW c \in Clients, clientQueues[c] # None
               PROVE  Len(pendingJobs[clientQueues[c]])
                        + Cardinality({w \in Jobs : loop[w].queue = clientQueues[c] /\ loop[w].pc = "delivering"})
                      <= MaxQueueSize + 1
    BY DEF QueueBounded
  <2>1. PICK q \in Jobs : q = clientQueues[c]
    BY DEF IInv, TypeOK
  <2> DEFINE S == {w \in Jobs : loop[w].queue = q /\ loop[w].pc = "delivering"}
  <2>2. Len(pendingJobs[q]) \in Nat /\ MaxQueueSize \in Nat
    BY QueueAssumption DEF IInv, TypeOK
  <2>3. CASE S = {}
    <3>1. Cardinality(S) = 0
      BY <2>3, FS_EmptySet
    <3> QED
      BY <2>1, <2>2, <3>1 DEF PlacesPart, RoomKept
  <2>4. CASE S # {}
    <3>1. PICK w \in S : TRUE
      BY <2>4
    <3>2. S = {w}
      BY <3>1, OneLoopPerQueue DEF Running
    <3>3. Cardinality(S) = 1
      BY <3>2, FS_Singleton
    <3>4. DeliversFrom(q)
      BY <3>1 DEF DeliversFrom
    <3>5. Len(pendingJobs[q]) <= MaxQueueSize
      BY <3>4 DEF PlacesPart, RoomKept
    <3> QED
      BY <2>1, <2>2, <3>3, <3>5
  <2> QED
    BY <2>3, <2>4
<1> QED
  BY <1>1, PlacesHolds, PTL
-----------------------------------------------------------------------------
\* A job that is not done with is queued at one place of one queue object, or
\* with one loop; and until a clear it is there.
LEMMA OnePlace == IInv /\ PlacesPart => JobInOnePlace
<1> SUFFICES ASSUME IInv, PlacesPart, NEW j \in Jobs
             PROVE  /\ Cardinality(Places(j)) <= 1
                    /\ Accepted(j) /\ clears = 0 => (Places(j) = {} <=> outcome[j] # "none")
  BY DEF JobInOnePlace
<1>1. /\ \A q \in Jobs : pendingJobs[q] \in Seq(Jobs) /\ IsInjective(pendingJobs[q])
      /\ \A q \in Jobs : Len(pendingJobs[q]) <= MaxQueueSize + 1 /\ Len(pendingJobs[q]) \in Nat
  BY DEF IInv, TypeOK, PlacesPart, JobsQueued, RoomKept
<1> DEFINE A == {p \in Jobs \X (1 .. MaxQueueSize + 1) :
                    p[2] <= Len(pendingJobs[p[1]]) /\ pendingJobs[p[1]][p[2]] = j}
           B == {<<w, 0>> : w \in {v \in Jobs : loop[v].job = j}}
<1>2. ASSUME NEW p \in A PROVE p[1] \in Jobs /\ p[2] \in 1 .. Len(pendingJobs[p[1]]) /\ p = <<p[1], p[2]>>
  BY <1>1, QueueAssumption
<1>3. \A p \in A : j \in Range(pendingJobs[p[1]])
  BY <1>1, <1>2, PlaceInRange
<1>4. ASSUME NEW p \in A, NEW r \in A PROVE p = r
  <2>1. p[1] = r[1]
    BY <1>2, <1>3 DEF PlacesPart, JobsQueued
  <2>2. PICK s \in Seq(Jobs) : s = pendingJobs[p[1]] /\ IsInjective(s)
    BY <1>1, <1>2
  <2>3. p[2] \in 1 .. Len(s) /\ r[2] \in 1 .. Len(s) /\ s[p[2]] = j /\ s[r[2]] = j
    BY <1>2, <2>1, <2>2
  <2>4. p[2] = r[2]
    BY <2>2, <2>3, InjectiveSeq
  <2> QED
    BY <1>2, <2>1, <2>4
<1>5. ASSUME NEW p \in B, NEW r \in B PROVE p = r
  BY NoneIsNone DEF PlacesPart, JobsOut
<1>6. A # {} => B = {}
  BY <1>2, <1>3 DEF PlacesPart, JobsQueued
<1>7. Places(j) = A \cup B
  BY DEF Places
<1>8. A # {} <=> j \in Queued
  <2>1. ASSUME A # {} PROVE j \in Queued
    BY <1>2, <1>3, <2>1 DEF Queued
  <2>2. ASSUME j \in Queued PROVE A # {}
    <3>1. PICK q \in Jobs : j \in Range(pendingJobs[q])
      BY <2>2 DEF Queued
    <3>2. PICK i \in 1 .. Len(pendingJobs[q]) : pendingJobs[q][i] = j
      BY <1>1, <3>1, RangeHasPlace
    <3>3. i \in 1 .. MaxQueueSize + 1 /\ i <= Len(pendingJobs[q])
      BY <1>1, <3>2, QueueAssumption
    <3>4. <<q, i>> \in A
      BY <3>2, <3>3
    <3> QED
      BY <3>4
  <2> QED
    BY <2>1, <2>2
<1>9. B # {} <=> j \in BeingDelivered
  BY DEF BeingDelivered
<1> HIDE DEF A, B
<1>10. Cardinality(Places(j)) <= 1
  <2>1. CASE Places(j) = {}
    BY <2>1, FS_EmptySet
  <2>2. CASE Places(j) # {}
    <3>1. PICK p : p \in Places(j)
      BY <2>2
    <3>2. Places(j) = {p}
      BY <1>4, <1>5, <1>6, <1>7, <3>1
    <3>3. Cardinality({p}) = 1
      BY FS_Singleton
    <3> QED
      BY <3>2, <3>3
  <2> QED
    BY <2>1, <2>2
<1>11. ASSUME Accepted(j), clears = 0 PROVE Places(j) = {} <=> outcome[j] # "none"
  <2>1. Places(j) = {} <=> j \notin Queued \cup BeingDelivered
    BY <1>7, <1>8, <1>9
  <2>2. outcome[j] = "none" => j \in Queued \cup BeingDelivered
    BY <1>11 DEF PlacesPart, NoneLost
  <2>3. j \in Queued \cup BeingDelivered => outcome[j] = "none"
    BY DEF PlacesPart, NotDoneWith
  <2> QED
    BY <2>1, <2>2, <2>3
<1> QED
  BY <1>10, <1>11

\* shift, splice, unshift and the two exits of a failed delivery move a job and
\* neither copy nor lose it: whatever clears, timers and requests interleave, a
\* job is at one place of one queue object or with one loop, never in two; and
\* until an operator clears a queue, every accepted job is somewhere or done with.
THEOREM JobsAreNotLost == Spec => []JobInOnePlace
BY OnePlace, PlacesHolds, PTL
-----------------------------------------------------------------------------
(***************************************************************************)
(* The queue implements JobDelivery.                                       *)
(***************************************************************************)

\* A stage, in terms of where the job is.
LEMMA StageNow ==
    ASSUME NEW k \in Jobs
    PROVE  Stage(k) = IF reply[k] = "refused" THEN "refused"
                      ELSE IF target[k] = None THEN "new"
                      ELSE IF k \in BeingDelivered THEN "sending"
                      ELSE IF outcome[k] # "none" THEN outcome[k]
                      ELSE IF k \in Queued THEN "queued" ELSE "cleared"
BY DEF Stage, BeingDelivered, Queued

LEMMA StageThen ==
    ASSUME NEW k \in Jobs
    PROVE  Stage(k)' = IF reply'[k] = "refused" THEN "refused"
                       ELSE IF target'[k] = None THEN "new"
                       ELSE IF k \in BeingDelivered' THEN "sending"
                       ELSE IF outcome'[k] # "none" THEN outcome'[k]
                       ELSE IF k \in Queued' THEN "queued" ELSE "cleared"
BY DEF Stage, BeingDelivered, Queued

\* The stages that guards of JobDelivery ask for.
LEMMA StageOf ==
    ASSUME IInv, PlacesPart, NEW k \in Jobs
    PROVE  /\ k \in Queued => Stage(k) = "queued" /\ k \notin BeingDelivered
           /\ k \in BeingDelivered <=> Stage(k) = "sending"
           /\ target[k] = None => Stage(k) = "new"
<1>1. outcome[k] \in Outcomes
  BY DEF IInv, TypeOK
<1>2. k \in Queued => k \notin BeingDelivered
  BY QueuedNotOut
<1>3. Stage(k) = IF reply[k] = "refused" THEN "refused"
                 ELSE IF target[k] = None THEN "new"
                 ELSE IF k \in BeingDelivered THEN "sending"
                 ELSE IF outcome[k] # "none" THEN outcome[k]
                 ELSE IF k \in Queued THEN "queued" ELSE "cleared"
  BY StageNow
<1>4. target[k] = None => reply[k] = "none"
  BY NewJobNowhere
<1> QED
  BY <1>1, <1>2, <1>3, <1>4 DEF PlacesPart, NotDoneWith, Outcomes

\* Where nothing happens to a job its stage is the same.
LEMMA StageSame ==
    ASSUME NEW k \in Jobs, reply'[k] = "refused" <=> reply[k] = "refused",
           target'[k] = target[k], outcome'[k] = outcome[k],
           k \in BeingDelivered' <=> k \in BeingDelivered, k \in Queued' <=> k \in Queued
    PROVE  Stage(k)' = Stage(k)
BY StageNow, StageThen

\* No job of a client whose lock is free is being delivered, and none of a
\* client whose loop pauses.
LEMMA NothingOut ==
    ASSUME IInv, PlacesPart, NEW k \in BeingDelivered
    PROVE  \E w \in Jobs : /\ Running(w) /\ target[w] = target[k] /\ target[w] \in processingLocks
                           /\ loop[w].pc = "delivering"
<1>1. PICK w \in Jobs : loop[w].job = k /\ k # None
  BY NoneIsNone DEF BeingDelivered
<1>2. loop[w].pc = "delivering" /\ target[k] = target[w]
  BY <1>1 DEF PlacesPart, JobsOut
<1> QED
  BY <1>2 DEF Running, IInv, LoopPart, LoopsWell, LockDiscipline

\* A queued job was handed over less often than MaxTries.
LEMMA TriesLeft ==
    ASSUME IInv, PlacesPart, NEW k \in Jobs, outcome[k] = "none", k \notin BeingDelivered
    PROVE  attempts[k] < MaxTries
<1>1. attempts[k] + priority[k] = 0
  BY DEF PlacesPart, TriesCounted
<1>2. attempts[k] \in Nat /\ priority[k] \in MinPriority .. 0 /\ MinPriority \in Int
  BY QueueAssumption DEF IInv, TypeOK
<1> QED
  BY <1>1, <1>2 DEF MaxTries
-----------------------------------------------------------------------------
StageMap == [k \in Jobs |-> Stage(k)]

\* A request that is refused is Refuse.
LEMMA RefuseRefines ==
    ASSUME IInv, PlacesPart, NEW j \in Jobs, NEW c \in Clients, RefuseJob(j, c)
    PROVE  Delivery!Refuse(j, c)
<1>1. /\ target[j] = None /\ target' = [target EXCEPT ![j] = c] /\ reply' = [reply EXCEPT ![j] = "refused"]
      /\ attempts' = attempts /\ outcome' = outcome
      /\ Queued' = Queued /\ BeingDelivered' = BeingDelivered
  BY RefusePlaces DEF RefuseJob, wireVars
<1>2. /\ reply'[j] = "refused" /\ target'[j] = c
      /\ \A k \in Jobs : k # j => reply'[k] = reply[k] /\ target'[k] = target[k]
  BY <1>1 DEF IInv, TypeOK
<1>3. Stage(j) = "new" /\ Stage(j)' = "refused"
  BY <1>1, <1>2, StageOf, StageThen
<1>4. \A k \in Jobs : k # j => Stage(k)' = Stage(k)
  BY <1>1, <1>2, StageSame
<1>5. StageMap' = [StageMap EXCEPT ![j] = "refused"]
  BY <1>3, <1>4 DEF StageMap
<1> QED
  BY <1>1, <1>3, <1>5 DEF Delivery!Refuse, StageMap

\* What a request does to the stages, whether its client's lock is free or not.
LEMMA AcceptStages ==
    ASSUME IInv, PlacesPart, NEW j \in Jobs, NEW c \in Clients, QueueJobForClient(j, c),
           NEW k \in Jobs
    PROVE  /\ Stage(j) = "new" /\ target' = [target EXCEPT ![j] = c]
           /\ k \in BeingDelivered' /\ (k = j \/ k \in Queued) => Stage(k)' = "sending"
           /\ j \notin BeingDelivered' /\ j \in Queued' => Stage(j)' = "queued"
           /\ k # j /\ (k \in BeingDelivered' <=> k \in BeingDelivered)
                    /\ (k \in Queued' <=> k \in Queued) => Stage(k)' = Stage(k)
<1>1. /\ target[j] = None /\ target' = [target EXCEPT ![j] = c] /\ outcome' = outcome
      /\ reply' = [reply EXCEPT ![j] = "waiting"]
  BY DEF QueueJobForClient, WaitForJobCompletion
<1>2. /\ reply'[j] = "waiting" /\ target'[j] = c /\ c # None
      /\ \A i \in Jobs : i # j => reply'[i] = reply[i] /\ target'[i] = target[i]
  BY <1>1, NoneIsNone DEF IInv, TypeOK
<1>3. outcome[j] = "none" /\ Stage(j) = "new"
  BY <1>1, NewJobNowhere, StageOf
<1>4. k \in BeingDelivered' /\ (k = j \/ k \in Queued) => Stage(k)' = "sending"
  BY <1>2, StageThen DEF PlacesPart, NotDoneWith
<1>5. j \notin BeingDelivered' /\ j \in Queued' => Stage(j)' = "queued"
  BY <1>1, <1>2, <1>3, StageThen
<1>6. k # j /\ (k \in BeingDelivered' <=> k \in BeingDelivered)
            /\ (k \in Queued' <=> k \in Queued) => Stage(k)' = Stage(k)
  BY <1>1, <1>2, StageSame
<1> QED
  BY <1>1, <1>3, <1>4, <1>5, <1>6

\* A request that finds the lock taken is Accept, one that finds it free is
\* AcceptAndSend of the first job.
LEMMA QueueRefines ==
    ASSUME IInv, PlacesPart, NEW j \in Jobs, NEW c \in Clients, QueueJobForClient(j, c)
    PROVE  Delivery!Accept(j, c) \/ \E h \in Jobs : Delivery!AcceptAndSend(j, c, h)
<1>0. target[j] = None /\ j \notin Queued /\ j \notin BeingDelivered /\ outcome[j] = "none"
  BY NewJobNowhere DEF QueueJobForClient
<1>1. Stage(j) = "new" /\ target' = [target EXCEPT ![j] = c]
  BY AcceptStages
<1>2. CASE Locked(c)
  <2>1. Queued' = Queued \cup {j} /\ BeingDelivered' = BeingDelivered /\ attempts' = attempts
    BY <1>2, QueueLockedMoves
  <2>2. Stage(j)' = "queued"
    BY <1>0, <2>1, AcceptStages
  <2>3. \A k \in Jobs : k # j => Stage(k)' = Stage(k)
    BY <2>1, AcceptStages
  <2>4. StageMap' = [StageMap EXCEPT ![j] = "queued"]
    BY <2>2, <2>3 DEF StageMap
  <2> QED
    BY <1>1, <2>1, <2>4 DEF Delivery!Accept, StageMap
<1>3. CASE ~ Locked(c)
  <2>1. PICK h \in Jobs : /\ h = j \/ (h \in Queued /\ target[h] = c)
                          /\ Takes(h) /\ Queued' = (Queued \cup {j}) \ {h}
    BY <1>3, QueueUnlockedMoves
  <2>2. BeingDelivered' = BeingDelivered \cup {h} /\ attempts' = [attempts EXCEPT ![h] = @ + 1]
    BY <2>1 DEF Takes
  <2>3. Stage(h)' = "sending"
    BY <2>1, <2>2, AcceptStages
  <2>4. h # j => Stage(j)' = "queued"
    BY <1>0, <2>1, <2>2, AcceptStages
  <2>5. \A k \in Jobs : k # j /\ k # h => Stage(k)' = Stage(k)
    BY <2>1, <2>2, AcceptStages
  <2>6. StageMap' = [[StageMap EXCEPT ![j] = "queued"] EXCEPT ![h] = "sending"]
    BY <2>3, <2>4, <2>5 DEF StageMap
  <2>7. Delivery!Sending(c) = {}
    <3> SUFFICES ASSUME NEW k \in Jobs, target[k] = c, Stage(k) = "sending" PROVE FALSE
      BY DEF Delivery!Sending
    <3>1. k \in BeingDelivered
      BY StageOf
    <3> QED
      BY <1>3, <3>1, NothingOut DEF Locked
  <2>8. h = j \/ (target[h] = c /\ StageMap[h] = "queued")
    BY <2>1, StageOf DEF StageMap
  <2>9. attempts[h] < MaxTries
    <3>1. outcome[h] = "none" /\ h \notin BeingDelivered
      BY <1>0, <2>1, QueuedNotOut DEF PlacesPart, NotDoneWith
    <3> QED
      BY <3>1, TriesLeft
  <2>10. Delivery!AcceptAndSend(j, c, h)
    BY <1>1, <2>2, <2>6, <2>7, <2>8, <2>9 DEF Delivery!AcceptAndSend, StageMap
  <2> QED
    BY <2>10
<1> QED
  BY <1>2, <1>3

\* The loop that goes on is Send of the first job left.
LEMMA DelayRefines ==
    ASSUME IInv, PlacesPart, NEW w \in Jobs, DelayElapses(w)
    PROVE  (\E h \in Jobs : Delivery!Send(h)) \/ UNCHANGED <<StageMap, target, attempts>>
<1>1. UNCHANGED <<reply, target, outcome>> /\ loop[w].pc = "delaying"
  BY DEF DelayElapses, waitVars
<1>2. CASE pendingJobs[loop[w].queue] = <<>>
  <2>1. loop' = [loop EXCEPT ![w] = Idle] /\ UNCHANGED <<pendingJobs, attempts>>
    BY <1>2 DEF DelayElapses, LeaveLoop
  <2>2. \A v \in Jobs : loop'[v].job = loop[v].job
    BY <1>1, <2>1 DEF PlacesPart, JobsOut, Idle, IInv, TypeOK
  <2>3. Queued' = Queued /\ BeingDelivered' = BeingDelivered
    BY <2>1, <2>2 DEF Queued, BeingDelivered
  <2>4. \A k \in Jobs : Stage(k)' = Stage(k)
    BY <1>1, <2>3, StageSame
  <2> QED
    BY <1>1, <2>1, <2>4 DEF StageMap
<1>3. CASE pendingJobs[loop[w].queue] # <<>>
  <2>1. PICK h \in Queued : target[h] = target[w] /\ Takes(h) /\ Queued' = Queued \ {h}
    BY <1>3, DelayMoves
  <2>2. /\ h \in Jobs /\ BeingDelivered' = BeingDelivered \cup {h}
        /\ attempts' = [attempts EXCEPT ![h] = @ + 1]
    BY <2>1 DEF Takes, Queued
  <2>3. outcome[h] = "none" /\ target[h] # None /\ reply[h] # "refused" /\ h \notin BeingDelivered
    BY QueuedNotOut DEF PlacesPart, NotDoneWith
  <2>4. Stage(h) = "queued" /\ Stage(h)' = "sending"
    BY <1>1, <2>2, <2>3, StageOf, StageThen
  <2>5. \A k \in Jobs : k # h => Stage(k)' = Stage(k)
    BY <1>1, <2>1, <2>2, StageSame
  <2>6. StageMap' = [StageMap EXCEPT ![h] = "sending"]
    BY <2>2, <2>4, <2>5 DEF StageMap
  <2>7. Delivery!Sending(target[h]) = {}
    <3> SUFFICES ASSUME NEW k \in Jobs, target[k] = target[h], Stage(k) = "sending" PROVE FALSE
      BY DEF Delivery!Sending
    <3>1. PICK v \in Jobs : Running(v) /\ target[v] = target[k] /\ loop[v].pc = "delivering"
      BY StageOf, NothingOut
    <3>2. Running(w)
      BY <1>1 DEF Running
    <3> QED
      BY <1>1, <2>1, <3>1, <3>2 DEF IInv, LoopPart, LockDiscipline
  <2>8. attempts[h] < MaxTries
    BY <2>2, <2>3, TriesLeft
  <2>9. Delivery!Send(h)
    BY <1>1, <2>2, <2>4, <2>6, <2>7, <2>8 DEF Delivery!Send, StageMap
  <2> QED
    BY <2>2, <2>9
<1> QED
  BY <1>2, <1>3

\* The end of a delivery is Sent, or Failed.
LEMMA DeliveryRefines ==
    ASSUME IInv, PlacesPart, NEW w \in Jobs, DeliveryStep(w)
    PROVE  \E k \in Jobs : Delivery!Sent(k) \/ Delivery!Failed(k)
<1>1. Ends(w) /\ loop[w].pc = "delivering"
  BY DeliveryEnds
<1>2. PICK j \in Jobs : j = loop[w].job /\ j \in BeingDelivered
  BY <1>1, LoopHasJob DEF BeingDelivered
<1>3. /\ outcome[j] = "none" /\ target[j] # None /\ reply[j] # "refused" /\ j \notin Queued
      /\ attempts[j] + priority[j] = 1 /\ Stage(j) = "sending"
  BY <1>2, QueuedNotOut, StageOf DEF PlacesPart, NotDoneWith, TriesCounted
<1>4. BeingDelivered' = BeingDelivered \ {j} /\ UNCHANGED <<attempts, target, reply>>
  BY <1>1, <1>2 DEF Ends
<1>5. \A k \in Jobs : k # j => Stage(k)' = Stage(k)
  <2>1. /\ \A k \in Jobs : k # j => outcome'[k] = outcome[k]
        /\ \A k \in Jobs : k # j => (k \in Queued' <=> k \in Queued)
    BY <1>1, <1>2 DEF Ends, IInv, TypeOK
  <2> QED
    BY <1>4, <2>1, StageSame
<1>6. priority[j] > MinPriority <=> attempts[j] < MaxTries
  <2>1. attempts[j] \in Nat /\ priority[j] \in Int /\ MinPriority \in Int
    BY QueueAssumption DEF IInv, TypeOK
  <2> QED
    BY <1>3, <2>1 DEF MaxTries
<1>7. CASE outcome' = outcome /\ Queued' = Queued \cup {j} /\ priority[j] > MinPriority
  <2>1. Stage(j)' = "queued"
    BY <1>3, <1>4, <1>7, StageThen
  <2>2. StageMap' = [StageMap EXCEPT ![j] = "queued"]
    BY <1>5, <2>1 DEF StageMap
  <2>3. Delivery!Failed(j)
    BY <1>3, <1>4, <1>6, <1>7, <2>2 DEF Delivery!Failed, StageMap
  <2> QED
    BY <2>3
<1>8. CASE outcome' = [outcome EXCEPT ![j] = "dropped"] /\ ~ (priority[j] > MinPriority)
  <2>1. outcome'[j] = "dropped"
    BY <1>8 DEF IInv, TypeOK
  <2>2. Stage(j)' = "dropped"
    BY <1>3, <1>4, <2>1, StageThen
  <2>3. StageMap' = [StageMap EXCEPT ![j] = "dropped"]
    BY <1>5, <2>2 DEF StageMap
  <2>4. Delivery!Failed(j)
    BY <1>3, <1>4, <1>6, <1>8, <2>3 DEF Delivery!Failed, StageMap
  <2> QED
    BY <2>4
<1>9. CASE outcome' = [outcome EXCEPT ![j] = "delivered"]
  <2>1. outcome'[j] = "delivered"
    BY <1>9 DEF IInv, TypeOK
  <2>2. Stage(j)' = "delivered"
    BY <1>3, <1>4, <2>1, StageThen
  <2>3. StageMap' = [StageMap EXCEPT ![j] = "delivered"]
    BY <1>5, <2>2 DEF StageMap
  <2>4. Delivery!Sent(j)
    BY <1>3, <1>4, <2>3 DEF Delivery!Sent, StageMap
  <2> QED
    BY <2>4
<1> QED
  BY <1>1, <1>2, <1>7, <1>8, <1>9 DEF Ends

\* A clear is Clear.
LEMMA ClearRefines ==
    ASSUME IInv, PlacesPart, NEW c \in Clients, ClearClientQueue(c)
    PROVE  \E gone \in SUBSET Jobs : Delivery!Clear(c, gone)
<1>1. PICK gone \in SUBSET Queued : (\A k \in gone : target[k] = c) /\ Queued' = Queued \ gone
  BY ClearMoves
<1>2. BeingDelivered' = BeingDelivered
  BY ClearMoves
<1>3. UNCHANGED <<attempts, target, outcome>> /\ Settle({k \in Jobs : waitingJobs[k] = c})
  BY DEF ClearClientQueue, wireVars
<1>4. \A k \in Jobs : reply'[k] = "refused" <=> reply[k] = "refused"
  <2>1. PICK settled \in SUBSET Jobs : settled = {k \in Jobs : waitingJobs[k] = c}
    OBVIOUS
  <2>2. Settle(settled) /\ \A k \in settled : waitingJobs[k] # None
    BY <1>3, <2>1, NoneIsNone
  <2>3. \A k \in Jobs : \/ reply'[k] = reply[k]
                        \/ target[k] # None /\ reply[k] # "refused" /\ reply'[k] # "refused"
    BY <2>2, SettleReplies
  <2> QED
    BY <2>3
<1>5. gone \in SUBSET Jobs
  BY DEF Queued
<1>6. ASSUME NEW k \in gone PROVE Stage(k) = "queued" /\ Stage(k)' = "cleared"
  <2>1. /\ k \in Jobs /\ k \in Queued /\ k \notin BeingDelivered /\ k \notin Queued'
        /\ outcome[k] = "none" /\ target[k] # None /\ reply[k] # "refused"
    BY <1>1, <1>5, QueuedNotOut DEF PlacesPart, NotDoneWith
  <2> QED
    BY <1>2, <1>3, <1>4, <2>1, StageOf, StageThen
<1>7. \A k \in Jobs : k \notin gone => Stage(k)' = Stage(k)
  BY <1>1, <1>2, <1>3, <1>4, StageSame
<1>8. StageMap' = [k \in Jobs |-> IF k \in gone THEN "cleared" ELSE StageMap[k]]
  BY <1>6, <1>7 DEF StageMap
<1>9. \A k \in gone : target[k] = c /\ StageMap[k] = "queued"
  BY <1>1, <1>5, <1>6 DEF StageMap
<1>10. Delivery!Clear(c, gone)
  BY <1>3, <1>8, <1>9 DEF Delivery!Clear, StageMap
<1> QED
  BY <1>5, <1>10
-----------------------------------------------------------------------------
\* Where the queue and the loops have the same jobs, no stage changes.
LEMMA StutterRefines ==
    ASSUME UNCHANGED <<target, attempts, outcome>>, Queued' = Queued, BeingDelivered' = BeingDelivered,
           \A k \in Jobs : reply'[k] = "refused" <=> reply[k] = "refused"
    PROVE  UNCHANGED <<StageMap, target, attempts>>
<1>1. \A k \in Jobs : Stage(k)' = Stage(k)
  BY StageSame
<1> QED
  BY <1>1 DEF StageMap

\* The end of a wait changes no stage: only jobs that were accepted are waited for.
LEMMA SettleRefines ==
    ASSUME PlacesPart, NEW settled \in SUBSET Jobs, Settle(settled),
           \A k \in settled : waitingJobs[k] # None, UNCHANGED <<queueVars, wireVars, target, clears>>
    PROVE  UNCHANGED <<StageMap, target, attempts>>
<1>1. \A k \in Jobs : reply'[k] = "refused" <=> reply[k] = "refused"
  <2>1. \A k \in Jobs : \/ reply'[k] = reply[k]
                        \/ target[k] # None /\ reply[k] # "refused" /\ reply'[k] # "refused"
    BY SettleReplies
  <2> QED
    BY <2>1
<1>2. UNCHANGED <<target, attempts, outcome>> /\ Queued' = Queued /\ BeingDelivered' = BeingDelivered
  BY SettlePlaces DEF wireVars
<1> QED
  BY <1>1, <1>2, StutterRefines

\* Every step of the queue is a step of JobDelivery, or invisible to it.
LEMMA NextRefines ==
    IInv /\ PlacesPart /\ [Next]_vars => Delivery!Next \/ UNCHANGED <<StageMap, target, attempts>>
<1> DEFINE Goal == Delivery!Next \/ UNCHANGED <<StageMap, target, attempts>>
<1> SUFFICES ASSUME IInv, PlacesPart, [Next]_vars PROVE Goal
  OBVIOUS
<1>1. CASE UNCHANGED vars
  <2>1. UNCHANGED <<target, attempts, outcome, reply, pendingJobs, loop>>
    BY <1>1 DEF vars, queueVars, waitVars, wireVars
  <2>2. Queued' = Queued /\ BeingDelivered' = BeingDelivered
    BY <2>1 DEF Queued, BeingDelivered
  <2> QED
    BY <2>1, <2>2, StutterRefines
<1>2. ASSUME NEW j \in Jobs, NEW c \in Clients, RefuseJob(j, c) \/ QueueJobForClient(j, c)
      PROVE  Goal
  <2>1. CASE RefuseJob(j, c)
    BY <2>1, RefuseRefines DEF Delivery!Next
  <2>2. CASE QueueJobForClient(j, c)
    BY <2>2, QueueRefines DEF Delivery!Next
  <2> QED
    BY <1>2, <2>1, <2>2
<1>3. ASSUME NEW w \in Jobs, DeliveryStep(w) \/ DelayElapses(w) PROVE Goal
  <2>1. CASE DeliveryStep(w)
    BY <2>1, DeliveryRefines DEF Delivery!Next
  <2>2. CASE DelayElapses(w)
    BY <2>2, DelayRefines DEF Delivery!Next
  <2> QED
    BY <1>3, <2>1, <2>2
<1>4. ASSUME NEW j \in Jobs, LateDelivery(j) \/ JobCompleted(j) \/ WaitTimesOut(j) PROVE Goal
  <2>1. CASE LateDelivery(j)
    BY <2>1, LatePlaces, StutterRefines DEF LateDelivery, waitVars
  <2>2. CASE JobCompleted(j) \/ WaitTimesOut(j)
    <3>1. PICK settled \in SUBSET Jobs : settled = {j}
      OBVIOUS
    <3>2. /\ Settle(settled) /\ \A k \in settled : waitingJobs[k] # None
          /\ UNCHANGED <<queueVars, wireVars, target, clears>>
      BY <2>2, <3>1 DEF JobCompleted, WaitTimesOut, IsAwaited
    <3> QED
      BY <3>2, SettleRefines
  <2> QED
    BY <1>4, <2>1, <2>2
<1>5. ASSUME NEW overdue \in SUBSET Jobs, CleanupOrphanedJobs(overdue) PROVE Goal
  BY <1>5, SettleRefines DEF CleanupOrphanedJobs, IsAwaited
<1>6. ASSUME NEW c \in Clients, CleanupStaleQueue(c) \/ ClearClientQueue(c) PROVE Goal
  <2>1. CASE CleanupStaleQueue(c)
    BY <2>1, StalePlaces, StutterRefines DEF CleanupStaleQueue, waitVars, wireVars
  <2>2. CASE ClearClientQueue(c)
    BY <2>2, ClearRefines DEF Delivery!Next
  <2> QED
    BY <1>6, <2>1, <2>2
<1> QED
  BY <1>1, <1>2, <1>3, <1>4, <1>5, <1>6 DEF Next

\* The data structures of the queue keep what JobDelivery promises without them:
\* every step of JobQueueManager is a step of JobDelivery or changes no stage, so
\* a client never has two jobs out, a job is handed over at most MaxTries times,
\* and it ends delivered, dropped or cleared, and stays so.
THEOREM QueueImplementsDelivery == Spec => ImplementsJobDelivery
<1>1. Init => Delivery!Init
  <2> SUFFICES ASSUME Init PROVE Delivery!Init
    OBVIOUS
  <2>1. \A k \in Jobs : target[k] = None /\ reply[k] = "none"
    BY DEF Init
  <2>2. \A k \in Jobs : Stage(k) = "new"
    BY <2>1, StageNow
  <2> QED
    BY <2>2 DEF Init, Delivery!Init
<1>2. IInv /\ PlacesPart /\ [Next]_vars => [Delivery!Next]_Delivery!avars
  BY NextRefines DEF Delivery!avars, StageMap
<1> QED
  BY <1>1, <1>2, PlacesHolds, PTL DEF Spec, ImplementsJobDelivery, Delivery!Spec
=============================================================================
