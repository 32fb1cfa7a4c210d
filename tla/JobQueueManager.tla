-------------------------- MODULE JobQueueManager --------------------------
(***************************************************************************)
(* services/job_queue_manager.ts: the in-memory delivery queue of the      *)
(* websocket server, with the HTTP requests of /rpc/scrapeUrl that feed it *)
(* and wait on it, and the 'deliverJob' listener of rpc_routes.ts that     *)
(* carries a job to a node's socket.                                       *)
(*                                                                         *)
(* JavaScript runs one callback at a time, so an action is the code from   *)
(* one suspension point (await, timer, event) to the next.                 *)
(*                                                                         *)
(* Identity.  queueJobForClient is called once per job, so the queue       *)
(* object a call creates and the processClientQueue loop it starts are     *)
(* both named after the call's job.  The loop keeps the queue OBJECT it    *)
(* looked up: clearing a client removes the object from the map, not from  *)
(* the hands of the loop.                                                  *)
(***************************************************************************)
EXTENDS Integers, FiniteSets, SequencesExt

CONSTANTS Jobs,         \* job ids, each from one /rpc/scrapeUrl request
          Clients,      \* client ids of worker nodes
          None,         \* absent map entry, no client, no job
          MaxQueueSize, \* MAX_QUEUE_SIZE
          MinPriority,  \* the priority at which a failing job is dropped (-5 in the code)
          MaxClears     \* bound: calls of clearClientQueue

ASSUME QueueAssumption ==
    /\ None \notin Jobs /\ None \notin Clients
    /\ IsFiniteSet(Jobs)
    /\ MaxQueueSize \in Nat \ {0}
    /\ MinPriority \in Int /\ MinPriority <= 0
    /\ MaxClears \in Nat

VARIABLES
    clientQueues,     \* client -> queue object in the map, or None
    pendingJobs,      \* queue object -> its pending jobs
    isProcessing,     \* queue object -> flag
    processingLocks,  \* clients whose queue is being processed
    priority,         \* job -> its current priority
    loop,             \* caller -> its processClientQueue activation
    waitingJobs,      \* job -> client whose answer is awaited, or None
    clientJobCounts,  \* client -> number of awaited jobs
    target,           \* job -> client it was queued for, or None
    reply,            \* job -> the state of its HTTP request
    late,             \* job -> listener calls that outlived the delivery timeout
    attempts,         \* job -> 'deliverJob' events emitted      (history)
    timeouts,         \* job -> deliveries that timed out        (history)
    sent,             \* job -> frames written to a node socket  (history)
    outcome,          \* job -> how the queue was done with it   (history)
    clears            \* calls of clearClientQueue               (bound)

queueVars == <<clientQueues, pendingJobs, isProcessing, processingLocks, priority, loop>>
waitVars == <<waitingJobs, clientJobCounts, reply>>
wireVars == <<late, attempts, timeouts, sent, outcome>>
vars == <<queueVars, waitVars, wireVars, target, clears>>

Idle == [pc |-> "idle", queue |-> None, job |-> None]
Activations ==
    [pc : {"idle", "delivering", "delaying"}, queue : Jobs \cup {None}, job : Jobs \cup {None}]
Replies == {"none", "refused", "waiting", "settled"}
Outcomes == {"none", "delivered", "dropped"}
MaxTries == 1 - MinPriority

Init ==
    /\ clientQueues = [c \in Clients |-> None]
    /\ pendingJobs = [q \in Jobs |-> <<>>]
    /\ isProcessing = [q \in Jobs |-> FALSE]
    /\ processingLocks = {}
    /\ priority = [j \in Jobs |-> 0]
    /\ loop = [w \in Jobs |-> Idle]
    /\ waitingJobs = [j \in Jobs |-> None]
    /\ clientJobCounts = [c \in Clients |-> 0]
    /\ target = [j \in Jobs |-> None]
    /\ reply = [j \in Jobs |-> "none"]
    /\ late = [j \in Jobs |-> 0]
    /\ attempts = [j \in Jobs |-> 0]
    /\ timeouts = [j \in Jobs |-> 0]
    /\ sent = [j \in Jobs |-> 0]
    /\ outcome = [j \in Jobs |-> "none"]
    /\ clears = 0
-----------------------------------------------------------------------------
\* The queue object a call for job j sees: the one in the map, or its own new one.
QueueFor(c, j) == IF clientQueues[c] = None THEN j ELSE clientQueues[c]

\* "Check queue size limit"; an absent queue is created empty.
\* (Mutant first: > for >=.)
IsFull_OffByOne(c) == clientQueues[c] # None /\ Len(pendingJobs[clientQueues[c]]) > MaxQueueSize
IsFull(c) == clientQueues[c] # None /\ Len(pendingJobs[clientQueues[c]]) >= MaxQueueSize

\* findIndex(job => job.priority < priority), then splice or push.  Callers
\* always queue with priority 0.
InsertByPriority(s, j) ==
    LET i == SelectInSeq(s, LAMBDA k : priority[k] < priority[j])
    IN  IF i = 0 THEN Append(s, j) ELSE InsertAt(s, i, j)

\* "Prevent concurrent processing of the same client's queue".
Locked_Never(c) == FALSE \* mutant: the guard is gone
Locked(c) == c \in processingLocks

\* The loop body up to its await: shift the first job and emit 'deliverJob'.
Deliver(w, q, pending) ==
    /\ loop' = [loop EXCEPT ![w] = [pc |-> "delivering", queue |-> q, job |-> Head(pending)]]
    /\ pendingJobs' = [pendingJobs EXCEPT ![q] = Tail(pending)]
    /\ attempts' = [attempts EXCEPT ![Head(pending)] = @ + 1]

\* Leaving the loop: the flag is reset on the loop's object, the lock released.
\* (Mutant first: a path that forgets the lock.)
LeaveLoop_KeepLock(w) ==
    /\ loop' = [loop EXCEPT ![w] = Idle]
    /\ isProcessing' = [isProcessing EXCEPT ![loop[w].queue] = FALSE]
    /\ UNCHANGED processingLocks
LeaveLoop(w) ==
    /\ loop' = [loop EXCEPT ![w] = Idle]
    /\ isProcessing' = [isProcessing EXCEPT ![loop[w].queue] = FALSE]
    /\ processingLocks' = processingLocks \ {target[w]}

\* processClientQueue(c), called by the request of job w on a non-empty queue
\* whose contents are now `pending`.
ProcessClientQueue(w, c, q, pending) ==
    IF Locked(c)
    THEN /\ pendingJobs' = [pendingJobs EXCEPT ![q] = pending]
         /\ UNCHANGED <<isProcessing, processingLocks, loop, attempts>>
    ELSE /\ processingLocks' = processingLocks \cup {c}
         /\ isProcessing' = [isProcessing EXCEPT ![q] = TRUE]
         /\ Deliver(w, q, pending)

\* waitForJobCompletion: no I/O separates it from queueJobForClient in scrapeUrl.
WaitForJobCompletion(j, c) ==
    /\ waitingJobs' = [waitingJobs EXCEPT ![j] = c]
    /\ clientJobCounts' = [clientJobCounts EXCEPT ![c] = @ + 1]
    /\ reply' = [reply EXCEPT ![j] = "waiting"]

\* queueJobForClient on a full queue: the request fails at once.
RefuseJob(j, c) ==
    /\ target[j] = None
    /\ IsFull(c)
    /\ target' = [target EXCEPT ![j] = c]
    /\ reply' = [reply EXCEPT ![j] = "refused"]
    /\ UNCHANGED <<queueVars, waitingJobs, clientJobCounts, wireVars, clears>>

\* queueJobForClient: enqueue, start the loop if none runs, then wait.
QueueJobForClient(j, c) ==
    /\ target[j] = None
    /\ ~ IsFull(c)
    /\ target' = [target EXCEPT ![j] = c]
    /\ clientQueues' = [clientQueues EXCEPT ![c] = QueueFor(c, j)]
    /\ ProcessClientQueue(j, c, QueueFor(c, j), InsertByPriority(pendingJobs[QueueFor(c, j)], j))
    /\ WaitForJobCompletion(j, c)
    /\ UNCHANGED <<priority, late, timeouts, sent, outcome, clears>>
-----------------------------------------------------------------------------
\* After a delivery: pause for JOB_DELIVERY_DELAY if jobs remain, else leave.
AfterDelivery(w, pending) ==
    /\ pendingJobs' = [pendingJobs EXCEPT ![loop[w].queue] = pending]
    /\ IF pending # <<>>
       THEN /\ loop' = [loop EXCEPT ![w] =
                          [pc |-> "delaying", queue |-> loop[w].queue, job |-> None]]
            /\ UNCHANGED <<isProcessing, processingLocks>>
       ELSE LeaveLoop(w)

\* A failed delivery: "Re-queue job with lower priority", or drop it at the limit.
\* (Mutants: >= for >; a failed job that is not put back.)
CanRetry_OffByOne(j) == priority[j] >= MinPriority
CanRetry(j) == priority[j] > MinPriority

Requeued_Lost(j, pending) == pending
Requeued(j, pending) == Cons(j, pending)

DeliveryFailed(w) ==
    LET j == loop[w].job
        pending == pendingJobs[loop[w].queue]
    IN  IF CanRetry(j)
        THEN /\ priority' = [priority EXCEPT ![j] = @ - 1]
             /\ AfterDelivery(w, Requeued(j, pending))
             /\ UNCHANGED outcome
        ELSE /\ outcome' = [outcome EXCEPT ![j] = "dropped"]
             /\ AfterDelivery(w, pending)
             /\ UNCHANGED priority

\* The frame of job j reaches a socket, or not: sendJobToClient answers success
\* also when authentication failed or the socket was no longer open.
\* (Mutant first: the fallback session gets the frame as well.)
Written_Twice(j, reached) == sent' = [sent EXCEPT ![j] = IF reached THEN @ + 2 ELSE @]
Written(j, reached) == sent' = [sent EXCEPT ![j] = IF reached THEN @ + 1 ELSE @]

\* The listener calls back in time, with success.
DeliverySucceeds(w, reached) ==
    /\ loop[w].pc = "delivering"
    /\ outcome' = [outcome EXCEPT ![loop[w].job] = "delivered"]
    /\ Written(loop[w].job, reached)
    /\ AfterDelivery(w, pendingJobs[loop[w].queue])
    /\ UNCHANGED <<clientQueues, priority, waitVars, late, attempts, timeouts, target, clears>>

\* The listener calls back in time, with an error: no registered client.
DeliveryRefused(w) ==
    /\ loop[w].pc = "delivering"
    /\ DeliveryFailed(w)
    /\ UNCHANGED <<clientQueues, waitVars, late, attempts, timeouts, sent, target, clears>>

\* The delivery timer fires first: the loop takes it for a failure while the
\* listener is still running.
DeliveryTimesOut(w) ==
    /\ loop[w].pc = "delivering"
    /\ late' = [late EXCEPT ![loop[w].job] = @ + 1]
    /\ timeouts' = [timeouts EXCEPT ![loop[w].job] = @ + 1]
    /\ DeliveryFailed(w)
    /\ UNCHANGED <<clientQueues, waitVars, attempts, sent, target, clears>>

\* A listener that outlived its timeout writes its frame after all; its callback
\* is ignored.  (One that never does stays in `late`.)
LateDelivery(j) ==
    /\ late[j] > 0
    /\ Written(j, TRUE)
    /\ late' = [late EXCEPT ![j] = @ - 1]
    /\ UNCHANGED <<queueVars, waitVars, attempts, timeouts, outcome, target, clears>>

\* JOB_DELIVERY_DELAY is over: the while condition is tested again, on the
\* loop's own object, which a clear may have emptied meanwhile.
DelayElapses(w) ==
    LET q == loop[w].queue
    IN  /\ loop[w].pc = "delaying"
        /\ IF pendingJobs[q] = <<>>
           THEN LeaveLoop(w) /\ UNCHANGED <<pendingJobs, attempts>>
           ELSE Deliver(w, q, pendingJobs[q]) /\ UNCHANGED <<isProcessing, processingLocks>>
        /\ UNCHANGED <<clientQueues, priority, waitVars, late, timeouts, sent, outcome, target, clears>>
-----------------------------------------------------------------------------
\* Removing the waiting promises of a set of jobs, each with the client's
\* count decremented unless it is zero already.  (Mutant first: no decrement.)
Decremented_Forgotten(counts, c, n) == counts[c]
Decremented(counts, c, n) == IF counts[c] >= n THEN counts[c] - n ELSE 0

Settle(settled) ==
    /\ waitingJobs' = [j \in Jobs |-> IF j \in settled THEN None ELSE waitingJobs[j]]
    /\ clientJobCounts' = [c \in Clients |->
          Decremented(clientJobCounts, c, Cardinality({j \in settled : waitingJobs[j] = c}))]
    /\ reply' = [j \in Jobs |-> IF j \in settled THEN "settled" ELSE reply[j]]

\* resolveJobCompletion / rejectJobCompletion, on the node's answer to a job it got.
IsAwaited(j) == waitingJobs[j] # None

JobCompleted(j) ==
    /\ sent[j] > 0
    /\ IsAwaited(j)
    /\ Settle({j})
    /\ UNCHANGED <<queueVars, wireVars, target, clears>>

\* The timer of waitForJobCompletion.
WaitTimesOut(j) ==
    /\ IsAwaited(j)
    /\ Settle({j})
    /\ UNCHANGED <<queueVars, wireVars, target, clears>>

\* cleanupOrphanedJobs: rejects all it finds overdue.  Time is abstracted.
CleanupOrphanedJobs(overdue) ==
    /\ overdue # {}
    /\ \A j \in overdue : IsAwaited(j)
    /\ Settle(overdue)
    /\ UNCHANGED <<queueVars, wireVars, target, clears>>

\* cleanupStaleQueues, for one client: an empty, unprocessed, old queue goes.
IsStale(q) == pendingJobs[q] = <<>> /\ ~ isProcessing[q]

CleanupStaleQueue(c) ==
    /\ clientQueues[c] # None
    /\ IsStale(clientQueues[c])
    /\ clientQueues' = [clientQueues EXCEPT ![c] = None]
    /\ UNCHANGED <<pendingJobs, isProcessing, processingLocks, priority, loop, waitVars,
                   wireVars, target, clears>>

\* clearClientQueue (DELETE /system/client/:clientId/queue).  The lock and the
\* running loop are left alone.
ClearClientQueue(c) ==
    LET q == clientQueues[c]
    IN  /\ clears < MaxClears
        /\ clears' = clears + 1
        /\ IF q = None
           THEN UNCHANGED <<pendingJobs, isProcessing, clientQueues>>
           ELSE /\ pendingJobs' = [pendingJobs EXCEPT ![q] = <<>>]
                /\ isProcessing' = [isProcessing EXCEPT ![q] = FALSE]
                /\ clientQueues' = [clientQueues EXCEPT ![c] = None]
        /\ Settle({j \in Jobs : waitingJobs[j] = c})
        /\ UNCHANGED <<processingLocks, priority, loop, wireVars, target>>
-----------------------------------------------------------------------------
DeliveryStep(w) ==
    \/ \E reached \in BOOLEAN : DeliverySucceeds(w, reached)
    \/ DeliveryRefused(w)
    \/ DeliveryTimesOut(w)

Next ==
    \/ \E j \in Jobs, c \in Clients : RefuseJob(j, c) \/ QueueJobForClient(j, c)
    \/ \E w \in Jobs : DeliveryStep(w) \/ DelayElapses(w)
    \/ \E j \in Jobs : LateDelivery(j) \/ JobCompleted(j) \/ WaitTimesOut(j)
    \/ \E overdue \in SUBSET Jobs : CleanupOrphanedJobs(overdue)
    \/ \E c \in Clients : CleanupStaleQueue(c) \/ ClearClientQueue(c)

Spec == Init /\ [][Next]_vars

\* Timers fire and the promises they race resolve; nothing forces a node to
\* answer, a job to be queued or an operator to clear.
Fairness ==
    /\ \A w \in Jobs : WF_vars(DeliveryStep(w)) /\ WF_vars(DelayElapses(w))
    /\ \A j \in Jobs : WF_vars(WaitTimesOut(j))

FairSpec == Spec /\ Fairness
-----------------------------------------------------------------------------
\* The maps, the queue objects and what a suspended loop holds are well formed;
\* no failing job's priority sinks below the limit at which it is dropped.
TypeOK ==
    /\ clientQueues \in [Clients -> Jobs \cup {None}]
    /\ pendingJobs \in [Jobs -> Seq(Jobs)]
    /\ isProcessing \in [Jobs -> BOOLEAN]
    /\ processingLocks \in SUBSET Clients
    /\ priority \in [Jobs -> MinPriority .. 0]
    /\ loop \in [Jobs -> Activations]
    /\ waitingJobs \in [Jobs -> Clients \cup {None}]
    /\ clientJobCounts \in [Clients -> Nat]
    /\ target \in [Jobs -> Clients \cup {None}]
    /\ reply \in [Jobs -> Replies]
    /\ late \in [Jobs -> Nat]
    /\ attempts \in [Jobs -> Nat]
    /\ timeouts \in [Jobs -> Nat]
    /\ sent \in [Jobs -> Nat]
    /\ outcome \in [Jobs -> Outcomes]
    /\ clears \in 0 .. MaxClears

Running(w) == loop[w].pc # "idle"
Accepted(j) == target[j] # None /\ reply[j] # "refused"

\* "Prevent concurrent processing of the same client's queue": a client's lock
\* is held exactly while one loop, and only one, works for that client.
LockDiscipline ==
    /\ \A c \in Clients : c \in processingLocks <=> \E w \in Jobs : Running(w) /\ target[w] = c
    /\ \A v, w \in Jobs : Running(v) /\ Running(w) /\ target[v] = target[w] => v = w

\* The flag cleanupStaleQueues trusts tells the truth about every queue in the
\* map, whatever clears and cleanups happened while loops were suspended.
FlagMatchesLoop ==
    \A c \in Clients : clientQueues[c] # None =>
        (isProcessing[clientQueues[c]] <=> \E w \in Jobs : Running(w) /\ loop[w].queue = clientQueues[c])

\* What processClientQueue and the cleanups go by, the lock and the flag, tells
\* which loops are suspended somewhere, and on which object.
LoopsAreTracked == LockDiscipline /\ FlagMatchesLoop

\* A job is never queued twice, nor queued while being delivered, and until an
\* operator clears a queue no accepted job is lost before it is delivered or dropped.
Places(j) ==
    {p \in Jobs \X (1 .. MaxQueueSize + 1) :
        p[2] <= Len(pendingJobs[p[1]]) /\ pendingJobs[p[1]][p[2]] = j}
    \cup {<<w, 0>> : w \in {v \in Jobs : loop[v].job = j}}
JobInOnePlace ==
    \A j \in Jobs :
        /\ Cardinality(Places(j)) <= 1
        /\ Accepted(j) /\ clears = 0 => (Places(j) = {} <=> outcome[j] # "none")

\* clientJobCounts, decremented "if > 0" on four paths and deleted on a fifth,
\* is the number of promises waiting for the client.
CountMatchesWaiting ==
    \A c \in Clients : clientJobCounts[c] = Cardinality({j \in Jobs : waitingJobs[j] = c})

\* A job reaches a node twice only through a delivery timeout: each timeout
\* explains at most one extra frame.
DuplicatesOnlyFromTimeouts ==
    \A j \in Jobs :
        sent[j] + late[j] <= timeouts[j] + (IF outcome[j] = "delivered" THEN 1 ELSE 0)

\* What bounds a queue in fact: the limit, plus the job put back after a failure.
QueueBounded ==
    \A c \in Clients : LET q == clientQueues[c] IN
        q # None =>
            Len(pendingJobs[q])
                + Cardinality({w \in Jobs : loop[w].queue = q /\ loop[w].pc = "delivering"})
              <= MaxQueueSize + 1

\* No lock is held for ever, whatever is cleared while its loop is suspended.
LockEventuallyReleased == \A c \in Clients : []<>(c \notin processingLocks)

\* Without clears, every accepted job is delivered or dropped in the end.
EveryJobLeavesQueue ==
    \A j \in Jobs : Accepted(j) ~> (outcome[j] # "none" \/ clears > 0)

\* "Job queued for delivery": what queueJobForClient tells its caller.  Stated
\* with clears: a job is at least tried, or removed by a clear.
QueuedJobIsTried ==
    \A j \in Jobs : (\E q \in Jobs : j \in Range(pendingJobs[q])) ~>
                        ~ (\E q \in Jobs : j \in Range(pendingJobs[q]))

\* The queue implements JobDelivery: a job's stage, read off the data structures.
Stage(j) ==
    IF reply[j] = "refused" THEN "refused"
    ELSE IF target[j] = None THEN "new"
    ELSE IF \E w \in Jobs : loop[w].job = j THEN "sending"
    ELSE IF outcome[j] # "none" THEN outcome[j]
    ELSE IF \E q \in Jobs : j \in Range(pendingJobs[q]) THEN "queued"
    ELSE "cleared"

Delivery == INSTANCE JobDelivery
    WITH stage <- [j \in Jobs |-> Stage(j)], owner <- target, tries <- attempts, NoClient <- None

ImplementsJobDelivery == Delivery!Spec
=============================================================================
