---------------------------- MODULE JobLifecycle ----------------------------
(***************************************************************************)
(* The life of a scrape job in Redis: its record, and the slot it takes in *)
(* the activeJobs array of a worker's record, with the reward it earns.    *)
(*                                                                         *)
(* db/service.ts (addJobToDB, findOptimalNode, assignJobToClient,          *)
(* updateJobCompleted, markJobAsFailed, updateJobPricingInfo) over         *)
(* db/database.ts (createJob, updateJob, deleteJob), with its three        *)
(* callers: the HTTP request of /rpc/scrapeUrl, the node's answer frame,   *)
(* and job_timeout_monitor.ts.                                             *)
(*                                                                         *)
(* A thread is one asynchronous call chain.  Every Redis command is an     *)
(* await, so a thread keeps what it read while the others run: an action   *)
(* is one command with the code up to the next.  Left to other modules:    *)
(* the indexes updateJob maintains (JobIndex), what happens inside         *)
(* updateClient, one action here (ClientUpdates), and the queue between    *)
(* "queued" and the answer (JobQueueManager).                              *)
(***************************************************************************)
EXTENDS Integers, FiniteSets, FiniteSetsExt

CONSTANTS Jobs,           \* job ids
          Nodes,          \* principals of worker nodes
          Monitors,       \* rounds of the timeout monitor that may overlap
          None,           \* no worker, no job
          MaxConcurrent,  \* maxConcurrentJobs of every node
          MaxAnswers,     \* bound: answer frames of nodes
          MaxDeletions,   \* bound: jobs deleted by an admin
          MaxReconnects,  \* bound: registrations that replace a node's client_id
          MaxPings,       \* bound: PINGs that bring a replaced client_id back
          MaxRestarts     \* bound: crashes of the server process

ASSUME LifecycleAssumption ==
    /\ None \notin Jobs \cup Nodes
    /\ IsFiniteSet(Jobs) /\ IsFiniteSet(Nodes)
    /\ MaxConcurrent \in Nat \ {0}
    /\ {MaxAnswers, MaxDeletions, MaxReconnects, MaxPings, MaxRestarts} \subseteq Nat

States == {"pending", "ongoing", "completed", "failed"}
Terminal == {"completed", "failed"}
Request(j) == <<"request", j>>
Answer(j) == <<"answer", j>>
Monitor(m) == <<"monitor", m>>
Threads == ({"request", "answer"} \X Jobs) \cup ({"monitor"} \X Monitors)

VARIABLES
    job,         \* job -> record in Redis: its state and user_principal_id
    activeJobs,  \* node -> slots in use, in its client record
    balance,     \* node -> rewards credited, one per unit
    clientId,    \* node -> generation of the client_id in its record
    sessions,    \* node -> newest generation given to a session of it
    thread,      \* thread -> where it stands and what it read
    monitor,     \* monitor round -> its snapshot and lists
    queued,      \* jobs handed to the job queue
    answers,     \* answer frames received
    deletions,   \* jobs deleted so far
    pings,       \* PINGs of replaced sessions so far
    restarts     \* crashes so far

redisVars == <<job, activeJobs, balance, clientId>>
serverVars == <<sessions, queued, answers, deletions, pings, restarts>>
vars == <<redisVars, serverVars, thread, monitor>>

NoJob == [state |-> "none", worker |-> None]
JobRecords == [state : States \cup {"none"}, worker : Nodes \cup {None}]
Exists(j) == job[j].state # "none"

\* op: what the thread is doing to its job; cid: the client_id it looks for;
\* slots, credit: the client record it read; old: the job record it read.
Idle == [pc |-> "idle", op |-> "none", job |-> None, node |-> None, cid |-> 0,
         slots |-> {}, credit |-> 0, old |-> NoJob]
NoRound == [pc |-> "idle", nodes |-> {}, slots |-> [n \in Nodes |-> {}],
            cids |-> [n \in Nodes |-> 0], node |-> None, unchecked |-> {},
            cleanup |-> {}, timedOut |-> {}]

Init ==
    /\ job = [j \in Jobs |-> NoJob]
    /\ activeJobs = [n \in Nodes |-> {}]
    /\ balance = [n \in Nodes |-> 0]
    /\ clientId = [n \in Nodes |-> 0]
    /\ sessions = [n \in Nodes |-> 0]
    /\ thread = [t \in Threads |-> Idle]
    /\ monitor = [m \in Monitors |-> NoRound]
    /\ queued = {}
    /\ answers = 0
    /\ deletions = 0
    /\ pings = 0
    /\ restarts = 0
-----------------------------------------------------------------------------
\* A thread starts an operation on job j for the client_id it knows of node n.
Begin(op, j, n, cid) ==
    [Idle EXCEPT !.pc = "clients", !.op = op, !.job = j, !.node = n, !.cid = cid]

\* addJobToDB: createJob, before anybody else knows the id.
CreateJob(j) ==
    /\ thread[Request(j)].pc = "idle"
    /\ job' = [job EXCEPT ![j] = [state |-> "pending", worker |-> None]]
    /\ thread' = [thread EXCEPT ![Request(j)] = [@ EXCEPT !.pc = "find", !.job = j]]
    /\ UNCHANGED <<activeJobs, balance, clientId, monitor, serverVars>>

\* "Check client capacity before assignment".  (Mutant first: <= for <.)
HasCapacity_OffByOne(slots) == Cardinality(slots) <= MaxConcurrent
HasCapacity(slots) == Cardinality(slots) < MaxConcurrent

\* findOptimalNode / findOptimalNodeWithId: one of the nodes with capacity (the
\* freest, or the one the request names); no job or no node ends the request.
FindOptimalNode(j) ==
    /\ thread[Request(j)].pc = "find"
    /\ \/ \E n \in {m \in Nodes : Exists(j) /\ HasCapacity(activeJobs[m])} :
            thread' = [thread EXCEPT ![Request(j)] = Begin("assign", j, n, clientId[n])]
       \/ thread' = [thread EXCEPT ![Request(j)].pc = "done"]
    /\ UNCHANGED <<redisVars, monitor, serverVars>>

\* waitForJobCompletion times out (or an operator clears the queue).
WaitFails(j) ==
    /\ thread[Request(j)].pc = "waiting"
    /\ thread' = [thread EXCEPT ![Request(j)] = Begin("fail", j, @.node, @.cid)]
    /\ UNCHANGED <<redisVars, monitor, serverVars>>

\* handleScrapeResultMessage: a node answers a job that was delivered, not
\* always the node it was assigned to, over a session whose client_id may have
\* been replaced; an empty result fails the job.
AnswerArrives(j, n, cid, op) ==
    /\ j \in queued
    /\ answers < MaxAnswers
    /\ thread[Answer(j)].pc = "idle"
    /\ cid <= sessions[n]
    /\ answers' = answers + 1
    /\ thread' = [thread EXCEPT ![Answer(j)] = Begin(op, j, n, cid)]
    /\ UNCHANGED <<redisVars, monitor, sessions, queued, deletions, pings, restarts>>
-----------------------------------------------------------------------------
\* The 'jobCompleted' event that ends an answer: a request still waiting goes
\* on to price the result, or to fail the job when the answer is an error or
\* the content is judged empty.
Notified(ths, j, ok) ==
    IF ths[Request(j)].pc # "waiting" THEN {ths}
    ELSE {[ths EXCEPT ![Request(j)] = Begin("fail", j, @.node, @.cid)]}
         \cup IF ok THEN {[ths EXCEPT ![Request(j)] = [@ EXCEPT !.pc = "get", !.op = "price"]]}
                    ELSE {}

\* A thread is through with its operation.  assignJobToClient's result is not
\* looked at: assigned or not, the request queues the job and waits, or fails
\* without touching it when the queue is full.
Finish(t, ok) ==
    LET th == thread[t]
        done == [Idle EXCEPT !.pc = "done"]
    IN  IF th.op = "assign"
        THEN \/ /\ queued' = queued \cup {th.job}
                /\ thread' = [thread EXCEPT ![t] = [Begin("none", th.job, th.node, th.cid)
                                                      EXCEPT !.pc = "waiting"]]
             \/ /\ thread' = [thread EXCEPT ![t] = done]
                /\ UNCHANGED queued
        ELSE /\ thread' \in
                  IF t = Request(th.job) THEN {[thread EXCEPT ![t] = done]}
                  ELSE IF t = Answer(th.job)
                  THEN Notified([thread EXCEPT ![t] = Idle], th.job, ok /\ th.op = "complete")
                  ELSE {[thread EXCEPT ![t] = Idle]}
             /\ UNCHANGED queued

\* getAllClients, then the client with this client_id, its capacity when
\* assigning, and the job's existence when completing.
ReadClients(t) ==
    LET th == thread[t]
        found == clientId[th.node] = th.cid
        allowed == CASE th.op = "assign" -> HasCapacity(activeJobs[th.node])
                     [] th.op = "complete" -> Exists(th.job)
                     [] OTHER -> TRUE
    IN  /\ th.pc = "clients"
        /\ IF found /\ allowed
           THEN /\ thread' = [thread EXCEPT ![t] =
                     [@ EXCEPT !.pc = "get", !.slots = activeJobs[th.node],
                               !.credit = IF th.op = "complete" THEN balance[th.node] ELSE 0]]
                /\ UNCHANGED queued
           ELSE Finish(t, FALSE)
        /\ UNCHANGED <<redisVars, monitor, sessions, answers, deletions, pings, restarts>>

\* updateJob is done: the client record comes next, except for pricing.
JobUpdated(t) ==
    IF thread[t].op = "price" THEN Finish(t, TRUE)
    ELSE /\ thread' = [thread EXCEPT ![t] = [@ EXCEPT !.pc = "client", !.old = NoJob]]
         /\ UNCHANGED queued

\* updateJob, its get.  NotFound is not looked at by any caller.
GetJob(t) ==
    LET th == thread[t]
    IN  /\ th.pc = "get"
        /\ IF Exists(th.job)
           THEN /\ thread' = [thread EXCEPT ![t] = [@ EXCEPT !.pc = "set", !.old = job[th.job]]]
                /\ UNCHANGED queued
           ELSE JobUpdated(t)
        /\ UNCHANGED <<redisVars, monitor, sessions, answers, deletions, pings, restarts>>

\* The fields an operation writes; the others are written back as read.
\* (Mutant first: a failed job is offered again.)
Updated_Retry(th) ==
    CASE th.op = "assign" -> [state |-> "ongoing", worker |-> th.node]
      [] th.op = "complete" -> [state |-> "completed", worker |-> th.node]
      [] th.op = "fail" -> [th.old EXCEPT !.state = "pending"]
      [] th.op = "price" -> th.old
Updated(th) ==
    CASE th.op = "assign" -> [state |-> "ongoing", worker |-> th.node]
      [] th.op = "complete" -> [state |-> "completed", worker |-> th.node]
      [] th.op = "fail" -> [th.old EXCEPT !.state = "failed"]
      [] th.op = "price" -> th.old

\* updateJob, its set: the whole record.
SetJob(t) ==
    LET th == thread[t]
    IN  /\ th.pc = "set"
        /\ job' = [job EXCEPT ![th.job] = Updated(th)]
        /\ JobUpdated(t)
        /\ UNCHANGED <<activeJobs, balance, clientId, monitor, sessions, answers, deletions, pings, restarts>>

\* The new activeJobs and balance, both computed from the record read at first.
NewSlots(th) == IF th.op = "assign" THEN th.slots \cup {th.job} ELSE th.slots \ {th.job}

\* (Mutant first: the reward is added to the current balance and again.)
NewBalance_Twice(th) == IF th.op = "complete" THEN th.credit + 2 ELSE balance[th.node]
NewBalance(th) == IF th.op = "complete" THEN th.credit + 1 ELSE balance[th.node]

UpdateClient(t) ==
    LET th == thread[t]
    IN  /\ th.pc = "client"
        /\ activeJobs' = [activeJobs EXCEPT ![th.node] = NewSlots(th)]
        /\ balance' = [balance EXCEPT ![th.node] = NewBalance(th)]
        /\ Finish(t, TRUE)
        /\ UNCHANGED <<job, clientId, monitor, sessions, answers, deletions, pings, restarts>>
-----------------------------------------------------------------------------
\* checkForTimedOutJobs starts: a snapshot of every node.
MonitorStarts(m) ==
    /\ monitor[m].pc = "idle"
    /\ monitor' = [monitor EXCEPT ![m] =
          [NoRound EXCEPT !.pc = "node", !.slots = activeJobs, !.cids = clientId,
                          !.nodes = {n \in Nodes : activeJobs[n] # {}}]]
    /\ UNCHANGED <<redisVars, thread, serverVars>>

\* The next node of the snapshot, or the end of the round.
MonitorNextNode(m) ==
    /\ monitor[m].pc = "node"
    /\ \/ /\ monitor[m].nodes = {}
          /\ monitor' = [monitor EXCEPT ![m] = NoRound]
       \/ \E n \in monitor[m].nodes :
            monitor' = [monitor EXCEPT ![m] = [@ EXCEPT !.pc = "check", !.node = n,
                                                        !.nodes = monitor[m].nodes \ {n},
                                                        !.unchecked = monitor[m].slots[n]]]
    /\ UNCHANGED <<redisVars, thread, serverVars>>

\* Slots of jobs that are gone or terminal only need cleanup.  (Mutant first:
\* only those of jobs that are gone.)
OnlyCleanup_Gone(j) == ~ Exists(j)
OnlyCleanup(j) == ~ Exists(j) \/ job[j].state \in Terminal

\* One getJobWithID of the round; late: the job was assigned more than
\* TIMEOUT_MINUTES before the round.
MonitorChecks(m, j, late) ==
    /\ monitor[m].pc = "check"
    /\ j \in monitor[m].unchecked
    /\ monitor' = [monitor EXCEPT
          ![m] = [@ EXCEPT
             !.unchecked = monitor[m].unchecked \ {j},
             !.cleanup = monitor[m].cleanup \cup IF OnlyCleanup(j) THEN {j} ELSE {},
             !.timedOut = monitor[m].timedOut
                             \cup IF job[j].state = "ongoing" /\ late THEN {j} ELSE {}]]
    /\ UNCHANGED <<redisVars, thread, serverVars>>

\* The cleanup writes the snapshot's activeJobs, filtered.
MonitorCleansUp(m) ==
    LET r == monitor[m]
    IN  /\ r.pc = "check" /\ r.unchecked = {}
        /\ activeJobs' = IF r.cleanup = {} THEN activeJobs
                         ELSE [activeJobs EXCEPT ![r.node] = r.slots[r.node] \ r.cleanup]
        /\ monitor' = [monitor EXCEPT ![m] = [@ EXCEPT !.pc = "fail", !.cleanup = {},
                                                       !.slots[r.node] = {}]]
        /\ UNCHANGED <<job, balance, clientId, thread, serverVars>>

\* markJobAsFailed for each timed out job in turn, then the next node.
MonitorFails(m) ==
    LET r == monitor[m]
    IN  /\ r.pc = "fail"
        /\ thread[Monitor(m)].pc = "idle"
        /\ \/ /\ r.timedOut = {}
              /\ monitor' = [monitor EXCEPT ![m] = [@ EXCEPT !.pc = "node", !.node = None]]
              /\ UNCHANGED thread
           \/ \E j \in r.timedOut :
                /\ monitor' = [monitor EXCEPT ![m].timedOut = @ \ {j}]
                /\ thread' = [thread EXCEPT ![Monitor(m)] = Begin("fail", j, r.node, r.cids[r.node])]
        /\ UNCHANGED <<redisVars, serverVars>>
-----------------------------------------------------------------------------
\* A registration gives the node a new, time-based client_id (clientConnect).
Reconnect(n) ==
    /\ sessions[n] < MaxReconnects
    /\ sessions' = [sessions EXCEPT ![n] = @ + 1]
    /\ clientId' = [clientId EXCEPT ![n] = sessions[n] + 1]
    /\ UNCHANGED <<job, activeJobs, balance, thread, monitor, queued, answers, deletions,
                   pings, restarts>>

\* handlePingMessage: a PING over a session that is still open writes the
\* client_id of that session, although a newer registration replaced it.
Ping(n, cid) ==
    /\ cid \in 0 .. sessions[n] \ {clientId[n]}
    /\ pings < MaxPings
    /\ pings' = pings + 1
    /\ clientId' = [clientId EXCEPT ![n] = cid]
    /\ UNCHANGED <<job, activeJobs, balance, thread, monitor, sessions, queued, answers,
                   deletions, restarts>>

\* deleteJob from the admin's cleanup, whose cutoff may be zero days ago: no
\* job is too young, or too busy, to be deleted.
DeleteJob(j) ==
    /\ Exists(j)
    /\ deletions < MaxDeletions
    /\ job' = [job EXCEPT ![j] = NoJob]
    /\ deletions' = deletions + 1
    /\ UNCHANGED <<activeJobs, balance, clientId, thread, monitor, sessions, queued, answers,
                   pings, restarts>>

\* The process dies: Redis stays, every call chain is gone.
Restart ==
    /\ restarts < MaxRestarts
    /\ restarts' = restarts + 1
    /\ thread' = [t \in Threads |->
          IF t[1] = "request" /\ thread[t] # Idle THEN [Idle EXCEPT !.pc = "done"] ELSE Idle]
    /\ monitor' = [m \in Monitors |-> NoRound]
    /\ UNCHANGED <<redisVars, sessions, queued, answers, deletions, pings>>
-----------------------------------------------------------------------------
RedisStep(t) ==
    ReadClients(t) \/ GetJob(t) \/ SetJob(t) \/ UpdateClient(t)

RequestStep(j) == FindOptimalNode(j) \/ WaitFails(j)

MonitorStep(m) ==
    \/ MonitorStarts(m) \/ MonitorNextNode(m) \/ MonitorCleansUp(m) \/ MonitorFails(m)
    \/ \E j \in Jobs, late \in BOOLEAN : MonitorChecks(m, j, late)

Next ==
    \/ \E j \in Jobs : CreateJob(j) \/ RequestStep(j) \/ DeleteJob(j)
    \/ \E j \in Jobs, n \in Nodes, cid \in 0 .. MaxReconnects, op \in {"complete", "fail"} :
         AnswerArrives(j, n, cid, op)
    \/ \E t \in Threads : RedisStep(t)
    \/ \E m \in Monitors : MonitorStep(m)
    \/ \E n \in Nodes : Reconnect(n) \/ \E cid \in 0 .. MaxReconnects : Ping(n, cid)
    \/ Restart

Spec == Init /\ [][Next]_vars

\* Redis answers, timers fire, the monitor's interval keeps running, and a job
\* it finds again and again is overdue at last; no node has to answer.  The chains
\* of requests and answers end, so fairness to them together is fairness to each.
Fairness ==
    /\ WF_vars(\E j \in Jobs :
                 RequestStep(j) \/ RedisStep(Request(j)) \/ RedisStep(Answer(j)))
    /\ \A m \in Monitors :
          /\ WF_vars(MonitorStep(m) \/ RedisStep(Monitor(m)))
          /\ \A j \in Jobs : SF_vars(MonitorChecks(m, j, TRUE))

FairSpec == Spec /\ Fairness
-----------------------------------------------------------------------------
ThreadRecords ==
    [pc : {"idle", "find", "clients", "get", "set", "client", "waiting", "done"},
     op : {"none", "assign", "complete", "fail", "price"},
     job : Jobs \cup {None}, node : Nodes \cup {None}, cid : Nat,
     slots : SUBSET Jobs, credit : Nat, old : JobRecords]

Rounds ==
    [pc : {"idle", "node", "check", "fail"}, nodes : SUBSET Nodes, slots : [Nodes -> SUBSET Jobs],
     cids : [Nodes -> Nat], node : Nodes \cup {None}, unchecked : SUBSET Jobs,
     cleanup : SUBSET Jobs, timedOut : SUBSET Jobs]

\* The records the threads and rounds carry between awaits are well formed.
TypeOK ==
    /\ job \in [Jobs -> JobRecords]
    /\ activeJobs \in [Nodes -> SUBSET Jobs]
    /\ balance \in [Nodes -> Nat]
    /\ clientId \in [Nodes -> 0 .. MaxReconnects]
    /\ sessions \in [Nodes -> 0 .. MaxReconnects]
    /\ \A n \in Nodes : clientId[n] <= sessions[n]
    /\ thread \in [Threads -> ThreadRecords]
    /\ monitor \in [Monitors -> Rounds]
    /\ queued \in SUBSET Jobs
    /\ answers \in 0 .. MaxAnswers
    /\ deletions \in 0 .. MaxDeletions
    /\ pings \in 0 .. MaxPings
    /\ restarts \in 0 .. MaxRestarts

\* activeJobs never holds more than maxConcurrentJobs entries, although every
\* writer computes it from a record it read several awaits before: stale
\* writes lose slots, they never add one beyond the capacity.
ActiveWithinCapacity == \A n \in Nodes : Cardinality(activeJobs[n]) <= MaxConcurrent

\* Every reward credited is explained by an answer frame of its own: no frame
\* pays twice, whichever handlers of other jobs it overlaps with.
NeverOverpaid == SumFunction(balance) <= answers

\* A job that reached a terminal state is never pending or ongoing again, in
\* spite of updates that write back a whole record read earlier.
NeverReopened ==
    [][\A j \in Jobs : job[j].state \in Terminal => job'[j].state \in Terminal \cup {"none"}]_vars

\* Every slot is freed in the end, also one a stale write brought back, or
\* whose answer, request or process got lost.  Jobs are finitely many, so that
\* this is for all slots to be free at once.
SlotEventuallyFreed == []<>(\A n \in Nodes : activeJobs[n] = {})

\* JOB_TIMEOUT_MONITOR.md: the monitor "prevents jobs from getting stuck in the
\* 'ongoing' state indefinitely".
OngoingJobEnds == \A j \in Jobs : job[j].state = "ongoing" ~> job[j].state # "ongoing"
=============================================================================
