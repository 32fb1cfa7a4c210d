------------------------ MODULE JobLifecycle_proofs ------------------------
(***************************************************************************)
(* What holds of the life of a job for any sets of jobs, nodes and rounds  *)
(* of the monitor: no client record holds more slots than it may, every    *)
(* reward has an answer frame of its own, and a job that ended stays so.   *)
(*                                                                         *)
(* The threads keep copies of records over their awaits, so the invariant  *)
(* is about the copies as much as about Redis.  It says which operations   *)
(* the threads of each kind are at, bounds every copy of the slots, says   *)
(* who may know of a job before it is assigned, what was seen of a job     *)
(* that is completed or priced, and bounds what each node has earned by    *)
(* shares of the answer frames, of which those being handled are kept for  *)
(* the rewards they will write.                                            *)
(***************************************************************************)
EXTENDS JobLifecycle, SumLemmas, TLAPS

Working == {"get", "set", "client"}   \* a thread that has read the client record
Operations == {"assign", "complete", "fail", "price"}

\* Which operations the threads of each kind are at, and for whom.
WellBegun(t, th) ==
    /\ th.pc \in {"clients"} \cup Working =>
          th.op \in Operations /\ th.job \in Jobs /\ th.node \in Nodes
    /\ th.pc \in {"idle", "find", "waiting", "done"} => th.op = "none"
    /\ th.op = "price" => th.pc \in {"get", "set"}
    /\ t[1] = "request" =>
          /\ th.op \in {"none", "assign", "fail", "price"}
          /\ th.pc \notin {"idle", "done"} => th.job = t[2]
          /\ th.pc = "waiting" => th.node \in Nodes
    /\ t[1] = "answer" =>
          /\ th.op \in {"none", "complete", "fail"}
          /\ th.pc \in {"idle", "clients"} \cup Working
          /\ th.pc # "idle" => th.job = t[2]
    /\ t[1] = "monitor" =>
          /\ th.op \in {"none", "fail"}
          /\ th.pc \in {"idle", "clients"} \cup Working
ThreadsBegun == \A t \in Threads : WellBegun(t, thread[t])

\* No copy of a client record holds too many slots, and an assignment adds its own
\* to one that has room.
SlotsBounded(th) ==
    /\ Cardinality(th.slots) <= MaxConcurrent
    /\ th.op = "assign" /\ th.pc \in Working => HasCapacity(th.slots)
CopiesWithinCapacity ==
    /\ \A t \in Threads : SlotsBounded(thread[t])
    /\ \A m \in Monitors, n \in Nodes : Cardinality(monitor[m].slots[n]) <= MaxConcurrent

RoundsBegun == \A m \in Monitors : monitor[m].pc \in {"check", "fail"} => monitor[m].node \in Nodes

\* Until its assignment has been written, only the request knows a job ...
Unassigned(j) ==
    \/ thread[Request(j)].pc \in {"idle", "find"}
    \/ thread[Request(j)].op = "assign" /\ thread[Request(j)].pc \in {"clients", "get", "set"}
Unknown(j) ==
    /\ job[j].state \in {"none", "pending"}
    /\ j \notin queued
    /\ thread[Answer(j)].pc = "idle"
    /\ \A m \in Monitors :
          /\ j \notin monitor[m].timedOut
          /\ thread[Monitor(m)].pc # "idle" => thread[Monitor(m)].job # j
UnassignedIsUnknown == \A j \in Jobs : Unassigned(j) => Unknown(j)

\* ... and a job that was completed, or is being priced, has ended.
Ended(j) == job[j].state \in Terminal \cup {"none"}
EndedStaysEnded ==
    \A j \in Jobs :
        /\ thread[Answer(j)].op = "complete" /\ thread[Answer(j)].pc = "client" => Ended(j)
        /\ thread[Request(j)].op = "price" => Ended(j)
        /\ thread[Request(j)].op = "price" /\ thread[Request(j)].pc = "set" =>
              thread[Request(j)].old.state \in Terminal

\* A bound on what each node has earned: every answer that is still to credit a
\* node has its share in the bound, and so has every copy of its balance.
Completing(n) ==
    {j \in Jobs : thread[Answer(j)].op = "complete" /\ thread[Answer(j)].node = n}
Bounds(earned) ==
    /\ \A n \in Nodes : balance[n] + Cardinality(Completing(n)) <= earned[n]
    /\ \A j \in Jobs :
          LET th == thread[Answer(j)] IN
          th.op = "complete" => th.credit + Cardinality(Completing(th.node)) <= earned[th.node]
EarningsBounded ==
    \E earned \in [Nodes -> Nat] : SumFunctionOnSet(earned, Nodes) <= answers /\ Bounds(earned)

IInv ==
    /\ TypeOK /\ ThreadsBegun /\ RoundsBegun
    /\ ActiveWithinCapacity /\ CopiesWithinCapacity
    /\ UnassignedIsUnknown /\ EndedStaysEnded
    /\ EarningsBounded
-----------------------------------------------------------------------------
\* The names of threads tell their kinds and jobs apart.
LEMMA ThreadNames ==
    /\ \A j \in Jobs : /\ Request(j) \in Threads /\ Request(j)[1] = "request" /\ Request(j)[2] = j
                       /\ Answer(j) \in Threads /\ Answer(j)[1] = "answer" /\ Answer(j)[2] = j
    /\ \A m \in Monitors : Monitor(m) \in Threads /\ Monitor(m)[1] = "monitor" /\ Monitor(m)[2] = m
    /\ \A t \in Threads :
          \/ t[1] = "request" /\ t[2] \in Jobs /\ t = Request(t[2])
          \/ t[1] = "answer" /\ t[2] \in Jobs /\ t = Answer(t[2])
          \/ t[1] = "monitor" /\ t[2] \in Monitors /\ t = Monitor(t[2])
BY DEF Threads, Request, Answer, Monitor

\* What a thread may be at, all in one.
GoodThread(t, th) == th \in ThreadRecords /\ WellBegun(t, th) /\ SlotsBounded(th)

LEMMA GoodThreads ==
    ASSUME IInv
    PROVE  /\ thread \in [Threads -> ThreadRecords]
           /\ \A t \in Threads : GoodThread(t, thread[t])
BY DEF IInv, TypeOK, ThreadsBegun, CopiesWithinCapacity, GoodThread

LEMMA GoodThreadsNext ==
    ASSUME thread' \in [Threads -> ThreadRecords],
           \A t \in Threads : GoodThread(t, thread'[t])
    PROVE  ThreadsBegun' /\ \A t \in Threads : SlotsBounded(thread'[t])
BY DEF ThreadsBegun, GoodThread

\* The records threads start with.
LEMMA EmptyRecords ==
    /\ NoJob \in JobRecords /\ NoJob.state = "none"
    /\ Idle \in ThreadRecords /\ Idle.pc = "idle" /\ Idle.op = "none" /\ Idle.slots = {}
    /\ Cardinality(Idle.slots) = 0
<1>1. NoJob \in JobRecords /\ NoJob.state = "none"
  BY DEF NoJob, JobRecords
<1>2. Cardinality({}) = 0
  BY FS_EmptySet
<1> QED
  BY <1>1, <1>2 DEF Idle, ThreadRecords

LEMMA BeginFields ==
    ASSUME NEW op, NEW j, NEW n, NEW cid
    PROVE  Begin(op, j, n, cid) =
             [pc |-> "clients", op |-> op, job |-> j, node |-> n, cid |-> cid, slots |-> {},
              credit |-> 0, old |-> NoJob]
<1>1. PICK a : a = [Idle EXCEPT !.pc = "clients"]
  OBVIOUS
<1>2. PICK b : b = [a EXCEPT !.op = op]
  OBVIOUS
<1>3. PICK c : c = [b EXCEPT !.job = j]
  OBVIOUS
<1>4. PICK d : d = [c EXCEPT !.node = n]
  OBVIOUS
<1>5. a = [pc |-> "clients", op |-> "none", job |-> None, node |-> None, cid |-> 0, slots |-> {},
           credit |-> 0, old |-> NoJob]
  BY <1>1 DEF Idle
<1>6. b = [pc |-> "clients", op |-> op, job |-> None, node |-> None, cid |-> 0, slots |-> {},
           credit |-> 0, old |-> NoJob]
  BY <1>2, <1>5
<1>7. c = [pc |-> "clients", op |-> op, job |-> j, node |-> None, cid |-> 0, slots |-> {},
           credit |-> 0, old |-> NoJob]
  BY <1>3, <1>6
<1>8. d = [pc |-> "clients", op |-> op, job |-> j, node |-> n, cid |-> 0, slots |-> {},
           credit |-> 0, old |-> NoJob]
  BY <1>4, <1>7
<1>9. [d EXCEPT !.cid = cid] =
          [pc |-> "clients", op |-> op, job |-> j, node |-> n, cid |-> cid, slots |-> {},
           credit |-> 0, old |-> NoJob]
  BY <1>8
<1>10. Begin(op, j, n, cid) = [d EXCEPT !.cid = cid]
  BY <1>1, <1>2, <1>3, <1>4 DEF Begin
<1> QED
  BY <1>9, <1>10

Done == [Idle EXCEPT !.pc = "done"]
Waiting(th) == [Begin("none", th.job, th.node, th.cid) EXCEPT !.pc = "waiting"]

LEMMA GoodIdle == ASSUME NEW t \in Threads PROVE GoodThread(t, Idle)
<1>1. MaxConcurrent \in Nat \ {0}
  BY LifecycleAssumption
<1>2. WellBegun(t, Idle)
  BY DEF WellBegun, Idle, Working
<1>3. SlotsBounded(Idle)
  BY <1>1, EmptyRecords DEF SlotsBounded, Working
<1> QED
  BY <1>2, <1>3, EmptyRecords DEF GoodThread

LEMMA GoodDone == ASSUME NEW j \in Jobs PROVE GoodThread(Request(j), Done)
<1>1. MaxConcurrent \in Nat \ {0}
  BY LifecycleAssumption
<1>2. Done = [pc |-> "done", op |-> "none", job |-> None, node |-> None, cid |-> 0,
              slots |-> {}, credit |-> 0, old |-> NoJob]
  BY DEF Done, Idle
<1>3. WellBegun(Request(j), Done)
  BY <1>2, ThreadNames DEF WellBegun, Working
<1>4. SlotsBounded(Done)
  BY <1>1, <1>2, FS_EmptySet DEF SlotsBounded, Working
<1>5. Done \in ThreadRecords
  BY <1>2, EmptyRecords DEF ThreadRecords
<1> QED
  BY <1>3, <1>4, <1>5 DEF GoodThread

\* Beginning an operation that the thread's kind has.
LEMMA GoodBegin ==
    ASSUME NEW t \in Threads, NEW op \in {"assign", "complete", "fail"}, NEW j \in Jobs, NEW n \in Nodes,
           NEW cid \in Nat,
           t[1] = "request" => t[2] = j /\ op # "complete",
           t[1] = "answer" => t[2] = j /\ op # "assign",
           t[1] = "monitor" => op = "fail"
    PROVE  GoodThread(t, Begin(op, j, n, cid))
<1>1. MaxConcurrent \in Nat \ {0}
  BY LifecycleAssumption
<1>2. WellBegun(t, Begin(op, j, n, cid))
  BY BeginFields DEF WellBegun, Working, Operations
<1>3. SlotsBounded(Begin(op, j, n, cid))
  BY <1>1, BeginFields, FS_EmptySet DEF SlotsBounded, Working
<1>4. Begin(op, j, n, cid) \in ThreadRecords
  BY BeginFields, EmptyRecords DEF ThreadRecords
<1> QED
  BY <1>2, <1>3, <1>4 DEF GoodThread

LEMMA GoodWaiting ==
    ASSUME NEW j \in Jobs, NEW th \in ThreadRecords, th.job = j, th.node \in Nodes
    PROVE  /\ GoodThread(Request(j), Waiting(th))
           /\ Waiting(th).pc = "waiting" /\ Waiting(th).op = "none"
<1>1. MaxConcurrent \in Nat \ {0}
  BY LifecycleAssumption
<1>2. Waiting(th) = [pc |-> "waiting", op |-> "none", job |-> j, node |-> th.node, cid |-> th.cid,
                     slots |-> {}, credit |-> 0, old |-> NoJob]
  BY BeginFields DEF Waiting
<1>3. WellBegun(Request(j), Waiting(th))
  BY <1>2, ThreadNames DEF WellBegun, Working
<1>4. SlotsBounded(Waiting(th))
  BY <1>1, <1>2, FS_EmptySet DEF SlotsBounded, Working
<1>5. Waiting(th) \in ThreadRecords
  BY <1>2, EmptyRecords DEF ThreadRecords
<1> QED
  BY <1>2, <1>3, <1>4, <1>5 DEF GoodThread

\* A waiting request goes on to price the answer.
Pricing(th) == [[th EXCEPT !.pc = "get"] EXCEPT !.op = "price"]

LEMMA GoodPricing ==
    ASSUME NEW j \in Jobs, NEW th, GoodThread(Request(j), th), th.pc = "waiting"
    PROVE  /\ GoodThread(Request(j), Pricing(th))
           /\ Pricing(th).pc = "get" /\ Pricing(th).op = "price"
<1>1. th \in ThreadRecords /\ th.job = j /\ th.node \in Nodes /\ Cardinality(th.slots) <= MaxConcurrent
  BY ThreadNames DEF GoodThread, WellBegun, SlotsBounded
<1>2. Pricing(th) = [pc |-> "get", op |-> "price", job |-> j, node |-> th.node, cid |-> th.cid,
                     slots |-> th.slots, credit |-> th.credit, old |-> th.old]
  <2>1. th = [pc |-> th.pc, op |-> th.op, job |-> j, node |-> th.node, cid |-> th.cid,
              slots |-> th.slots, credit |-> th.credit, old |-> th.old]
    BY <1>1 DEF ThreadRecords
  <2>2. PICK one : one = [th EXCEPT !.pc = "get"]
    OBVIOUS
  <2>3. one = [pc |-> "get", op |-> th.op, job |-> j, node |-> th.node, cid |-> th.cid,
               slots |-> th.slots, credit |-> th.credit, old |-> th.old]
    BY <2>1, <2>2
  <2>4. [one EXCEPT !.op = "price"] =
              [pc |-> "get", op |-> "price", job |-> j, node |-> th.node, cid |-> th.cid,
               slots |-> th.slots, credit |-> th.credit, old |-> th.old]
    BY <2>3
  <2> QED
    BY <2>2, <2>4 DEF Pricing
<1>3. WellBegun(Request(j), Pricing(th))
  BY <1>1, <1>2, ThreadNames DEF WellBegun, Working, Operations
<1>4. SlotsBounded(Pricing(th))
  BY <1>1, <1>2 DEF SlotsBounded, Working
<1>5. Pricing(th) \in ThreadRecords
  BY <1>1, <1>2 DEF ThreadRecords
<1> QED
  BY <1>2, <1>3, <1>4, <1>5 DEF GoodThread
-----------------------------------------------------------------------------
\* One thread moves on.
LEMMA OneThreadMoves ==
    ASSUME IInv, NEW t \in Threads, NEW th, GoodThread(t, th), thread' = [thread EXCEPT ![t] = th]
    PROVE  /\ thread' \in [Threads -> ThreadRecords]
           /\ \A u \in Threads : GoodThread(u, thread'[u])
           /\ \A u \in Threads : thread'[u] = IF u = t THEN th ELSE thread[u]
<1>1. thread \in [Threads -> ThreadRecords] /\ \A u \in Threads : GoodThread(u, thread[u])
  BY GoodThreads
<1>2. th \in ThreadRecords
  BY DEF GoodThread
<1>3. \A u \in Threads : thread'[u] = IF u = t THEN th ELSE thread[u]
  BY <1>1
<1>4. \A u \in Threads : GoodThread(u, thread'[u])
  BY <1>1, <1>3
<1> QED
  BY <1>1, <1>2, <1>3, <1>4

\* How a thread ends its operation: an assignment lets its request wait, or ends it;
\* an answer may wake the request that waits for it.
Ends(t, ok) ==
    LET th == thread[t]
        j == th.job
        r == Request(j)
    IN  \/ /\ th.op = "assign" /\ t = r
           /\ queued' = queued \cup {j}
           /\ thread' = [thread EXCEPT ![t] = Waiting(th)]
        \/ /\ queued' = queued
           /\ \/ t = r /\ thread' = [thread EXCEPT ![t] = Done]
              \/ t # r /\ thread' = [thread EXCEPT ![t] = Idle]
              \/ /\ t = Answer(j) /\ thread[r].pc = "waiting"
                 /\ \/ thread' = [[thread EXCEPT ![t] = Idle]
                                    EXCEPT ![r] = Begin("fail", j, thread[r].node, thread[r].cid)]
                    \/ /\ ok /\ th.op = "complete"
                       /\ thread' = [[thread EXCEPT ![t] = Idle] EXCEPT ![r] = Pricing(thread[r])]

\* A thread at work has a job, and its name says which.
LEMMA AtWork ==
    ASSUME IInv, NEW t \in Threads, thread[t].pc \in {"clients"} \cup Working
    PROVE  /\ GoodThread(t, thread[t]) /\ thread[t] \in ThreadRecords
           /\ thread[t].op \in Operations /\ thread[t].job \in Jobs /\ thread[t].node \in Nodes
           /\ \/ t = Request(thread[t].job) /\ t[1] = "request" /\ thread[t].op # "complete"
              \/ /\ t # Request(thread[t].job) /\ thread[t].op \notin {"assign", "price"}
                 /\ \/ t = Answer(thread[t].job) /\ t[1] = "answer"
                    \/ t # Answer(thread[t].job) /\ t[1] = "monitor" /\ thread[t].op = "fail"
<1>1. GoodThread(t, thread[t])
  BY GoodThreads
<1> QED
  BY <1>1, ThreadNames DEF GoodThread, WellBegun, Operations, Working

LEMMA FinishEnds ==
    ASSUME IInv, NEW t \in Threads, thread[t].pc \in {"clients"} \cup Working,
           NEW ok \in BOOLEAN, Finish(t, ok)
    PROVE  Ends(t, ok)
<1> DEFINE th == thread[t]
           j == th.job
           r == Request(j)
<1>1. th.job \in Jobs /\ (th.op = "assign" => t = r) /\ r \in Threads
  BY AtWork, ThreadNames
<1>2. thread \in [Threads -> ThreadRecords]
  BY GoodThreads
<1>3. CASE th.op = "assign"
  BY <1>1, <1>3 DEF Finish, Ends, Waiting, Done
<1>4. CASE th.op # "assign"
  <2>1. /\ queued' = queued
        /\ thread' \in IF t = r THEN {[thread EXCEPT ![t] = [Idle EXCEPT !.pc = "done"]]}
                       ELSE IF t = Answer(j)
                       THEN Notified([thread EXCEPT ![t] = Idle], j, ok /\ th.op = "complete")
                       ELSE {[thread EXCEPT ![t] = Idle]}
    BY <1>4 DEF Finish
  <2>2. CASE t = r
    BY <2>1, <2>2 DEF Ends, Done
  <2>3. CASE t # r /\ t # Answer(j)
    BY <2>1, <2>3 DEF Ends
  <2>4. CASE t # r /\ t = Answer(j)
    <3>1. PICK ths : ths = [thread EXCEPT ![t] = Idle]
      OBVIOUS
    <3>2. ths \in [Threads -> ThreadRecords] /\ ths[r] = thread[r]
      BY <1>1, <1>2, <2>4, <3>1, EmptyRecords
    <3>3. thread' \in Notified(ths, j, ok /\ th.op = "complete")
      BY <2>1, <2>4, <3>1
    <3>4. CASE ths[r].pc # "waiting"
      BY <2>1, <2>4, <3>1, <3>3, <3>4 DEF Notified, Ends
    <3>5. CASE ths[r].pc = "waiting"
      <4>1. \/ thread' = [ths EXCEPT ![r] = Begin("fail", j, ths[r].node, ths[r].cid)]
            \/ ok /\ th.op = "complete" /\ thread' = [ths EXCEPT ![r] = [@ EXCEPT !.pc = "get",
                                                                                  !.op = "price"]]
        BY <3>3, <3>5 DEF Notified
      <4>2. [ths EXCEPT ![r] = [@ EXCEPT !.pc = "get",
                                         !.op = "price"]] = [ths EXCEPT ![r] = Pricing(ths[r])]
        <5>1. PICK one : one = [ths EXCEPT ![r] = [ths[r] EXCEPT !.pc = "get"]]
          OBVIOUS
        <5>2. [ths EXCEPT ![r] = [@ EXCEPT !.pc = "get", !.op = "price"]]
              = [one EXCEPT ![r] = [one[r] EXCEPT !.op = "price"]]
          BY <5>1
        <5>3. one[r] = [ths[r] EXCEPT !.pc = "get"]
          BY <1>1, <3>2, <5>1
        <5>4. [one EXCEPT ![r] = [one[r] EXCEPT !.op = "price"]] = [ths EXCEPT ![r] = [one[r] EXCEPT !.op = "price"]]
          BY <1>1, <3>2, <5>1
        <5> QED
          BY <5>2, <5>3, <5>4 DEF Pricing
      <4> QED
        BY <2>1, <2>4, <3>1, <3>2, <3>5, <4>1, <4>2 DEF Ends
    <3> QED
      BY <3>4, <3>5
  <2> QED
    BY <2>2, <2>3, <2>4
<1> QED
  BY <1>3, <1>4

\* What that means thread by thread.
AfterEnd(t, ok, u) ==
    LET j == thread[t].job IN
    \/ u # t /\ thread'[u] = thread[u]
    \/ u = t /\ thread'[u].pc \in {"idle", "done"} /\ thread'[u].op = "none"
       /\ IF t = Request(j) THEN thread'[u].pc = "done" ELSE thread'[u] = Idle
    \/ u = t /\ t = Request(j) /\ thread[t].op = "assign" /\ thread'[u].pc = "waiting" /\ thread'[u].op = "none"
    \/ /\ u = Request(j) /\ u # t /\ t = Answer(j) /\ thread[u].pc = "waiting"
       /\ \/ thread'[u].pc = "clients" /\ thread'[u].op = "fail"
          \/ ok /\ thread[t].op = "complete" /\ thread'[u].pc = "get" /\ thread'[u].op = "price"

LEMMA EndsWell ==
    ASSUME IInv, NEW t \in Threads, thread[t].pc \in {"clients"} \cup Working,
           NEW ok \in BOOLEAN, Ends(t, ok)
    PROVE  /\ thread' \in [Threads -> ThreadRecords]
           /\ \A u \in Threads : GoodThread(u, thread'[u])
           /\ \A u \in Threads : AfterEnd(t, ok, u)
           /\ queued' \in SUBSET Jobs
           /\ queued' = queued \/ (thread[t].op = "assign" /\ queued' = queued \cup {thread[t].job})
           /\ \A k \in Jobs : thread'[Answer(k)] = IF t = Answer(k) THEN Idle ELSE thread[Answer(k)]
<1> DEFINE th == thread[t]
           j == th.job
           r == Request(j)
<1>1. /\ th.job \in Jobs /\ th \in ThreadRecords /\ th.node \in Nodes
      /\ r \in Threads /\ t[1] # "request" => t # r
  BY AtWork, ThreadNames
<1>2. thread \in [Threads -> ThreadRecords] /\ \A u \in Threads : GoodThread(u, thread[u])
  BY GoodThreads
<1>3. queued \in SUBSET Jobs
  BY DEF IInv, TypeOK
<1>4. \A k \in Jobs : Answer(k) \in Threads /\ Answer(k) # r
  BY <1>1, ThreadNames
<1>5. CASE th.op = "assign" /\ t = r /\ queued' = queued \cup {j} /\ thread' = [thread EXCEPT ![t] = Waiting(th)]
  <2>1. GoodThread(t, Waiting(th)) /\ Waiting(th).pc = "waiting" /\ Waiting(th).op = "none"
    BY <1>1, <1>5, GoodWaiting
  <2>2. /\ thread' \in [Threads -> ThreadRecords] /\ \A u \in Threads : GoodThread(u, thread'[u])
        /\ \A u \in Threads : thread'[u] = IF u = t THEN Waiting(th) ELSE thread[u]
    BY <1>5, <2>1, OneThreadMoves
  <2>3. \A u \in Threads : AfterEnd(t, ok, u)
    BY <1>1, <1>5, <2>1, <2>2 DEF AfterEnd
  <2> QED
    BY <1>1, <1>3, <1>4, <1>5, <2>2, <2>3
<1>6. CASE queued' = queued /\ t = r /\ thread' = [thread EXCEPT ![t] = Done]
  <2>1. GoodThread(t, Done)
    BY <1>1, <1>6, GoodDone
  <2>2. /\ thread' \in [Threads -> ThreadRecords] /\ \A u \in Threads : GoodThread(u, thread'[u])
        /\ \A u \in Threads : thread'[u] = IF u = t THEN Done ELSE thread[u]
    BY <1>6, <2>1, OneThreadMoves
  <2>3. Done.pc = "done" /\ Done.op = "none"
    BY EmptyRecords DEF Done, Idle
  <2>4. \A u \in Threads : AfterEnd(t, ok, u)
    BY <1>1, <1>6, <2>2, <2>3 DEF AfterEnd
  <2> QED
    BY <1>1, <1>3, <1>4, <1>6, <2>2, <2>4
<1>7. CASE queued' = queued /\ t # r /\ thread' = [thread EXCEPT ![t] = Idle]
  <2>1. GoodThread(t, Idle)
    BY GoodIdle
  <2>2. /\ thread' \in [Threads -> ThreadRecords] /\ \A u \in Threads : GoodThread(u, thread'[u])
        /\ \A u \in Threads : thread'[u] = IF u = t THEN Idle ELSE thread[u]
    BY <1>7, <2>1, OneThreadMoves
  <2>4. \A u \in Threads : AfterEnd(t, ok, u)
    BY <1>1, <1>7, <2>2, EmptyRecords DEF AfterEnd
  <2> QED
    BY <1>1, <1>3, <1>4, <1>7, <2>2, <2>4
<1>8. CASE /\ queued' = queued /\ t = Answer(j) /\ thread[r].pc = "waiting"
           /\ \/ thread' = [[thread EXCEPT ![t] = Idle]
                              EXCEPT ![r] = Begin("fail", j, thread[r].node, thread[r].cid)]
              \/ /\ ok /\ th.op = "complete"
                 /\ thread' = [[thread EXCEPT ![t] = Idle] EXCEPT ![r] = Pricing(thread[r])]
  <2>1. t # r
    BY <1>1, <1>4, <1>8
  <2>2. thread[r].node \in Nodes /\ thread[r].cid \in Nat /\ GoodThread(r, thread[r])
    BY <1>1, <1>2, <1>8, ThreadNames DEF GoodThread, WellBegun, ThreadRecords
  <2>3. PICK next : /\ thread' = [[thread EXCEPT ![t] = Idle] EXCEPT ![r] = next]
                    /\ GoodThread(r, next)
                    /\ \/ next.pc = "clients" /\ next.op = "fail"
                       \/ ok /\ th.op = "complete" /\ next.pc = "get" /\ next.op = "price"
    <3>1. CASE thread' = [[thread EXCEPT ![t] = Idle]
                            EXCEPT ![r] = Begin("fail", j, thread[r].node, thread[r].cid)]
      <4>1. GoodThread(r, Begin("fail", j, thread[r].node, thread[r].cid))
        BY <1>1, <2>2, ThreadNames, GoodBegin
      <4>2. Begin("fail", j, thread[r].node, thread[r].cid).pc = "clients"
            /\ Begin("fail", j, thread[r].node, thread[r].cid).op = "fail"
        BY BeginFields
      <4> QED
        BY <3>1, <4>1, <4>2
    <3>2. CASE /\ ok /\ th.op = "complete"
               /\ thread' = [[thread EXCEPT ![t] = Idle] EXCEPT ![r] = Pricing(thread[r])]
      BY <1>1, <1>8, <2>2, <3>2, GoodPricing
    <3> QED
      BY <1>8, <3>1, <3>2
  <2>4. next \in ThreadRecords /\ Idle \in ThreadRecords /\ GoodThread(t, Idle)
    BY <2>3, EmptyRecords, GoodIdle DEF GoodThread
  <2>5. /\ thread' \in [Threads -> ThreadRecords]
        /\ \A u \in Threads : thread'[u] = IF u = r THEN next ELSE IF u = t THEN Idle ELSE thread[u]
    BY <1>1, <1>2, <2>3, <2>4
  <2>6. \A u \in Threads : GoodThread(u, thread'[u])
    BY <1>2, <2>3, <2>4, <2>5
  <2>7. \A u \in Threads : AfterEnd(t, ok, u)
    BY <1>8, <2>1, <2>3, <2>5, EmptyRecords DEF AfterEnd
  <2> QED
    BY <1>1, <1>3, <1>4, <1>8, <2>5, <2>6, <2>7
<1> QED
  BY <1>5, <1>6, <1>7, <1>8 DEF Ends
-----------------------------------------------------------------------------
Structure ==
    /\ TypeOK /\ ThreadsBegun /\ RoundsBegun
    /\ ActiveWithinCapacity /\ CopiesWithinCapacity

\* Steps of threads that touch no client record and no round.
LEMMA StructureKept ==
    ASSUME IInv, thread' \in [Threads -> ThreadRecords], \A u \in Threads : GoodThread(u, thread'[u]),
           job' \in [Jobs -> JobRecords], queued' \in SUBSET Jobs, answers' \in 0 .. MaxAnswers,
           UNCHANGED <<activeJobs, balance, clientId, monitor, sessions, deletions, pings, restarts>>
    PROVE  Structure'
<1>1. TypeOK'
  BY DEF IInv, TypeOK
<1>2. ThreadsBegun' /\ \A u \in Threads : SlotsBounded(thread'[u])
  BY GoodThreadsNext
<1>3. RoundsBegun' /\ ActiveWithinCapacity'
  BY DEF IInv, RoundsBegun, ActiveWithinCapacity
<1>4. CopiesWithinCapacity'
  BY <1>2 DEF IInv, CopiesWithinCapacity
<1> QED
  BY <1>1, <1>2, <1>3, <1>4 DEF Structure

LEMMA JobTypes ==
    ASSUME IInv
    PROVE  /\ job \in [Jobs -> JobRecords] /\ queued \in SUBSET Jobs /\ answers \in 0 .. MaxAnswers
           /\ activeJobs \in [Nodes -> SUBSET Jobs] /\ balance \in [Nodes -> Nat]
           /\ clientId \in [Nodes -> 0 .. MaxReconnects] /\ sessions \in [Nodes -> 0 .. MaxReconnects]
           /\ MaxReconnects \in Nat /\ MaxAnswers \in Nat
           /\ \A j \in Jobs : job[j] \in JobRecords /\ job[j].state \in States \cup {"none"}
BY LifecycleAssumption DEF IInv, TypeOK, JobRecords

LEMMA CreateJobKeeps ==
    ASSUME IInv, NEW j \in Jobs, CreateJob(j)
    PROVE  Structure' /\ UnassignedIsUnknown' /\ EndedStaysEnded'
<1> DEFINE r == Request(j)
           th == thread[r]
<1>1. r \in Threads /\ GoodThread(r, th) /\ th \in ThreadRecords /\ th.pc = "idle" /\ th.op = "none"
  BY GoodThreads, ThreadNames DEF GoodThread, WellBegun, CreateJob
<1>2. PICK one : one = [th EXCEPT !.pc = "find"]
  OBVIOUS
<1>3. PICK next : next = [one EXCEPT !.job = j]
  OBVIOUS
<1>4. one \in ThreadRecords /\ one.pc = "find" /\ one.op = "none" /\ one.slots = th.slots
  BY <1>1, <1>2 DEF ThreadRecords
<1>5. next \in ThreadRecords /\ next.pc = "find" /\ next.op = "none" /\ next.slots = th.slots /\ next.job = j
  BY <1>3, <1>4 DEF ThreadRecords
<1>6. thread' = [thread EXCEPT ![r] = next]
  BY <1>1, <1>2, <1>3, GoodThreads DEF CreateJob
<1>7. GoodThread(r, next)
  BY <1>1, <1>5, ThreadNames DEF GoodThread, WellBegun, SlotsBounded, Working
<1>8. /\ thread' \in [Threads -> ThreadRecords]
      /\ \A u \in Threads : GoodThread(u, thread'[u])
      /\ \A u \in Threads : thread'[u] = IF u = r THEN next ELSE thread[u]
  BY <1>1, <1>6, <1>7, OneThreadMoves
<1>9. [state |-> "pending", worker |-> None] \in JobRecords
  BY DEF JobRecords, States
<1>10. /\ job' \in [Jobs -> JobRecords]
       /\ \A k \in Jobs : job'[k] = IF k = j THEN [state |-> "pending", worker |-> None] ELSE job[k]
  BY <1>9, JobTypes DEF CreateJob
<1>11. Structure'
  BY <1>8, <1>10, JobTypes, StructureKept DEF CreateJob, serverVars
<1>12. \A k \in Jobs : thread'[Answer(k)] = thread[Answer(k)] /\ (k # j => thread'[Request(k)] = thread[Request(k)])
  BY <1>8, ThreadNames
<1>13. \A m \in Monitors : thread'[Monitor(m)] = thread[Monitor(m)]
  BY <1>8, ThreadNames
<1>14. monitor' = monitor /\ queued' = queued
  BY DEF CreateJob, serverVars
<1>15. Unassigned(j) /\ Unknown(j)
  BY <1>1 DEF Unassigned, IInv, UnassignedIsUnknown
<1>16. UnassignedIsUnknown'
  BY <1>10, <1>12, <1>13, <1>14, <1>15 DEF IInv, UnassignedIsUnknown, Unassigned, Unknown
<1>17. thread'[Request(j)].op = "none" /\ thread'[Answer(j)].pc = "idle"
  BY <1>1, <1>5, <1>8, <1>12, <1>15 DEF Unknown
<1>18. EndedStaysEnded'
  BY <1>10, <1>12, <1>17 DEF IInv, EndedStaysEnded, Ended
<1> QED
  BY <1>11, <1>16, <1>18

\* A request that begins another operation, or ends, stays as unknown as it was.
LEMMA RequestMoves ==
    ASSUME IInv, NEW j \in Jobs, NEW th, GoodThread(Request(j), th), th.op # "price",
           \/ th.pc = "done"
           \/ th.op = "assign" /\ thread[Request(j)].pc = "find"
           \/ th.op = "fail",
           thread' = [thread EXCEPT ![Request(j)] = th],
           UNCHANGED <<redisVars, monitor, serverVars>>
    PROVE  Structure' /\ UnassignedIsUnknown' /\ EndedStaysEnded'
<1> DEFINE r == Request(j)
<1>1. r \in Threads
  BY ThreadNames
<1>2. /\ thread' \in [Threads -> ThreadRecords]
      /\ \A u \in Threads : GoodThread(u, thread'[u])
      /\ \A u \in Threads : thread'[u] = IF u = r THEN th ELSE thread[u]
  BY <1>1, OneThreadMoves
<1>3. Structure'
  BY <1>2, JobTypes, StructureKept DEF redisVars, serverVars
<1>4. \A k \in Jobs : thread'[Answer(k)] = thread[Answer(k)] /\ (k # j => thread'[Request(k)] = thread[Request(k)])
  BY <1>2, ThreadNames
<1>5. \A m \in Monitors : thread'[Monitor(m)] = thread[Monitor(m)]
  BY <1>2, ThreadNames
<1>6. thread'[r] = th
  BY <1>1, <1>2
<1>7. Unassigned(j)' => Unassigned(j)
  BY <1>6 DEF Unassigned, GoodThread, WellBegun
<1>8. UnassignedIsUnknown'
  BY <1>4, <1>5, <1>7 DEF IInv, UnassignedIsUnknown, Unassigned, Unknown, redisVars, serverVars
<1>9. EndedStaysEnded'
  BY <1>4, <1>6 DEF IInv, EndedStaysEnded, Ended, redisVars
<1> QED
  BY <1>3, <1>8, <1>9

LEMMA FindOptimalNodeKeeps ==
    ASSUME IInv, NEW j \in Jobs, FindOptimalNode(j)
    PROVE  Structure' /\ UnassignedIsUnknown' /\ EndedStaysEnded'
<1> DEFINE r == Request(j)
           th == thread[r]
<1>1. /\ r \in Threads /\ r[1] = "request" /\ r[2] = j
      /\ GoodThread(r, th) /\ th \in ThreadRecords /\ th.pc = "find" /\ th.op = "none" /\ th.job = j
  BY GoodThreads, ThreadNames DEF GoodThread, WellBegun, FindOptimalNode
<1>2. ASSUME NEW n \in Nodes, thread' = [thread EXCEPT ![r] = Begin("assign", j, n, clientId[n])]
      PROVE  Structure' /\ UnassignedIsUnknown' /\ EndedStaysEnded'
  <2>1. GoodThread(r, Begin("assign", j, n, clientId[n]))
    BY <1>1, JobTypes, GoodBegin
  <2>2. Begin("assign", j, n, clientId[n]).op = "assign"
    BY BeginFields
  <2> QED
    BY <1>1, <1>2, <2>1, <2>2, RequestMoves DEF FindOptimalNode
<1>3. CASE thread' = [thread EXCEPT ![r].pc = "done"]
  <2>1. PICK next : next = [th EXCEPT !.pc = "done"]
    OBVIOUS
  <2>2. next \in ThreadRecords /\ next.pc = "done" /\ next.op = "none" /\ next.slots = th.slots
    BY <1>1, <2>1 DEF ThreadRecords
  <2>3. GoodThread(r, next)
    BY <1>1, <2>2 DEF GoodThread, WellBegun, SlotsBounded, Working
  <2> QED
    BY <1>3, <2>1, <2>2, <2>3, RequestMoves DEF FindOptimalNode
<1> QED
  BY <1>2, <1>3 DEF FindOptimalNode

LEMMA WaitFailsKeeps ==
    ASSUME IInv, NEW j \in Jobs, WaitFails(j)
    PROVE  Structure' /\ UnassignedIsUnknown' /\ EndedStaysEnded'
<1> DEFINE r == Request(j)
           th == thread[r]
<1>1. /\ r \in Threads /\ r[1] = "request" /\ r[2] = j
      /\ th \in ThreadRecords /\ th.node \in Nodes /\ th.cid \in Nat
  BY GoodThreads, ThreadNames DEF GoodThread, WellBegun, WaitFails, ThreadRecords
<1>2. GoodThread(r, Begin("fail", j, th.node, th.cid))
  BY <1>1, GoodBegin
<1>3. Begin("fail", j, th.node, th.cid).op = "fail"
  BY BeginFields
<1>4. thread' = [thread EXCEPT ![r] = Begin("fail", j, th.node, th.cid)]
  BY DEF WaitFails
<1> QED
  BY <1>2, <1>3, <1>4, RequestMoves DEF WaitFails

LEMMA AnswerArrivesKeeps ==
    ASSUME IInv, NEW j \in Jobs, NEW n \in Nodes, NEW cid \in 0 .. MaxReconnects,
           NEW op \in {"complete", "fail"}, AnswerArrives(j, n, cid, op)
    PROVE  Structure' /\ UnassignedIsUnknown' /\ EndedStaysEnded'
<1> DEFINE a == Answer(j)
           th == Begin(op, j, n, cid)
<1>1. a \in Threads /\ a[1] = "answer" /\ a[2] = j
  BY ThreadNames
<1>2. GoodThread(a, th)
  BY <1>1, JobTypes, GoodBegin
<1>3. th.pc = "clients" /\ th.op = op
  BY BeginFields
<1> HIDE DEF th
<1>4. /\ thread' \in [Threads -> ThreadRecords]
      /\ \A u \in Threads : GoodThread(u, thread'[u])
      /\ \A u \in Threads : thread'[u] = IF u = a THEN th ELSE thread[u]
  BY <1>1, <1>2, OneThreadMoves DEF AnswerArrives, th
<1>5. answers' \in 0 .. MaxAnswers
  BY JobTypes DEF AnswerArrives
<1>6. Structure'
  BY <1>4, <1>5, JobTypes, StructureKept DEF AnswerArrives, redisVars
<1>7. \A k \in Jobs : thread'[Request(k)] = thread[Request(k)] /\ (k # j => thread'[Answer(k)] = thread[Answer(k)])
  BY <1>4, ThreadNames
<1>8. \A m \in Monitors : thread'[Monitor(m)] = thread[Monitor(m)]
  BY <1>4, ThreadNames
<1>9. ~ Unassigned(j)
  BY DEF AnswerArrives, IInv, UnassignedIsUnknown, Unknown
<1>10. UnassignedIsUnknown'
  BY <1>7, <1>8, <1>9 DEF IInv, UnassignedIsUnknown, Unassigned, Unknown, AnswerArrives, redisVars
<1>11. thread'[Answer(j)].pc = "clients"
  BY <1>1, <1>3, <1>4
<1>12. EndedStaysEnded'
  BY <1>7, <1>11 DEF IInv, EndedStaysEnded, Ended, AnswerArrives, redisVars
<1> QED
  BY <1>6, <1>10, <1>12
-----------------------------------------------------------------------------
\* What ends keeps unknown jobs unknown, and wakes only requests whose job ended.
LEMMA EndingKeeps ==
    ASSUME IInv, NEW t \in Threads, thread[t].pc \in {"clients"} \cup Working,
           NEW ok \in BOOLEAN, Ends(t, ok),
           ok /\ thread[t].op = "complete" => Ended(thread[t].job),
           \A k \in Jobs : \/ job'[k] = job[k]
                           \/ k = thread[t].job /\ thread[t].op = "price" /\ job'[k].state \in Terminal,
           monitor' = monitor
    PROVE  UnassignedIsUnknown' /\ EndedStaysEnded'
<1>0. PICK th, j, r : th = thread[t] /\ j = th.job /\ r = Request(j)
  OBVIOUS
<1>1. /\ \A u \in Threads : AfterEnd(t, ok, u) /\ GoodThread(u, thread'[u])
      /\ queued' = queued \/ (th.op = "assign" /\ queued' = queued \cup {j})
      /\ \A k \in Jobs : thread'[Answer(k)] = IF t = Answer(k) THEN Idle ELSE thread[Answer(k)]
  BY <1>0, EndsWell
<1>2. /\ j \in Jobs /\ r \in Threads /\ Answer(j) \in Threads /\ GoodThread(t, th)
      /\ \/ t = r /\ t[1] = "request" /\ th.op # "complete"
         \/ /\ t # r /\ th.op \notin {"assign", "price"}
            /\ \/ t = Answer(j) /\ t[1] = "answer"
               \/ t # Answer(j) /\ t[1] = "monitor"
  BY <1>0, AtWork, ThreadNames
<1>3. Idle.pc = "idle" /\ Idle.op = "none"
  BY EmptyRecords
<1>4. \A k \in Jobs : k # j => /\ thread'[Request(k)] = thread[Request(k)]
                               /\ thread'[Answer(k)] = thread[Answer(k)]
  <2> SUFFICES ASSUME NEW k \in Jobs, k # j
               PROVE  thread'[Request(k)] = thread[Request(k)] /\ thread'[Answer(k)] = thread[Answer(k)]
    OBVIOUS
  <2>1. t # Request(k) /\ t # Answer(k) /\ Request(k) \in Threads /\ Request(k) # r
    BY <1>0, <1>2, ThreadNames
  <2> QED
    BY <1>0, <1>1, <2>1 DEF AfterEnd
<1>5. \A m \in Monitors : thread'[Monitor(m)] = thread[Monitor(m)] \/ thread'[Monitor(m)].pc = "idle"
  BY <1>0, <1>1, <1>2, <1>3, ThreadNames DEF AfterEnd
<1>6. ~ Unassigned(j)'
  <2>1. CASE t = r
    BY <1>0, <1>1, <1>2, <2>1 DEF AfterEnd, Unassigned
  <2>2. CASE t # r
    <3>1. ~ Unassigned(j)
      BY <1>0, <1>2, <2>2, ThreadNames DEF IInv, UnassignedIsUnknown, Unknown, Working
    <3> QED
      BY <1>0, <1>1, <1>2, <2>2, <3>1 DEF AfterEnd, Unassigned
  <2> QED
    BY <2>1, <2>2
<1>7. \A k \in Jobs : k # j => job'[k] = job[k] /\ (k \in queued' <=> k \in queued)
  BY <1>0, <1>1
<1>8. UnassignedIsUnknown'
  <2> SUFFICES ASSUME NEW k \in Jobs, Unassigned(k)' PROVE Unknown(k)'
    BY DEF UnassignedIsUnknown
  <2>1. k # j
    BY <1>6
  <2>2. Unassigned(k) /\ Unknown(k)
    BY <1>4, <2>1 DEF Unassigned, IInv, UnassignedIsUnknown
  <2> QED
    <3>1. job'[k] = job[k] /\ k \notin queued' /\ thread'[Answer(k)] = thread[Answer(k)]
      BY <1>4, <1>7, <2>1, <2>2 DEF Unknown
    <3>2. \A m \in Monitors : k \notin monitor'[m].timedOut
      BY <2>2 DEF Unknown
    <3>3. \A m \in Monitors : thread'[Monitor(m)].pc # "idle" => thread'[Monitor(m)].job # k
      BY <1>5, <2>2 DEF Unknown
    <3> QED
      BY <2>2, <3>1, <3>2, <3>3 DEF Unknown
<1>9. /\ thread'[Answer(j)].op = "complete" /\ thread'[Answer(j)].pc = "client" => Ended(j)'
      /\ thread'[r].op = "price" => Ended(j)'
      /\ thread'[r].op = "price" /\ thread'[r].pc = "set" => thread'[r].old.state \in Terminal
  <2>1. CASE t = r
    <3>1. thread'[r].op = "none" /\ thread'[Answer(j)] = thread[Answer(j)]
      <4>1. thread'[r].op = "none"
        BY <1>0, <1>1, <1>2, <2>1 DEF AfterEnd
      <4>2. t # Answer(j)
        BY <1>0, <1>2, <2>1, ThreadNames
      <4> QED
        BY <1>1, <1>2, <4>1, <4>2
    <3>2. Ended(j) => Ended(j)'
      BY <1>0, <1>2 DEF Ended
    <3> QED
      BY <1>2, <3>1, <3>2 DEF IInv, EndedStaysEnded
  <2>2. CASE t # r
    <3>1. job'[j] = job[j]
      BY <1>0, <1>2, <2>2
    <3>2. thread'[Answer(j)] = thread[Answer(j)] \/ thread'[Answer(j)].op = "none"
      BY <1>0, <1>1, <1>2, <1>3
    <3>3. \/ thread'[r] = thread[r]
          \/ thread'[r].op = "fail"
          \/ thread'[r].op = "price" /\ thread'[r].pc = "get" /\ ok /\ th.op = "complete"
      BY <1>0, <1>1, <1>2, <2>2 DEF AfterEnd
    <3> QED
      BY <1>0, <1>2, <3>1, <3>2, <3>3 DEF IInv, EndedStaysEnded, Ended
  <2> QED
    BY <2>1, <2>2
<1>10. EndedStaysEnded'
  <2> SUFFICES ASSUME NEW k \in Jobs
               PROVE  /\ thread'[Answer(k)].op = "complete" /\ thread'[Answer(k)].pc = "client" => Ended(k)'
                      /\ thread'[Request(k)].op = "price" => Ended(k)'
                      /\ thread'[Request(k)].op = "price" /\ thread'[Request(k)].pc = "set" =>
                            thread'[Request(k)].old.state \in Terminal
    BY DEF EndedStaysEnded
  <2>1. CASE k = j
    BY <1>0, <1>9, <2>1
  <2>2. CASE k # j
    BY <1>4, <1>7, <2>2 DEF IInv, EndedStaysEnded, Ended
  <2> QED
    BY <2>1, <2>2
<1> QED
  BY <1>8, <1>10

\* A thread goes on within its operation.
LEMMA WorkingKeeps ==
    ASSUME IInv, NEW t \in Threads, thread[t].pc \in {"clients"} \cup Working,
           NEW th, GoodThread(t, th), th.op = thread[t].op, th.job = thread[t].job, th.pc \in Working,
           thread' = [thread EXCEPT ![t] = th],
           \A k \in Jobs : \/ job'[k] = job[k]
                           \/ /\ k = th.job
                              /\ IF th.op = "assign" THEN th.pc = "client" /\ thread[t].pc = "set"
                                 ELSE Ended(k)',
           th.op = "complete" /\ th.pc = "client" => Ended(th.job)',
           th.op = "price" /\ th.pc = "set" => th.old.state \in Terminal,
           th.op = "assign" /\ th.pc # "client" => thread[t].pc # "client",
           UNCHANGED <<monitor, queued>>
    PROVE  UnassignedIsUnknown' /\ EndedStaysEnded'
<1> DEFINE j == th.job
           r == Request(j)
<1>1. /\ \A u \in Threads : GoodThread(u, thread'[u])
      /\ \A u \in Threads : thread'[u] = IF u = t THEN th ELSE thread[u]
  BY OneThreadMoves
<1>2. /\ j \in Jobs /\ r \in Threads /\ Answer(j) \in Threads /\ GoodThread(t, thread[t])
      /\ \/ t = r /\ t[1] = "request" /\ th.op # "complete"
         \/ /\ t # r /\ th.op \notin {"assign", "price"}
            /\ \/ t = Answer(j) /\ t[1] = "answer"
               \/ t # Answer(j) /\ t[1] = "monitor"
  BY AtWork, ThreadNames
<1>3. \A k \in Jobs : k # j => /\ thread'[Request(k)] = thread[Request(k)]
                               /\ thread'[Answer(k)] = thread[Answer(k)]
                               /\ job'[k] = job[k]
  BY <1>1, <1>2, ThreadNames
<1>4. \A m \in Monitors : \/ thread'[Monitor(m)] = thread[Monitor(m)]
                          \/ thread'[Monitor(m)].job = j
  BY <1>1, <1>2, ThreadNames
<1>5. Unassigned(j)' => /\ Unassigned(j) /\ t = r /\ job'[j] = job[j]
                        /\ thread'[Answer(j)] = thread[Answer(j)]
                        /\ \A m \in Monitors : thread'[Monitor(m)] = thread[Monitor(m)]
  <2> SUFFICES ASSUME Unassigned(j)'
               PROVE  /\ Unassigned(j) /\ t = r /\ job'[j] = job[j]
                      /\ thread'[Answer(j)] = thread[Answer(j)]
                      /\ \A m \in Monitors : thread'[Monitor(m)] = thread[Monitor(m)]
    OBVIOUS
  <2>1. CASE t # r
    <3>1. thread'[r] = thread[r]
      BY <1>1, <1>2, <2>1
    <3>2. Unassigned(j) /\ Unknown(j)
      BY <1>2, <3>1 DEF Unassigned, IInv, UnassignedIsUnknown
    <3>3. thread[Answer(j)].pc = "idle" /\ \A m \in Monitors : thread[Monitor(m)].pc = "idle" \/ thread[Monitor(m)].job # j
      BY <3>2 DEF Unknown
    <3>4. PICK m \in Monitors : t = Monitor(m)
      BY <1>2, <2>1, <3>3, ThreadNames DEF Working
    <3> QED
      BY <3>3, <3>4 DEF Working
  <2>2. CASE t = r
    <3>1. thread'[r] = th /\ th.op = "assign" /\ th.pc \in {"get", "set"}
      BY <1>1, <1>2, <2>2 DEF Unassigned, Working
    <3>2. thread[r].pc \in {"clients", "get", "set"} /\ thread[r].op = "assign"
      BY <2>2, <3>1 DEF Working
    <3>3. Unassigned(j) /\ Unknown(j)
      BY <1>2, <3>2 DEF Unassigned, IInv, UnassignedIsUnknown
    <3>4. thread'[Answer(j)] = thread[Answer(j)]
      <4>1. t # Answer(j) /\ Answer(j) \in Threads
        BY <1>2, <2>2, ThreadNames
      <4> QED
        BY <1>1, <4>1
    <3>5. \A m \in Monitors : thread'[Monitor(m)] = thread[Monitor(m)]
      <4>1. \A m \in Monitors : t # Monitor(m) /\ Monitor(m) \in Threads
        BY <1>2, <2>2, ThreadNames
      <4> QED
        BY <1>1, <4>1
    <3>6. job'[j] = job[j]
      BY <1>2, <3>1
    <3> QED
      BY <2>2, <3>3, <3>4, <3>5, <3>6
  <2> QED
    BY <2>1, <2>2
<1>6. UnassignedIsUnknown'
  <2> SUFFICES ASSUME NEW k \in Jobs, Unassigned(k)' PROVE Unknown(k)'
    BY DEF UnassignedIsUnknown
  <2>1. CASE k = j
    <3>1. Unknown(j)
      BY <1>2, <1>5, <2>1 DEF IInv, UnassignedIsUnknown
    <3> QED
      BY <1>5, <2>1, <3>1 DEF Unknown
  <2>2. CASE k # j
    <3>1. Unassigned(k) /\ Unknown(k)
      BY <1>3, <2>2 DEF Unassigned, IInv, UnassignedIsUnknown
    <3> QED
      BY <1>3, <1>4, <2>2, <3>1 DEF Unknown
  <2> QED
    BY <2>1, <2>2
<1>7. thread'[Answer(j)].op = "complete" /\ thread'[Answer(j)].pc = "client" => Ended(j)'
  <2> SUFFICES ASSUME thread'[Answer(j)].op = "complete", thread'[Answer(j)].pc = "client" PROVE Ended(j)'
    OBVIOUS
  <2>1. CASE t = Answer(j)
    BY <1>1, <1>2, <2>1
  <2>2. CASE t # Answer(j)
    <3>1. thread'[Answer(j)] = thread[Answer(j)]
      BY <1>1, <1>2, <2>2
    <3>2. Ended(j)
      BY <1>2, <3>1 DEF IInv, EndedStaysEnded
    <3>3. CASE job'[j] = job[j]
      BY <3>2, <3>3 DEF Ended
    <3>4. CASE job'[j] # job[j] /\ th.op = "assign"
      <4>1. t = r /\ thread[r].op = "assign" /\ thread[r].pc = "set"
        BY <1>2, <3>4
      <4>2. Unknown(j)
        BY <1>2, <4>1 DEF IInv, UnassignedIsUnknown, Unassigned
      <4> QED
        BY <3>1, <4>2 DEF Unknown
    <3>5. CASE job'[j] # job[j] /\ th.op # "assign"
      BY <1>2, <3>5
    <3> QED
      BY <3>3, <3>4, <3>5
  <2> QED
    BY <2>1, <2>2
<1>8. /\ thread'[r].op = "price" => Ended(j)'
      /\ thread'[r].op = "price" /\ thread'[r].pc = "set" => thread'[r].old.state \in Terminal
  <2>1. thread'[r].op = "price" => thread[r].op = "price" /\ th.op # "assign"
    BY <1>1, <1>2
  <2>2. thread'[r].op = "price" => Ended(j)
    BY <1>2, <2>1 DEF IInv, EndedStaysEnded
  <2>3. thread'[r].op = "price" => Ended(j)'
    BY <1>2, <2>1, <2>2 DEF Ended
  <2>4. thread'[r].op = "price" /\ thread'[r].pc = "set" => thread'[r].old.state \in Terminal
    BY <1>1, <1>2 DEF IInv, EndedStaysEnded
  <2> QED
    BY <2>3, <2>4
<1>9. EndedStaysEnded'
  <2> SUFFICES ASSUME NEW k \in Jobs
               PROVE  /\ thread'[Answer(k)].op = "complete" /\ thread'[Answer(k)].pc = "client" => Ended(k)'
                      /\ thread'[Request(k)].op = "price" => Ended(k)'
                      /\ thread'[Request(k)].op = "price" /\ thread'[Request(k)].pc = "set" =>
                            thread'[Request(k)].old.state \in Terminal
    BY DEF EndedStaysEnded
  <2>1. CASE k = j
    BY <1>7, <1>8, <2>1
  <2>2. CASE k # j
    BY <1>3, <2>2 DEF IInv, EndedStaysEnded, Ended
  <2> QED
    BY <2>1, <2>2
<1> QED
  BY <1>6, <1>9
-----------------------------------------------------------------------------
\* Steps that write a node's record, within its capacity.
LEMMA ClientStructureKept ==
    ASSUME IInv, thread' \in [Threads -> ThreadRecords], \A u \in Threads : GoodThread(u, thread'[u]),
           queued' \in SUBSET Jobs,
           activeJobs' \in [Nodes -> SUBSET Jobs], balance' \in [Nodes -> Nat],
           \A n \in Nodes : Cardinality(activeJobs'[n]) <= MaxConcurrent,
           UNCHANGED <<job, answers, clientId, monitor, sessions, deletions, pings, restarts>>
    PROVE  Structure'
<1>1. TypeOK'
  BY DEF IInv, TypeOK
<1>2. ThreadsBegun' /\ \A u \in Threads : SlotsBounded(thread'[u])
  BY GoodThreadsNext
<1>3. RoundsBegun' /\ ActiveWithinCapacity'
  BY DEF IInv, RoundsBegun, ActiveWithinCapacity
<1>4. CopiesWithinCapacity'
  BY <1>2 DEF IInv, CopiesWithinCapacity
<1> QED
  BY <1>1, <1>2, <1>3, <1>4 DEF Structure

LEMMA ReadClientsKeeps ==
    ASSUME IInv, NEW t \in Threads, ReadClients(t)
    PROVE  Structure' /\ UnassignedIsUnknown' /\ EndedStaysEnded'
<1>0. PICK th : th = thread[t]
  OBVIOUS
<1>1. /\ th.pc = "clients" /\ GoodThread(t, th) /\ th \in ThreadRecords
      /\ th.op \in Operations /\ th.job \in Jobs /\ th.node \in Nodes
  BY <1>0, AtWork DEF ReadClients
<1>2. CASE Finish(t, FALSE)
  <2>1. Ends(t, FALSE)
    BY <1>0, <1>1, <1>2, FinishEnds
  <2>2. /\ thread' \in [Threads -> ThreadRecords]
        /\ \A u \in Threads : GoodThread(u, thread'[u])
        /\ queued' \in SUBSET Jobs
    BY <1>0, <1>1, <2>1, EndsWell
  <2>3. Structure'
    BY <2>2, JobTypes, StructureKept DEF ReadClients, redisVars
  <2>4. UnassignedIsUnknown' /\ EndedStaysEnded'
    BY <1>0, <1>1, <2>1, EndingKeeps DEF ReadClients, redisVars
  <2> QED
    BY <2>3, <2>4
<1>3. CASE /\ thread' = [thread EXCEPT ![t] = [@ EXCEPT !.pc = "get",
                                                        !.slots = activeJobs[th.node],
                           !.credit = IF th.op = "complete" THEN balance[th.node] ELSE 0]]
           /\ queued' = queued
           /\ th.op = "assign" => HasCapacity(activeJobs[th.node])
  <2>1. PICK slots, credit : /\ slots = activeJobs[th.node]
                             /\ credit = IF th.op = "complete" THEN balance[th.node] ELSE 0
    OBVIOUS
  <2>2. slots \in SUBSET Jobs /\ credit \in Nat /\ Cardinality(slots) <= MaxConcurrent
    BY <1>1, <2>1, JobTypes DEF IInv, ActiveWithinCapacity
  <2>3. PICK one, two, next : /\ one = [th EXCEPT !.pc = "get"]
                              /\ two = [one EXCEPT !.slots = slots]
                              /\ next = [two EXCEPT !.credit = credit]
    OBVIOUS
  <2>4. one \in ThreadRecords /\ one.pc = "get" /\ one.op = th.op /\ one.job = th.job /\ one.node = th.node
    BY <1>1, <2>3 DEF ThreadRecords
  <2>5. /\ two \in ThreadRecords /\ two.pc = "get" /\ two.op = th.op /\ two.job = th.job /\ two.node = th.node
        /\ two.slots = slots
    BY <2>2, <2>3, <2>4 DEF ThreadRecords
  <2>6. /\ next \in ThreadRecords /\ next.pc = "get" /\ next.op = th.op /\ next.job = th.job
        /\ next.node = th.node /\ next.slots = slots
    BY <2>2, <2>3, <2>5 DEF ThreadRecords
  <2>7. thread' = [thread EXCEPT ![t] = next]
    BY <1>0, <1>3, <2>1, <2>3, GoodThreads
  <2>8. th.op # "price"
    BY <1>1 DEF GoodThread, WellBegun
  <2>9. GoodThread(t, next)
    <3>1. WellBegun(t, next)
      BY <1>1, <2>6, <2>8 DEF GoodThread, WellBegun, Working
    <3>2. SlotsBounded(next)
      BY <1>3, <2>1, <2>2, <2>6 DEF SlotsBounded
    <3> QED
      BY <2>6, <3>1, <3>2 DEF GoodThread
  <2>10. /\ thread' \in [Threads -> ThreadRecords]
         /\ \A u \in Threads : GoodThread(u, thread'[u])
    BY <2>7, <2>9, OneThreadMoves
  <2>11. Structure'
    BY <1>3, <2>10, JobTypes, StructureKept DEF ReadClients, redisVars
  <2>12. UnassignedIsUnknown' /\ EndedStaysEnded'
    <3>1. next.pc \in Working /\ next.pc # "client" /\ next.pc # "set" /\ thread[t].pc # "client"
      BY <1>0, <1>1, <2>6 DEF Working
    <3>2. job' = job /\ monitor' = monitor
      BY DEF ReadClients, redisVars
    <3> QED
      BY <1>0, <1>1, <1>3, <2>6, <2>7, <2>9, <3>1, <3>2, WorkingKeeps
  <2> QED
    BY <2>11, <2>12
<1>4. \/ Finish(t, FALSE)
      \/ /\ thread' = [thread EXCEPT ![t] = [@ EXCEPT !.pc = "get",
                                                      !.slots = activeJobs[th.node],
                         !.credit = IF th.op = "complete" THEN balance[th.node] ELSE 0]]
         /\ queued' = queued
         /\ th.op = "assign" => HasCapacity(activeJobs[th.node])
  BY <1>0 DEF ReadClients
<1> QED
  BY <1>2, <1>3, <1>4

\* updateJob is done, and the client record comes next.
LEMMA ClientComesNext ==
    ASSUME IInv, NEW t \in Threads, thread[t].pc \in {"get", "set"}, thread[t].op # "price",
           thread' = [thread EXCEPT ![t] = [@ EXCEPT !.pc = "client", !.old = NoJob]]
    PROVE  \E next : /\ GoodThread(t, next) /\ next.pc = "client"
                     /\ next.op = thread[t].op /\ next.job = thread[t].job
                     /\ thread' = [thread EXCEPT ![t] = next]
<1>0. PICK th : th = thread[t]
  OBVIOUS
<1>1. /\ th.pc \in Working /\ GoodThread(t, th) /\ th \in ThreadRecords
      /\ th.op \in Operations /\ th.job \in Jobs /\ th.node \in Nodes
  BY <1>0, AtWork DEF Working
<1>2. PICK one, next : one = [th EXCEPT !.pc = "client"] /\ next = [one EXCEPT !.old = NoJob]
  OBVIOUS
<1>3. /\ one \in ThreadRecords /\ one.pc = "client" /\ one.op = th.op /\ one.job = th.job
      /\ one.node = th.node /\ one.slots = th.slots
  BY <1>1, <1>2 DEF ThreadRecords
<1>4. /\ next \in ThreadRecords /\ next.pc = "client" /\ next.op = th.op /\ next.job = th.job
      /\ next.node = th.node /\ next.slots = th.slots
  BY <1>2, <1>3, EmptyRecords DEF ThreadRecords
<1>5. thread' = [thread EXCEPT ![t] = next]
  BY <1>0, <1>2, GoodThreads
<1>6. WellBegun(t, next)
  BY <1>0, <1>1, <1>4 DEF GoodThread, WellBegun, Working
<1>7. SlotsBounded(next)
  BY <1>1, <1>4 DEF GoodThread, SlotsBounded, Working
<1> QED
  BY <1>0, <1>4, <1>5, <1>6, <1>7 DEF GoodThread

LEMMA GetJobKeeps ==
    ASSUME IInv, NEW t \in Threads, GetJob(t)
    PROVE  Structure' /\ UnassignedIsUnknown' /\ EndedStaysEnded'
<1>0. PICK th : th = thread[t]
  OBVIOUS
<1>1. /\ th.pc = "get" /\ GoodThread(t, th) /\ th \in ThreadRecords /\ th.pc \in Working
      /\ th.op \in Operations /\ th.job \in Jobs /\ th.node \in Nodes
  BY <1>0, AtWork DEF GetJob, Working
<1>2. job' = job /\ monitor' = monitor /\ answers' = answers
  BY DEF GetJob, redisVars
<1>3. CASE /\ Exists(th.job) /\ queued' = queued
           /\ thread' = [thread EXCEPT ![t] = [@ EXCEPT !.pc = "set", !.old = job[th.job]]]
  <2>1. PICK old : old = job[th.job]
    OBVIOUS
  <2>2. old \in JobRecords
    BY <1>1, <2>1, JobTypes
  <2>3. PICK one, next : one = [th EXCEPT !.pc = "set"] /\ next = [one EXCEPT !.old = old]
    OBVIOUS
  <2>4. /\ one \in ThreadRecords /\ one.pc = "set" /\ one.op = th.op /\ one.job = th.job /\ one.node = th.node
        /\ one.slots = th.slots
    BY <1>1, <2>3 DEF ThreadRecords
  <2>5. /\ next \in ThreadRecords /\ next.pc = "set" /\ next.op = th.op /\ next.job = th.job
        /\ next.node = th.node /\ next.slots = th.slots /\ next.old = old
    BY <2>2, <2>3, <2>4 DEF ThreadRecords
  <2>6. thread' = [thread EXCEPT ![t] = next]
    BY <1>0, <1>3, <2>1, <2>3, GoodThreads
  <2>7. GoodThread(t, next)
    <3>1. WellBegun(t, next)
      BY <1>1, <2>5 DEF GoodThread, WellBegun, Working
    <3>2. SlotsBounded(next)
      BY <1>1, <2>5 DEF GoodThread, SlotsBounded, Working
    <3> QED
      BY <2>5, <3>1, <3>2 DEF GoodThread
  <2>8. /\ thread' \in [Threads -> ThreadRecords]
        /\ \A u \in Threads : GoodThread(u, thread'[u])
    BY <2>6, <2>7, OneThreadMoves
  <2>9. Structure'
    BY <1>3, <2>8, JobTypes, StructureKept DEF GetJob, redisVars
  <2>10. next.op = "price" => next.old.state \in Terminal
    <3> SUFFICES ASSUME th.op = "price" PROVE old.state \in Terminal
      BY <2>5
    <3>1. t = Request(th.job)
      BY <1>0, <1>1, AtWork
    <3>2. Ended(th.job)
      BY <1>0, <1>1, <3>1 DEF IInv, EndedStaysEnded
    <3> QED
      BY <1>3, <2>1, <3>2 DEF Ended, Exists
  <2>11. UnassignedIsUnknown' /\ EndedStaysEnded'
    <3>1. next.pc \in Working /\ next.pc # "client" /\ thread[t].pc # "client"
      BY <1>0, <1>1, <2>5 DEF Working
    <3> QED
      BY <1>0, <1>1, <1>2, <1>3, <2>5, <2>6, <2>7, <2>10, <3>1, WorkingKeeps
  <2> QED
    BY <2>9, <2>11
<1>4. CASE ~ Exists(th.job) /\ th.op = "price" /\ Finish(t, TRUE)
  <2>1. Ends(t, TRUE)
    BY <1>0, <1>1, <1>4, FinishEnds
  <2>2. /\ thread' \in [Threads -> ThreadRecords]
        /\ \A u \in Threads : GoodThread(u, thread'[u])
        /\ queued' \in SUBSET Jobs
    BY <1>0, <1>1, <2>1, EndsWell
  <2>3. Structure'
    BY <2>2, JobTypes, StructureKept DEF GetJob, redisVars
  <2>4. UnassignedIsUnknown' /\ EndedStaysEnded'
    BY <1>0, <1>1, <1>2, <1>4, <2>1, EndingKeeps
  <2> QED
    BY <2>3, <2>4
<1>5. CASE /\ ~ Exists(th.job) /\ th.op # "price"
           /\ thread' = [thread EXCEPT ![t] = [@ EXCEPT !.pc = "client",
                                                        !.old = NoJob]] /\ queued' = queued
  <2>1. PICK next : /\ GoodThread(t, next) /\ next.pc = "client" /\ next.op = th.op /\ next.job = th.job
                    /\ thread' = [thread EXCEPT ![t] = next]
    BY <1>0, <1>1, <1>5, ClientComesNext
  <2>2. /\ thread' \in [Threads -> ThreadRecords]
        /\ \A u \in Threads : GoodThread(u, thread'[u])
    BY <2>1, OneThreadMoves
  <2>3. Structure'
    BY <1>5, <2>2, JobTypes, StructureKept DEF GetJob, redisVars
  <2>4. Ended(th.job)'
    BY <1>2, <1>5 DEF Ended, Exists
  <2>5. UnassignedIsUnknown' /\ EndedStaysEnded'
    <3>1. next.pc \in Working /\ next.pc # "set" /\ thread[t].pc # "client"
      BY <1>0, <1>1, <2>1 DEF Working
    <3> QED
      BY <1>0, <1>1, <1>2, <1>5, <2>1, <2>4, <3>1, WorkingKeeps
  <2> QED
    BY <2>3, <2>5
<1>6. \/ /\ Exists(th.job) /\ queued' = queued
         /\ thread' = [thread EXCEPT ![t] = [@ EXCEPT !.pc = "set", !.old = job[th.job]]]
      \/ ~ Exists(th.job) /\ th.op = "price" /\ Finish(t, TRUE)
      \/ /\ ~ Exists(th.job) /\ th.op # "price"
         /\ thread' = [thread EXCEPT ![t] = [@ EXCEPT !.pc = "client",
                                                      !.old = NoJob]] /\ queued' = queued
  BY <1>0 DEF GetJob, JobUpdated
<1> QED
  BY <1>3, <1>4, <1>5, <1>6
-----------------------------------------------------------------------------
\* The record an updateJob writes, by operation.
LEMMA UpdatedRecord ==
    ASSUME NEW th \in ThreadRecords, th.op \in Operations, th.node \in Nodes
    PROVE  /\ Updated(th) \in JobRecords
           /\ th.op \in {"complete", "fail"} => Updated(th).state \in Terminal
           /\ th.op = "price" => Updated(th) = th.old
<1>1. th.old \in JobRecords
  BY DEF ThreadRecords
<1>2. CASE th.op = "assign"
  BY <1>2 DEF Updated, JobRecords, States
<1>3. CASE th.op = "complete"
  BY <1>3 DEF Updated, JobRecords, States, Terminal
<1>4. CASE th.op = "fail"
  BY <1>1, <1>4 DEF Updated, JobRecords, States, Terminal
<1>5. CASE th.op = "price"
  BY <1>1, <1>5 DEF Updated
<1> QED
  BY <1>2, <1>3, <1>4, <1>5 DEF Operations

LEMMA SetJobKeeps ==
    ASSUME IInv, NEW t \in Threads, SetJob(t)
    PROVE  Structure' /\ UnassignedIsUnknown' /\ EndedStaysEnded'
<1>0. PICK th : th = thread[t]
  OBVIOUS
<1>1. /\ th.pc = "set" /\ GoodThread(t, th) /\ th \in ThreadRecords /\ th.pc \in Working
      /\ th.op \in Operations /\ th.job \in Jobs /\ th.node \in Nodes
  BY <1>0, AtWork DEF SetJob, Working
<1>2. PICK new : new = Updated(th)
  OBVIOUS
<1>3. /\ new \in JobRecords
      /\ th.op \in {"complete", "fail"} => new.state \in Terminal
      /\ th.op = "price" => new = th.old
  BY <1>1, <1>2, UpdatedRecord
<1>4. job' = [job EXCEPT ![th.job] = new]
  BY <1>0, <1>2 DEF SetJob
<1>5. job' \in [Jobs -> JobRecords] /\ \A k \in Jobs : job'[k] = IF k = th.job THEN new ELSE job[k]
  BY <1>1, <1>3, <1>4, JobTypes
<1>6. monitor' = monitor /\ answers' = answers
  BY DEF SetJob
<1>7. CASE th.op = "price" /\ Finish(t, TRUE)
  <2>1. Ends(t, TRUE)
    BY <1>0, <1>1, <1>7, FinishEnds
  <2>2. /\ thread' \in [Threads -> ThreadRecords]
        /\ \A u \in Threads : GoodThread(u, thread'[u])
        /\ queued' \in SUBSET Jobs
    BY <1>0, <1>1, <2>1, EndsWell
  <2>3. Structure'
    BY <1>5, <2>2, JobTypes, StructureKept DEF SetJob
  <2>4. new.state \in Terminal
    <3>1. t = Request(th.job)
      BY <1>0, <1>1, <1>7, AtWork
    <3> QED
      BY <1>0, <1>1, <1>3, <1>7, <3>1 DEF IInv, EndedStaysEnded
  <2>5. UnassignedIsUnknown' /\ EndedStaysEnded'
    BY <1>0, <1>1, <1>5, <1>6, <1>7, <2>1, <2>4, EndingKeeps
  <2> QED
    BY <2>3, <2>5
<1>8. CASE /\ th.op # "price" /\ queued' = queued
           /\ thread' = [thread EXCEPT ![t] = [@ EXCEPT !.pc = "client", !.old = NoJob]]
  <2>1. PICK next : /\ GoodThread(t, next) /\ next.pc = "client" /\ next.op = th.op /\ next.job = th.job
                    /\ thread' = [thread EXCEPT ![t] = next]
    BY <1>0, <1>1, <1>8, ClientComesNext
  <2>2. /\ thread' \in [Threads -> ThreadRecords]
        /\ \A u \in Threads : GoodThread(u, thread'[u])
    BY <2>1, OneThreadMoves
  <2>3. Structure'
    BY <1>5, <1>8, <2>2, JobTypes, StructureKept DEF SetJob
  <2>4. th.op # "assign" => Ended(th.job)'
    <3>1. th.op # "assign" => th.op \in {"complete", "fail"}
      BY <1>1, <1>8 DEF Operations
    <3> QED
      BY <1>1, <1>3, <1>5, <3>1 DEF Ended
  <2>5. \A k \in Jobs : \/ job'[k] = job[k]
                        \/ /\ k = next.job
                           /\ IF next.op = "assign" THEN next.pc = "client" /\ thread[t].pc = "set"
                              ELSE Ended(k)'
    BY <1>0, <1>1, <1>5, <2>1, <2>4
  <2>6. UnassignedIsUnknown' /\ EndedStaysEnded'
    <3>1. next.pc \in Working /\ next.pc # "set" /\ thread[t].pc # "client"
      BY <1>0, <1>1, <2>1 DEF Working
    <3>2. next.op = "complete" => Ended(next.job)'
      BY <2>1, <2>4
    <3> QED
      BY <1>0, <1>1, <1>6, <1>8, <2>1, <2>5, <3>1, <3>2, WorkingKeeps
  <2> QED
    BY <2>3, <2>6
<1>9. \/ th.op = "price" /\ Finish(t, TRUE)
      \/ /\ th.op # "price" /\ queued' = queued
         /\ thread' = [thread EXCEPT ![t] = [@ EXCEPT !.pc = "client", !.old = NoJob]]
  BY <1>0 DEF SetJob, JobUpdated
<1> QED
  BY <1>7, <1>8, <1>9

\* The slots a thread writes back fit: its copy did, and had room for one more
\* when it assigns.
LEMMA NewSlotsFit ==
    ASSUME NEW th \in ThreadRecords, SlotsBounded(th), th.pc = "client", th.job \in Jobs
    PROVE  NewSlots(th) \in SUBSET Jobs /\ Cardinality(NewSlots(th)) <= MaxConcurrent
<1>1. th.slots \in SUBSET Jobs /\ IsFiniteSet(th.slots) /\ MaxConcurrent \in Nat /\ Cardinality(th.slots) \in Nat
  <2>1. th.slots \in SUBSET Jobs
    BY DEF ThreadRecords
  <2>2. IsFiniteSet(th.slots)
    BY <2>1, LifecycleAssumption, FS_Subset
  <2> QED
    BY <2>1, <2>2, LifecycleAssumption, FS_CardinalityType
<1>2. CASE th.op = "assign"
  <2>1. Cardinality(th.slots) < MaxConcurrent
    BY <1>2 DEF SlotsBounded, HasCapacity, Working
  <2>2. Cardinality(th.slots \cup {th.job}) <= Cardinality(th.slots) + 1
    <3>1. Cardinality(th.slots \cup {th.job})
            = IF th.job \in th.slots THEN Cardinality(th.slots) ELSE Cardinality(th.slots) + 1
      BY <1>1, FS_AddElement, Zenon
    <3> QED
      BY <1>1, <3>1
  <2>3. Cardinality(th.slots \cup {th.job}) \in Nat
    <3>1. IsFiniteSet(th.slots \cup {th.job})
      BY <1>1, FS_AddElement
    <3> QED
      BY <3>1, FS_CardinalityType
  <2> QED
    BY <1>1, <1>2, <2>1, <2>2, <2>3 DEF NewSlots
<1>3. CASE th.op # "assign"
  <2>1. th.slots \ {th.job} \in SUBSET th.slots
    OBVIOUS
  <2>2. /\ Cardinality(th.slots \ {th.job}) <= Cardinality(th.slots)
        /\ Cardinality(th.slots \ {th.job}) \in Nat
    BY <1>1, <2>1, FS_Subset, FS_CardinalityType
  <2> QED
    BY <1>1, <1>3, <2>1, <2>2 DEF NewSlots, SlotsBounded
<1> QED
  BY <1>2, <1>3

LEMMA UpdateClientKeeps ==
    ASSUME IInv, NEW t \in Threads, UpdateClient(t)
    PROVE  Structure' /\ UnassignedIsUnknown' /\ EndedStaysEnded'
<1>0. PICK th : th = thread[t]
  OBVIOUS
<1>1. /\ th.pc = "client" /\ GoodThread(t, th) /\ th \in ThreadRecords /\ th.pc \in Working
      /\ th.op \in Operations /\ th.job \in Jobs /\ th.node \in Nodes
  BY <1>0, AtWork DEF UpdateClient, Working
<1>2. PICK slots, reward : slots = NewSlots(th) /\ reward = NewBalance(th)
  OBVIOUS
<1>3. slots \in SUBSET Jobs /\ Cardinality(slots) <= MaxConcurrent
  BY <1>1, <1>2, NewSlotsFit DEF GoodThread
<1>4. reward \in Nat
  BY <1>1, <1>2, JobTypes DEF NewBalance, ThreadRecords
<1>5. /\ activeJobs' = [activeJobs EXCEPT ![th.node] = slots]
      /\ balance' = [balance EXCEPT ![th.node] = reward]
  BY <1>0, <1>2 DEF UpdateClient
<1>6. activeJobs' \in [Nodes -> SUBSET Jobs] /\ balance' \in [Nodes -> Nat]
  BY <1>1, <1>3, <1>4, <1>5, JobTypes
<1>7. \A n \in Nodes : Cardinality(activeJobs'[n]) <= MaxConcurrent
  BY <1>1, <1>3, <1>5, JobTypes DEF IInv, ActiveWithinCapacity
<1>8. Ends(t, TRUE)
  BY <1>0, <1>1, FinishEnds DEF UpdateClient
<1>9. /\ thread' \in [Threads -> ThreadRecords]
      /\ \A u \in Threads : GoodThread(u, thread'[u])
      /\ queued' \in SUBSET Jobs
  BY <1>0, <1>1, <1>8, EndsWell
<1>10. Structure'
  BY <1>6, <1>7, <1>9, ClientStructureKept DEF UpdateClient
<1>11. th.op = "complete" => Ended(th.job)
  <2>1. th.op = "complete" => t = Answer(th.job)
    BY <1>0, <1>1, AtWork
  <2> QED
    BY <1>0, <1>1, <2>1 DEF IInv, EndedStaysEnded
<1>12. UnassignedIsUnknown' /\ EndedStaysEnded'
  BY <1>0, <1>1, <1>8, <1>11, EndingKeeps DEF UpdateClient
<1> QED
  BY <1>10, <1>12
-----------------------------------------------------------------------------
\* What a round of the monitor may be at.
GoodRound(r) ==
    /\ r \in Rounds
    /\ r.pc \in {"check", "fail"} => r.node \in Nodes
    /\ \A n \in Nodes : Cardinality(r.slots[n]) <= MaxConcurrent

LEMMA GoodRounds ==
    ASSUME IInv
    PROVE  monitor \in [Monitors -> Rounds] /\ \A m \in Monitors : GoodRound(monitor[m])
BY DEF IInv, TypeOK, RoundsBegun, CopiesWithinCapacity, GoodRound

LEMMA EmptyRound ==
    /\ GoodRound(NoRound) /\ NoRound.timedOut = {} /\ NoRound.pc = "idle" /\ NoRound.nodes = {}
    /\ NoRound.node = None /\ NoRound.unchecked = {} /\ NoRound.cleanup = {}
<1>1. NoRound \in Rounds
  BY DEF NoRound, Rounds
<1>2. \A n \in Nodes : NoRound.slots[n] = {}
  BY DEF NoRound
<1>3. MaxConcurrent \in Nat /\ Cardinality({}) = 0
  BY LifecycleAssumption, FS_EmptySet
<1> QED
  BY <1>1, <1>2, <1>3 DEF GoodRound, NoRound

\* Steps of a round: it finds overdue only what is ongoing.
LEMMA RoundStructureKept ==
    ASSUME IInv, NEW m \in Monitors, NEW r, GoodRound(r), monitor' = [monitor EXCEPT ![m] = r],
           thread' \in [Threads -> ThreadRecords], \A u \in Threads : GoodThread(u, thread'[u]),
           activeJobs' \in [Nodes -> SUBSET Jobs],
           \A n \in Nodes : Cardinality(activeJobs'[n]) <= MaxConcurrent,
           UNCHANGED <<job, balance, clientId, serverVars>>
    PROVE  Structure'
<1>1. monitor' \in [Monitors -> Rounds] /\ \A k \in Monitors : GoodRound(monitor'[k])
  BY GoodRounds DEF GoodRound
<1>2. TypeOK'
  BY <1>1 DEF IInv, TypeOK, serverVars
<1>3. ThreadsBegun' /\ \A u \in Threads : SlotsBounded(thread'[u])
  BY GoodThreadsNext
<1>4. RoundsBegun' /\ ActiveWithinCapacity'
  BY <1>1 DEF RoundsBegun, ActiveWithinCapacity, GoodRound
<1>5. CopiesWithinCapacity'
  BY <1>1, <1>3 DEF CopiesWithinCapacity, GoodRound
<1> QED
  BY <1>2, <1>3, <1>4, <1>5 DEF Structure

LEMMA RoundMoves ==
    ASSUME IInv, NEW m \in Monitors, NEW r, GoodRound(r), monitor' = [monitor EXCEPT ![m] = r],
           activeJobs' \in [Nodes -> SUBSET Jobs],
           \A n \in Nodes : Cardinality(activeJobs'[n]) <= MaxConcurrent,
           UNCHANGED <<job, balance, clientId, serverVars, thread>>,
           \A j \in r.timedOut : j \in monitor[m].timedOut \/ job[j].state = "ongoing"
    PROVE  Structure' /\ UnassignedIsUnknown' /\ EndedStaysEnded'
<1>1. thread' = thread /\ job' = job /\ queued' = queued
  BY DEF serverVars
<1>2. thread' \in [Threads -> ThreadRecords] /\ \A u \in Threads : GoodThread(u, thread'[u])
  BY <1>1, GoodThreads
<1>3. Structure'
  BY <1>2, RoundStructureKept
<1>4. \A k \in Monitors : monitor'[k] = IF k = m THEN r ELSE monitor[k]
  BY GoodRounds
<1>5. UnassignedIsUnknown'
  <2> SUFFICES ASSUME NEW j \in Jobs, Unassigned(j)' PROVE Unknown(j)'
    BY DEF UnassignedIsUnknown
  <2>1. Unassigned(j) /\ Unknown(j)
    BY <1>1 DEF Unassigned, IInv, UnassignedIsUnknown
  <2>2. j \notin r.timedOut
    BY <2>1 DEF Unknown
  <2>3. \A k \in Monitors : j \notin monitor'[k].timedOut
    BY <1>4, <2>1, <2>2 DEF Unknown
  <2> QED
    BY <1>1, <2>1, <2>3 DEF Unknown
<1>6. EndedStaysEnded'
  BY <1>1 DEF IInv, EndedStaysEnded, Ended
<1> QED
  BY <1>3, <1>5, <1>6

LEMMA ActiveJobsKept ==
    ASSUME IInv, activeJobs' = activeJobs
    PROVE  /\ activeJobs' \in [Nodes -> SUBSET Jobs]
           /\ \A n \in Nodes : Cardinality(activeJobs'[n]) <= MaxConcurrent
BY JobTypes DEF IInv, ActiveWithinCapacity

LEMMA MonitorStartsKeeps ==
    ASSUME IInv, NEW m \in Monitors, MonitorStarts(m)
    PROVE  Structure' /\ UnassignedIsUnknown' /\ EndedStaysEnded'
<1>1. PICK nodes : nodes = {n \in Nodes : activeJobs[n] # {}}
  OBVIOUS
<1>2. PICK one, two, three, r :
          /\ one = [NoRound EXCEPT !.pc = "node"]
          /\ two = [one EXCEPT !.slots = activeJobs]
          /\ three = [two EXCEPT !.cids = clientId]
          /\ r = [three EXCEPT !.nodes = nodes]
  OBVIOUS
<1>3. monitor' = [monitor EXCEPT ![m] = r]
  BY <1>1, <1>2 DEF MonitorStarts
<1>4. /\ NoRound \in Rounds /\ activeJobs \in [Nodes -> SUBSET Jobs] /\ clientId \in [Nodes -> Nat]
      /\ nodes \in SUBSET Nodes
  BY <1>1, EmptyRound, JobTypes DEF GoodRound
<1>5. one \in Rounds /\ one.pc = "node" /\ one.timedOut = {}
  BY <1>2, <1>4, EmptyRound DEF Rounds
<1>6. two \in Rounds /\ two.pc = "node" /\ two.timedOut = {} /\ two.slots = activeJobs
  BY <1>2, <1>4, <1>5 DEF Rounds
<1>7. three \in Rounds /\ three.pc = "node" /\ three.timedOut = {} /\ three.slots = activeJobs
  BY <1>2, <1>4, <1>6 DEF Rounds
<1>8. r \in Rounds /\ r.pc = "node" /\ r.timedOut = {} /\ r.slots = activeJobs
  BY <1>2, <1>4, <1>7 DEF Rounds
<1>9. GoodRound(r)
  BY <1>8 DEF GoodRound, IInv, ActiveWithinCapacity
<1>10. activeJobs' = activeJobs
  BY DEF MonitorStarts, redisVars
<1> QED
  BY <1>3, <1>8, <1>9, <1>10, ActiveJobsKept, RoundMoves DEF MonitorStarts, redisVars

LEMMA MonitorNextNodeKeeps ==
    ASSUME IInv, NEW m \in Monitors, MonitorNextNode(m)
    PROVE  Structure' /\ UnassignedIsUnknown' /\ EndedStaysEnded'
<1>0. PICK q : q = monitor[m]
  OBVIOUS
<1>1. GoodRound(q) /\ q \in Rounds
  BY <1>0, GoodRounds DEF GoodRound
<1>2. activeJobs' = activeJobs
  BY DEF MonitorNextNode, redisVars
<1>3. CASE monitor' = [monitor EXCEPT ![m] = NoRound]
  BY <1>2, <1>3, EmptyRound, ActiveJobsKept, RoundMoves DEF MonitorNextNode, redisVars
<1>4. ASSUME NEW n \in q.nodes,
             monitor' = [monitor EXCEPT ![m] = [@ EXCEPT !.pc = "check", !.node = n,
                                                         !.nodes = q.nodes \ {n},
                                                         !.unchecked = q.slots[n]]]
      PROVE  Structure' /\ UnassignedIsUnknown' /\ EndedStaysEnded'
  <2>1. PICK nodes, unchecked : nodes = q.nodes \ {n} /\ unchecked = q.slots[n]
    OBVIOUS
  <2>2. n \in Nodes /\ nodes \in SUBSET Nodes /\ unchecked \in SUBSET Jobs
    BY <1>1, <1>4, <2>1 DEF Rounds
  <2>3. PICK r : r = [q EXCEPT !.pc = "check", !.node = n, !.nodes = nodes, !.unchecked = unchecked]
    OBVIOUS
  <2>7. r \in Rounds /\ r.timedOut = q.timedOut /\ r.slots = q.slots /\ r.node = n
    BY <1>1, <2>2, <2>3 DEF Rounds
  <2>8. GoodRound(r)
    BY <1>1, <2>2, <2>7 DEF GoodRound
  <2>9. monitor' = [monitor EXCEPT ![m] = r]
    BY <1>0, <1>4, <2>1, <2>3, GoodRounds
  <2> QED
    BY <1>0, <1>2, <2>7, <2>8, <2>9, ActiveJobsKept, RoundMoves DEF MonitorNextNode, redisVars
<1>5. \/ monitor' = [monitor EXCEPT ![m] = NoRound]
      \/ \E n \in q.nodes :
             monitor' = [monitor EXCEPT ![m] = [@ EXCEPT !.pc = "check", !.node = n,
                                                         !.nodes = q.nodes \ {n},
                                                         !.unchecked = q.slots[n]]]
  BY <1>0, GoodRounds DEF MonitorNextNode
<1> QED
  BY <1>3, <1>4, <1>5

LEMMA MonitorChecksKeeps ==
    ASSUME IInv, NEW m \in Monitors, NEW j \in Jobs, NEW late \in BOOLEAN, MonitorChecks(m, j, late)
    PROVE  Structure' /\ UnassignedIsUnknown' /\ EndedStaysEnded'
<1>0. PICK q : q = monitor[m]
  OBVIOUS
<1>1. GoodRound(q) /\ q \in Rounds /\ q.pc = "check"
  BY <1>0, GoodRounds DEF GoodRound, MonitorChecks
<1>2. PICK unchecked, cleanup, timedOut :
          /\ unchecked = q.unchecked \ {j}
          /\ cleanup = q.cleanup \cup IF OnlyCleanup(j) THEN {j} ELSE {}
          /\ timedOut = q.timedOut \cup IF job[j].state = "ongoing" /\ late THEN {j} ELSE {}
  OBVIOUS
<1>3. unchecked \in SUBSET Jobs /\ cleanup \in SUBSET Jobs /\ timedOut \in SUBSET Jobs
  BY <1>1, <1>2 DEF Rounds
<1>4. PICK r : r = [q EXCEPT !.unchecked = unchecked, !.cleanup = cleanup, !.timedOut = timedOut]
  OBVIOUS
<1>7. r \in Rounds /\ r.pc = "check" /\ r.slots = q.slots /\ r.node = q.node /\ r.timedOut = timedOut
  BY <1>1, <1>3, <1>4 DEF Rounds
<1>8. GoodRound(r)
  BY <1>1, <1>7 DEF GoodRound
<1>9. monitor' = [monitor EXCEPT ![m] = r]
  BY <1>0, <1>2, <1>4, GoodRounds DEF MonitorChecks
<1>10. activeJobs' = activeJobs
  BY DEF MonitorChecks, redisVars
<1>11. \A k \in r.timedOut : k \in monitor[m].timedOut \/ job[k].state = "ongoing"
  BY <1>0, <1>2, <1>7
<1> QED
  BY <1>8, <1>9, <1>10, <1>11, ActiveJobsKept, RoundMoves DEF MonitorChecks, redisVars

LEMMA MonitorCleansUpKeeps ==
    ASSUME IInv, NEW m \in Monitors, MonitorCleansUp(m)
    PROVE  Structure' /\ UnassignedIsUnknown' /\ EndedStaysEnded'
<1>0. PICK q : q = monitor[m]
  OBVIOUS
<1>1. GoodRound(q) /\ q \in Rounds /\ q.pc = "check" /\ q.node \in Nodes
  BY <1>0, GoodRounds DEF GoodRound, MonitorCleansUp
<1>2. PICK slots, kept : slots = [q.slots EXCEPT ![q.node] = {}] /\ kept = q.slots[q.node] \ q.cleanup
  OBVIOUS
<1>3. MaxConcurrent \in Nat /\ Cardinality({}) = 0
  BY LifecycleAssumption, FS_EmptySet
<1>4. slots \in [Nodes -> SUBSET Jobs] /\ \A n \in Nodes : Cardinality(slots[n]) <= MaxConcurrent
  BY <1>1, <1>2, <1>3 DEF Rounds, GoodRound
<1>5. kept \in SUBSET Jobs /\ Cardinality(kept) <= MaxConcurrent
  <2>1. q.slots[q.node] \in SUBSET Jobs /\ Cardinality(q.slots[q.node]) <= MaxConcurrent
    BY <1>1 DEF Rounds, GoodRound
  <2>2. IsFiniteSet(q.slots[q.node])
    BY <2>1, LifecycleAssumption, FS_Subset
  <2>3. kept \in SUBSET q.slots[q.node]
    BY <1>2
  <2>4. Cardinality(kept) <= Cardinality(q.slots[q.node]) /\ IsFiniteSet(kept)
    BY <2>2, <2>3, FS_Subset
  <2>5. Cardinality(kept) \in Nat /\ Cardinality(q.slots[q.node]) \in Nat
    BY <2>2, <2>4, FS_CardinalityType
  <2> QED
    BY <1>3, <2>1, <2>3, <2>4, <2>5
<1>6. PICK one, two, r :
          /\ one = [q EXCEPT !.pc = "fail"]
          /\ two = [one EXCEPT !.cleanup = {}]
          /\ r = [two EXCEPT !.slots = slots]
  OBVIOUS
<1>7. one \in Rounds /\ one.pc = "fail" /\ one.slots = q.slots /\ one.node = q.node /\ one.timedOut = q.timedOut
  BY <1>1, <1>6 DEF Rounds
<1>8. two \in Rounds /\ two.pc = "fail" /\ two.slots = q.slots /\ two.node = q.node /\ two.timedOut = q.timedOut
  BY <1>6, <1>7 DEF Rounds
<1>9. r \in Rounds /\ r.pc = "fail" /\ r.slots = slots /\ r.node = q.node /\ r.timedOut = q.timedOut
  BY <1>4, <1>6, <1>8 DEF Rounds
<1>10. GoodRound(r)
  BY <1>1, <1>4, <1>9 DEF GoodRound
<1>11. monitor' = [monitor EXCEPT ![m] = r]
  BY <1>0, <1>2, <1>6, GoodRounds DEF MonitorCleansUp
<1>12. /\ activeJobs' \in [Nodes -> SUBSET Jobs]
       /\ \A n \in Nodes : Cardinality(activeJobs'[n]) <= MaxConcurrent
  <2>1. activeJobs' = activeJobs \/ activeJobs' = [activeJobs EXCEPT ![q.node] = kept]
    BY <1>0, <1>2 DEF MonitorCleansUp
  <2>2. CASE activeJobs' = activeJobs
    BY <2>2, ActiveJobsKept
  <2>3. CASE activeJobs' = [activeJobs EXCEPT ![q.node] = kept]
    BY <1>1, <1>5, <2>3, JobTypes DEF IInv, ActiveWithinCapacity
  <2> QED
    BY <2>1, <2>2, <2>3
<1>13. UNCHANGED <<job, balance, clientId, serverVars, thread>>
  BY DEF MonitorCleansUp
<1> QED
  BY <1>0, <1>9, <1>10, <1>11, <1>12, <1>13, RoundMoves
-----------------------------------------------------------------------------
LEMMA MonitorFailsKeeps ==
    ASSUME IInv, NEW m \in Monitors, MonitorFails(m)
    PROVE  Structure' /\ UnassignedIsUnknown' /\ EndedStaysEnded'
<1>0. PICK q : q = monitor[m]
  OBVIOUS
<1>1. GoodRound(q) /\ q \in Rounds /\ q.pc = "fail" /\ q.node \in Nodes
  BY <1>0, GoodRounds DEF GoodRound, MonitorFails
<1>2. activeJobs' = activeJobs /\ job' = job /\ queued' = queued
      /\ UNCHANGED <<job, balance, clientId, serverVars>>
  BY DEF MonitorFails, redisVars, serverVars
<1>3. CASE monitor' = [monitor EXCEPT ![m] = [@ EXCEPT !.pc = "node",
                                                       !.node = None]] /\ thread' = thread
  <2>1. PICK one, r : one = [q EXCEPT !.pc = "node"] /\ r = [one EXCEPT !.node = None]
    OBVIOUS
  <2>2. one \in Rounds /\ one.pc = "node" /\ one.slots = q.slots /\ one.timedOut = q.timedOut
    BY <1>1, <2>1 DEF Rounds
  <2>3. r \in Rounds /\ r.pc = "node" /\ r.slots = q.slots /\ r.timedOut = q.timedOut
    BY <2>1, <2>2 DEF Rounds
  <2>4. GoodRound(r)
    BY <1>1, <2>3 DEF GoodRound
  <2>5. monitor' = [monitor EXCEPT ![m] = r]
    BY <1>0, <1>3, <2>1, GoodRounds
  <2> QED
    BY <1>0, <1>2, <1>3, <2>3, <2>4, <2>5, ActiveJobsKept, RoundMoves
<1>4. ASSUME NEW j \in q.timedOut,
             monitor' = [monitor EXCEPT ![m].timedOut = q.timedOut \ {j}],
             thread' = [thread EXCEPT ![Monitor(m)] = Begin("fail", j, q.node, q.cids[q.node])]
      PROVE  Structure' /\ UnassignedIsUnknown' /\ EndedStaysEnded'
  <2>1. PICK timedOut, r : timedOut = q.timedOut \ {j} /\ r = [q EXCEPT !.timedOut = timedOut]
    OBVIOUS
  <2>2. j \in Jobs /\ timedOut \in SUBSET Jobs /\ q.cids[q.node] \in Nat
    BY <1>1, <1>4, <2>1 DEF Rounds
  <2>3. r \in Rounds /\ r.pc = "fail" /\ r.slots = q.slots /\ r.node = q.node /\ r.timedOut = timedOut
    BY <1>1, <2>1, <2>2 DEF Rounds
  <2>4. GoodRound(r) /\ monitor' = [monitor EXCEPT ![m] = r]
    BY <1>0, <1>1, <1>4, <2>1, <2>3, GoodRounds DEF GoodRound
  <2>5. PICK th : th = Begin("fail", j, q.node, q.cids[q.node])
    OBVIOUS
  <2>6. Monitor(m) \in Threads /\ GoodThread(Monitor(m), th) /\ th.job = j
    BY <1>1, <2>2, <2>5, ThreadNames, GoodBegin, BeginFields
  <2>7. /\ thread' \in [Threads -> ThreadRecords]
        /\ \A u \in Threads : GoodThread(u, thread'[u])
        /\ \A u \in Threads : thread'[u] = IF u = Monitor(m) THEN th ELSE thread[u]
    BY <1>4, <2>5, <2>6, OneThreadMoves
  <2>8. Structure'
    BY <1>2, <2>4, <2>7, ActiveJobsKept, RoundStructureKept
  <2>9. \A k \in Jobs : thread'[Request(k)] = thread[Request(k)] /\ thread'[Answer(k)] = thread[Answer(k)]
    BY <2>7, ThreadNames
  <2>10. \A k \in Monitors : monitor'[k] = IF k = m THEN r ELSE monitor[k]
    BY <2>4, GoodRounds
  <2>11. \A k \in Monitors : thread'[Monitor(k)] = thread[Monitor(k)] \/ thread'[Monitor(k)].job = j
    BY <2>6, <2>7, ThreadNames
  <2>12. UnassignedIsUnknown'
    <3> SUFFICES ASSUME NEW k \in Jobs, Unassigned(k)' PROVE Unknown(k)'
      BY DEF UnassignedIsUnknown
    <3>1. Unassigned(k) /\ Unknown(k)
      BY <2>9 DEF Unassigned, IInv, UnassignedIsUnknown
    <3>2. k # j
      BY <1>0, <1>4, <3>1 DEF Unknown
    <3>3. \A l \in Monitors : k \notin monitor'[l].timedOut
      BY <1>0, <2>1, <2>3, <2>10, <3>1 DEF Unknown
    <3> QED
      BY <1>2, <2>9, <2>11, <3>1, <3>2, <3>3 DEF Unknown
  <2>13. EndedStaysEnded'
    BY <1>2, <2>9 DEF IInv, EndedStaysEnded, Ended
  <2> QED
    BY <2>8, <2>12, <2>13
<1>5. \/ monitor' = [monitor EXCEPT ![m] = [@ EXCEPT !.pc = "node",
                                                     !.node = None]] /\ thread' = thread
      \/ \E j \in q.timedOut :
            /\ monitor' = [monitor EXCEPT ![m].timedOut = q.timedOut \ {j}]
            /\ thread' = [thread EXCEPT ![Monitor(m)] = Begin("fail", j, q.node, q.cids[q.node])]
  BY <1>0, GoodRounds DEF MonitorFails
<1> QED
  BY <1>3, <1>4, <1>5

\* A new session or an old PING changes only which client_id the record has.
LEMMA SessionsKeep ==
    ASSUME IInv, NEW n \in Nodes, Reconnect(n) \/ \E cid \in 0 .. MaxReconnects : Ping(n, cid)
    PROVE  Structure' /\ UnassignedIsUnknown' /\ EndedStaysEnded'
<1>1. /\ clientId' \in [Nodes -> 0 .. MaxReconnects] /\ sessions' \in [Nodes -> 0 .. MaxReconnects]
      /\ \A k \in Nodes : clientId'[k] <= sessions'[k]
      /\ pings' \in 0 .. MaxPings
  <2>1. /\ clientId \in [Nodes -> 0 .. MaxReconnects] /\ sessions \in [Nodes -> 0 .. MaxReconnects]
        /\ \A k \in Nodes : clientId[k] <= sessions[k]
        /\ pings \in 0 .. MaxPings /\ MaxPings \in Nat /\ MaxReconnects \in Nat
    BY LifecycleAssumption DEF IInv, TypeOK
  <2>2. CASE Reconnect(n)
    <3>1. sessions[n] + 1 \in 0 .. MaxReconnects
      BY <2>1, <2>2 DEF Reconnect
    <3> QED
      BY <2>1, <2>2, <3>1 DEF Reconnect
  <2>3. ASSUME NEW cid \in 0 .. MaxReconnects, Ping(n, cid)
        PROVE  /\ clientId' \in [Nodes -> 0 .. MaxReconnects] /\ sessions' \in [Nodes -> 0 .. MaxReconnects]
               /\ \A k \in Nodes : clientId'[k] <= sessions'[k]
               /\ pings' \in 0 .. MaxPings
    <3>1. cid <= sessions[n] /\ sessions' = sessions
      BY <2>1, <2>3 DEF Ping
    <3>2. clientId' = [clientId EXCEPT ![n] = cid] /\ pings' = pings + 1 /\ pings < MaxPings
      BY <2>3 DEF Ping
    <3> QED
      BY <2>1, <3>1, <3>2
  <2> QED
    BY <2>2, <2>3
<1>2. UNCHANGED <<job, activeJobs, balance, thread, monitor, queued, answers, deletions, restarts>>
  BY DEF Reconnect, Ping
<1>3. TypeOK'
  BY <1>1, <1>2 DEF IInv, TypeOK
<1>4. ThreadsBegun' /\ RoundsBegun' /\ ActiveWithinCapacity' /\ CopiesWithinCapacity'
  BY <1>2 DEF IInv, ThreadsBegun, RoundsBegun, ActiveWithinCapacity, CopiesWithinCapacity
<1>5. UnassignedIsUnknown' /\ EndedStaysEnded'
  BY <1>2 DEF IInv, UnassignedIsUnknown, Unassigned, Unknown, EndedStaysEnded, Ended
<1> QED
  BY <1>3, <1>4, <1>5 DEF Structure

LEMMA DeleteJobKeeps ==
    ASSUME IInv, NEW j \in Jobs, DeleteJob(j)
    PROVE  Structure' /\ UnassignedIsUnknown' /\ EndedStaysEnded'
<1>1. job' \in [Jobs -> JobRecords] /\ \A k \in Jobs : job'[k] = IF k = j THEN NoJob ELSE job[k]
  BY JobTypes, EmptyRecords DEF DeleteJob
<1>2. deletions' \in 0 .. MaxDeletions
  BY LifecycleAssumption DEF IInv, TypeOK, DeleteJob
<1>3. UNCHANGED <<activeJobs, balance, clientId, thread, monitor, sessions, queued, answers, pings, restarts>>
  BY DEF DeleteJob
<1>4. TypeOK'
  BY <1>1, <1>2, <1>3 DEF IInv, TypeOK
<1>5. ThreadsBegun' /\ RoundsBegun' /\ ActiveWithinCapacity' /\ CopiesWithinCapacity'
  BY <1>3 DEF IInv, ThreadsBegun, RoundsBegun, ActiveWithinCapacity, CopiesWithinCapacity
<1>6. \A k \in Jobs : job'[k].state \in {job[k].state, "none"}
  BY <1>1, EmptyRecords
<1>7. UnassignedIsUnknown' /\ EndedStaysEnded'
  BY <1>3, <1>6 DEF IInv, UnassignedIsUnknown, Unassigned, Unknown, EndedStaysEnded, Ended
<1> QED
  BY <1>4, <1>5, <1>7 DEF Structure

LEMMA RestartKeeps ==
    ASSUME IInv, Restart
    PROVE  Structure' /\ UnassignedIsUnknown' /\ EndedStaysEnded'
<1>1. \A t \in Threads : thread'[t] = IF t[1] = "request" /\ thread[t] # Idle THEN Done ELSE Idle
  BY DEF Restart, Done
<1>2. \A t \in Threads : GoodThread(t, thread'[t])
  <2> SUFFICES ASSUME NEW t \in Threads PROVE GoodThread(t, thread'[t])
    OBVIOUS
  <2>1. CASE thread'[t] = Idle
    BY <2>1, GoodIdle
  <2>2. CASE thread'[t] = Done /\ t[1] = "request"
    BY <2>2, ThreadNames, GoodDone
  <2> QED
    BY <1>1, <2>1, <2>2
<1>3. thread' \in [Threads -> ThreadRecords]
  BY <1>2 DEF Restart, GoodThread
<1>4. monitor' = [m \in Monitors |-> NoRound] /\ \A m \in Monitors : monitor'[m] = NoRound
  BY DEF Restart
<1>5. monitor' \in [Monitors -> Rounds] /\ \A m \in Monitors : GoodRound(monitor'[m])
  BY <1>4, EmptyRound DEF GoodRound
<1>6. restarts' \in 0 .. MaxRestarts
  BY LifecycleAssumption DEF IInv, TypeOK, Restart
<1>7. UNCHANGED <<job, activeJobs, balance, clientId, sessions, queued, answers, deletions, pings>>
  BY DEF Restart, redisVars
<1>8. TypeOK'
  BY <1>3, <1>5, <1>6, <1>7 DEF IInv, TypeOK
<1>9. ThreadsBegun' /\ \A t \in Threads : SlotsBounded(thread'[t])
  BY <1>2, <1>3, GoodThreadsNext
<1>10. RoundsBegun' /\ ActiveWithinCapacity' /\ CopiesWithinCapacity'
  BY <1>5, <1>7, <1>9
     DEF IInv, RoundsBegun, ActiveWithinCapacity, CopiesWithinCapacity, GoodRound
<1>11. Idle.pc = "idle" /\ Idle.op = "none" /\ Done.pc = "done" /\ Done.op = "none"
  BY EmptyRecords DEF Done, Idle
<1>12. \A j \in Jobs : /\ thread'[Answer(j)] = Idle
                       /\ thread'[Request(j)] = IF thread[Request(j)] # Idle THEN Done ELSE Idle
  BY <1>1, ThreadNames
<1>13. \A m \in Monitors : thread'[Monitor(m)] = Idle
  BY <1>1, ThreadNames
<1>14. UnassignedIsUnknown'
  <2> SUFFICES ASSUME NEW j \in Jobs, Unassigned(j)' PROVE Unknown(j)'
    BY DEF UnassignedIsUnknown
  <2>1. thread[Request(j)] = Idle
    BY <1>11, <1>12 DEF Unassigned
  <2>2. Unknown(j)
    BY <1>11, <2>1 DEF IInv, UnassignedIsUnknown, Unassigned
  <2> QED
    BY <1>4, <1>7, <1>11, <1>12, <1>13, <2>2, EmptyRound DEF Unknown
<1>15. EndedStaysEnded'
  BY <1>11, <1>12 DEF EndedStaysEnded
<1> QED
  BY <1>8, <1>9, <1>10, <1>14, <1>15 DEF Structure

LEMMA StutterKeeps ==
    ASSUME IInv, UNCHANGED vars
    PROVE  Structure' /\ UnassignedIsUnknown' /\ EndedStaysEnded'
<1>1. UNCHANGED <<job, activeJobs, balance, clientId, sessions, queued, answers, deletions, pings, restarts,
                  thread, monitor>>
  BY DEF vars, redisVars, serverVars
<1>2. TypeOK'
  BY <1>1 DEF IInv, TypeOK
<1>3. ThreadsBegun' /\ RoundsBegun' /\ ActiveWithinCapacity' /\ CopiesWithinCapacity'
  BY <1>1 DEF IInv, ThreadsBegun, RoundsBegun, ActiveWithinCapacity, CopiesWithinCapacity
<1>4. UnassignedIsUnknown' /\ EndedStaysEnded'
  BY <1>1 DEF IInv, UnassignedIsUnknown, Unassigned, Unknown, EndedStaysEnded, Ended
<1> QED
  BY <1>2, <1>3, <1>4 DEF Structure
-----------------------------------------------------------------------------
LEMMA CompletingSets ==
    ASSUME IInv, NEW n \in Nodes
    PROVE  /\ Completing(n) \in SUBSET Jobs /\ IsFiniteSet(Completing(n))
           /\ Cardinality(Completing(n)) \in Nat
<1>1. Completing(n) \in SUBSET Jobs
  BY DEF Completing
<1>2. IsFiniteSet(Completing(n))
  BY <1>1, LifecycleAssumption, FS_Subset
<1> QED
  BY <1>1, <1>2, FS_CardinalityType

\* No answer begins to complete a job, and copies of a balance are the old ones or
\* the balance itself.
Credits(k) ==
    thread'[Answer(k)].op = "complete" =>
        /\ thread[Answer(k)].op = "complete"
        /\ thread'[Answer(k)].node = thread[Answer(k)].node
        /\ thread'[Answer(k)].credit \in {thread[Answer(k)].credit, balance[thread[Answer(k)].node]}

LEMMA AnswerThreads ==
    ASSUME IInv, NEW k \in Jobs, thread[Answer(k)].op = "complete"
    PROVE  thread[Answer(k)].node \in Nodes /\ thread[Answer(k)].credit \in Nat
<1>1. Answer(k) \in Threads /\ GoodThread(Answer(k), thread[Answer(k)])
  BY GoodThreads, ThreadNames
<1>2. PICK th : th = thread[Answer(k)]
  OBVIOUS
<1>3. /\ th \in ThreadRecords /\ WellBegun(Answer(k), th)
      /\ th.pc \in {"idle", "find", "clients", "get", "set", "client", "waiting", "done"} /\ th.credit \in Nat
  BY <1>1, <1>2 DEF GoodThread, ThreadRecords
<1>4. th.pc \in {"clients"} \cup Working
  BY <1>2, <1>3 DEF WellBegun, Working
<1>5. th.node \in Nodes
  BY <1>3, <1>4 DEF WellBegun
<1> QED
  BY <1>2, <1>3, <1>5

LEMMA EarningsKept ==
    ASSUME IInv, \A k \in Jobs : Credits(k), UNCHANGED <<balance, answers>>
    PROVE  EarningsBounded'
<1>1. PICK earned \in [Nodes -> Nat] : SumFunctionOnSet(earned, Nodes) <= answers /\ Bounds(earned)
  BY DEF IInv, EarningsBounded
<1>2. \A n \in Nodes : /\ Cardinality(Completing(n)) \in Nat /\ Cardinality(Completing(n)') \in Nat
                       /\ Cardinality(Completing(n)') <= Cardinality(Completing(n))
  <2> SUFFICES ASSUME NEW n \in Nodes
               PROVE  /\ Cardinality(Completing(n)) \in Nat /\ Cardinality(Completing(n)') \in Nat
                      /\ Cardinality(Completing(n)') <= Cardinality(Completing(n))
    OBVIOUS
  <2>1. IsFiniteSet(Completing(n)) /\ Cardinality(Completing(n)) \in Nat
    BY CompletingSets
  <2>2. Completing(n)' \in SUBSET Completing(n)
    BY DEF Completing, Credits
  <2>3. IsFiniteSet(Completing(n)') /\ Cardinality(Completing(n)') <= Cardinality(Completing(n))
    BY <2>1, <2>2, FS_Subset
  <2> QED
    BY <2>1, <2>3, FS_CardinalityType
<1>3. ASSUME NEW n \in Nodes PROVE balance'[n] + Cardinality(Completing(n)') <= earned[n]
  <2>1. balance[n] + Cardinality(Completing(n)) <= earned[n]
    BY <1>1 DEF Bounds
  <2>2. balance[n] \in Nat /\ earned[n] \in Nat /\ balance'[n] = balance[n]
    BY <1>1, JobTypes
  <2>3. /\ Cardinality(Completing(n)) \in Nat /\ Cardinality(Completing(n)') \in Nat
        /\ Cardinality(Completing(n)') <= Cardinality(Completing(n))
    BY <1>2
  <2> QED
    BY <2>1, <2>2, <2>3
<1>4. ASSUME NEW k \in Jobs, NEW th, th = thread'[Answer(k)], th.op = "complete"
      PROVE  th.credit + Cardinality(Completing(th.node)') <= earned[th.node]
  <2>1. PICK old : old = thread[Answer(k)]
    OBVIOUS
  <2>2. /\ old.op = "complete" /\ th.node = old.node /\ th.credit \in {old.credit, balance[old.node]}
    BY <1>4, <2>1 DEF Credits
  <2>3. old.node \in Nodes /\ old.credit \in Nat /\ balance[old.node] \in Nat /\ earned[old.node] \in Nat
    BY <1>1, <2>1, <2>2, AnswerThreads, JobTypes
  <2>4. PICK n \in Nodes : n = old.node
    BY <2>3
  <2>5. old.credit + Cardinality(Completing(n)) <= earned[n]
    BY <1>1, <2>1, <2>2, <2>4 DEF Bounds
  <2>6. balance[n] + Cardinality(Completing(n)) <= earned[n]
    BY <1>1 DEF Bounds
  <2>7. /\ Cardinality(Completing(n)) \in Nat /\ Cardinality(Completing(n)') \in Nat
        /\ Cardinality(Completing(n)') <= Cardinality(Completing(n))
    BY <1>2
  <2>8. th.credit + Cardinality(Completing(n)') <= earned[n]
    BY <2>2, <2>3, <2>4, <2>5, <2>6, <2>7
  <2> QED
    BY <2>2, <2>4, <2>8
<1>5. Bounds(earned)'
  BY <1>3, <1>4 DEF Bounds
<1> QED
  BY <1>1, <1>5 DEF EarningsBounded

\* A frame that arrives brings its own share.
LEMMA AnswerArrivesEarnings ==
    ASSUME IInv, NEW j \in Jobs, NEW n \in Nodes, NEW cid \in 0 .. MaxReconnects,
           AnswerArrives(j, n, cid, "complete")
    PROVE  EarningsBounded'
<1>1. PICK earned \in [Nodes -> Nat] : SumFunctionOnSet(earned, Nodes) <= answers /\ Bounds(earned)
  BY DEF IInv, EarningsBounded
<1>2. PICK new : new = [earned EXCEPT ![n] = earned[n] + 1]
  OBVIOUS
<1>3. new \in [Nodes -> Nat] /\ \A k \in Nodes : new[k] = IF k = n THEN earned[n] + 1 ELSE earned[k]
  BY <1>1, <1>2
<1>4. SumFunctionOnSet(new, Nodes) <= answers'
  <2>0. IsFiniteSet(Nodes) /\ earned[n] + 1 \in Nat
    BY <1>1, LifecycleAssumption
  <2>1. SumFunctionOnSet(new, Nodes) + earned[n] = SumFunctionOnSet(earned, Nodes) + (earned[n] + 1)
    BY <1>1, <1>2, <2>0, SumOfUpdate
  <2>2. SumFunctionOnSet(new, Nodes) \in Nat /\ SumFunctionOnSet(earned, Nodes) \in Nat
    BY <1>1, <1>3, LifecycleAssumption, SumIsNat
  <2>3. answers' = answers + 1 /\ answers \in Nat /\ earned[n] \in Nat
    BY <1>1, JobTypes DEF AnswerArrives
  <2> QED
    BY <1>1, <2>1, <2>2, <2>3
<1>5. PICK th : th = Begin("complete", j, n, cid)
  OBVIOUS
<1>6. th.op = "complete" /\ th.node = n /\ th.credit = 0
  BY <1>5, BeginFields
<1>7. Answer(j) \in Threads /\ thread[Answer(j)].op = "none"
  BY GoodThreads, ThreadNames DEF AnswerArrives, GoodThread, WellBegun
<1>8. \A k \in Jobs : thread'[Answer(k)] = IF k = j THEN th ELSE thread[Answer(k)]
  BY <1>5, <1>7, GoodThreads, ThreadNames DEF AnswerArrives
<1>9. Completing(n)' = Completing(n) \cup {j} /\ j \notin Completing(n)
  BY <1>6, <1>7, <1>8 DEF Completing
<1>10. \A k \in Nodes \ {n} : Completing(k)' = Completing(k)
  BY <1>6, <1>7, <1>8 DEF Completing
<1>11. Cardinality(Completing(n)') = Cardinality(Completing(n)) + 1 /\ Cardinality(Completing(n)) \in Nat
  BY <1>9, CompletingSets, FS_AddElement
<1>12. balance[n] + Cardinality(Completing(n)) <= earned[n] /\ balance[n] \in Nat /\ earned[n] \in Nat
  BY <1>1, JobTypes DEF Bounds
<1>13. balance' = balance
  BY DEF AnswerArrives, redisVars
<1>14. ASSUME NEW k \in Nodes PROVE balance'[k] + Cardinality(Completing(k)') <= new[k]
  <2>1. CASE k = n
    BY <1>3, <1>11, <1>12, <1>13, <2>1
  <2>2. CASE k # n
    BY <1>1, <1>3, <1>10, <1>13, <2>2 DEF Bounds
  <2> QED
    BY <2>1, <2>2
<1>15. ASSUME NEW k \in Jobs, NEW u, u = thread'[Answer(k)], u.op = "complete"
       PROVE  u.credit + Cardinality(Completing(u.node)') <= new[u.node]
  <2>1. CASE k = j
    BY <1>3, <1>6, <1>8, <1>11, <1>12, <1>15, <2>1
  <2>2. CASE k # j
    <3>1. u = thread[Answer(k)] /\ u.node \in Nodes /\ u.credit \in Nat
      BY <1>8, <1>15, <2>2, AnswerThreads
    <3>2. PICK m \in Nodes : m = u.node
      BY <3>1
    <3>3. u.credit + Cardinality(Completing(m)) <= earned[m]
      BY <1>1, <1>15, <3>1, <3>2 DEF Bounds
    <3>4. CASE m = n
      BY <1>3, <1>11, <1>12, <3>1, <3>2, <3>3, <3>4
    <3>5. CASE m # n
      BY <1>3, <1>10, <3>2, <3>3, <3>5
    <3> QED
      BY <3>4, <3>5
  <2> QED
    BY <2>1, <2>2
<1>16. Bounds(new)'
  BY <1>14, <1>15 DEF Bounds
<1> QED
  BY <1>3, <1>4, <1>16 DEF EarningsBounded

\* The frame that credits uses its share up.
LEMMA CreditEarnings ==
    ASSUME IInv, NEW t \in Threads, UpdateClient(t), thread[t].op = "complete"
    PROVE  EarningsBounded'
<1>0. PICK th : th = thread[t]
  OBVIOUS
<1>1. PICK earned \in [Nodes -> Nat] : SumFunctionOnSet(earned, Nodes) <= answers /\ Bounds(earned)
  BY DEF IInv, EarningsBounded
<1>2. /\ th.pc = "client" /\ th \in ThreadRecords /\ th.job \in Jobs /\ th.node \in Nodes
      /\ t = Answer(th.job) /\ th.credit \in Nat
  BY <1>0, AtWork DEF UpdateClient, Working, ThreadRecords
<1>3. PICK n \in Nodes, j \in Jobs : n = th.node /\ j = th.job
  BY <1>2
<1>4. Ends(t, TRUE)
  BY <1>0, <1>2, FinishEnds DEF UpdateClient, Working
<1>5. \A k \in Jobs : thread'[Answer(k)] = IF k = j THEN Idle ELSE thread[Answer(k)]
  <2>1. \A k \in Jobs : thread'[Answer(k)] = IF t = Answer(k) THEN Idle ELSE thread[Answer(k)]
    BY <1>0, <1>2, <1>4, EndsWell DEF Working
  <2> QED
    BY <1>2, <1>3, <2>1, ThreadNames
<1>6. balance' = [balance EXCEPT ![n] = th.credit + 1] /\ answers' = answers
  BY <1>0, <1>3 DEF UpdateClient, NewBalance
<1>7. Completing(n)' = Completing(n) \ {j} /\ j \in Completing(n)
  BY <1>0, <1>2, <1>3, <1>5, EmptyRecords DEF Completing
<1>8. \A k \in Nodes \ {n} : Completing(k)' = Completing(k)
  BY <1>0, <1>2, <1>3, <1>5, EmptyRecords, ZenonT(40) DEF Completing
<1>9. /\ Cardinality(Completing(n)') = Cardinality(Completing(n)) - 1
      /\ Cardinality(Completing(n)) \in Nat /\ Cardinality(Completing(n)') \in Nat
  <2>1. Cardinality(Completing(n) \ {j}) = Cardinality(Completing(n)) - 1 /\ IsFiniteSet(Completing(n) \ {j})
    BY <1>7, CompletingSets, FS_RemoveElement
  <2> QED
    BY <1>7, <2>1, CompletingSets, FS_CardinalityType
<1>10. th.credit + Cardinality(Completing(n)) <= earned[n] /\ earned[n] \in Nat
  BY <1>0, <1>1, <1>2, <1>3 DEF Bounds
<1>11. ASSUME NEW k \in Nodes PROVE balance'[k] + Cardinality(Completing(k)') <= earned[k]
  <2>1. CASE k = n
    BY <1>2, <1>6, <1>9, <1>10, <2>1, JobTypes
  <2>2. CASE k # n
    BY <1>1, <1>6, <1>8, <2>2, JobTypes DEF Bounds
  <2> QED
    BY <2>1, <2>2
<1>12. ASSUME NEW k \in Jobs, NEW u, u = thread'[Answer(k)], u.op = "complete"
       PROVE  u.credit + Cardinality(Completing(u.node)') <= earned[u.node]
  <2>1. k # j /\ u = thread[Answer(k)]
    BY <1>5, <1>12, EmptyRecords
  <2>2. u.node \in Nodes /\ u.credit \in Nat
    BY <1>12, <2>1, AnswerThreads
  <2>3. PICK m \in Nodes : m = u.node
    BY <2>2
  <2>4. u.credit + Cardinality(Completing(m)) <= earned[m]
    BY <1>1, <1>12, <2>1, <2>3 DEF Bounds
  <2>5. CASE m = n
    BY <1>9, <1>10, <2>2, <2>3, <2>4, <2>5
  <2>6. CASE m # n
    BY <1>8, <2>3, <2>4, <2>6
  <2> QED
    BY <2>5, <2>6
<1>13. Bounds(earned)'
  BY <1>11, <1>12 DEF Bounds
<1> QED
  BY <1>1, <1>6, <1>13 DEF EarningsBounded
-----------------------------------------------------------------------------
\* Steps that leave the answers being handled alone.
LEMMA AnswersAloneEarnings ==
    ASSUME IInv, \A k \in Jobs : thread'[Answer(k)] = thread[Answer(k)],
           UNCHANGED <<balance, answers>>
    PROVE  EarningsBounded'
<1>1. \A k \in Jobs : Credits(k)
  BY DEF Credits
<1> QED
  BY <1>1, EarningsKept

\* A thread ends its operation without having credited anybody.
LEMMA EndingEarnings ==
    ASSUME IInv, NEW t \in Threads, thread[t].pc \in {"clients"} \cup Working,
           NEW ok \in BOOLEAN, Finish(t, ok), UNCHANGED <<balance, answers>>
    PROVE  EarningsBounded'
<1>1. Ends(t, ok)
  BY FinishEnds
<1>2. \A k \in Jobs : thread'[Answer(k)] = IF t = Answer(k) THEN Idle ELSE thread[Answer(k)]
  BY <1>1, EndsWell
<1>3. \A k \in Jobs : Credits(k)
  BY <1>2, EmptyRecords DEF Credits
<1> QED
  BY <1>3, EarningsKept

\* A thread goes on with its operation, and may copy the balance of its node.
LEMMA ThreadMovesEarnings ==
    ASSUME IInv, NEW t \in Threads, NEW th, thread' = [thread EXCEPT ![t] = th],
           th.op = "complete" =>
               /\ thread[t].op = "complete" /\ th.node = thread[t].node
               /\ th.credit \in {thread[t].credit, balance[thread[t].node]},
           UNCHANGED <<balance, answers>>
    PROVE  EarningsBounded'
<1>1. \A k \in Jobs : thread'[Answer(k)] = IF t = Answer(k) THEN th ELSE thread[Answer(k)]
  BY GoodThreads, ThreadNames
<1>2. \A k \in Jobs : Credits(k)
  BY <1>1 DEF Credits
<1> QED
  BY <1>2, EarningsKept

LEMMA RequestEarnings ==
    ASSUME IInv, NEW j \in Jobs, CreateJob(j) \/ RequestStep(j) \/ DeleteJob(j)
    PROVE  EarningsBounded'
<1>1. \A k \in Jobs : Answer(k) # Request(j) /\ Answer(k) \in Threads
  BY ThreadNames DEF Request, Answer
<1>2. CASE CreateJob(j)
  <2>1. \A k \in Jobs : thread'[Answer(k)] = thread[Answer(k)]
    BY <1>1, <1>2, GoodThreads DEF CreateJob
  <2> QED
    BY <1>2, <2>1, AnswersAloneEarnings DEF CreateJob, serverVars
<1>3. CASE FindOptimalNode(j)
  <2>1. \A k \in Jobs : thread'[Answer(k)] = thread[Answer(k)]
    BY <1>1, <1>3, GoodThreads DEF FindOptimalNode
  <2> QED
    BY <1>3, <2>1, AnswersAloneEarnings DEF FindOptimalNode, redisVars, serverVars
<1>4. CASE WaitFails(j)
  <2>1. \A k \in Jobs : thread'[Answer(k)] = thread[Answer(k)]
    BY <1>1, <1>4, GoodThreads DEF WaitFails
  <2> QED
    BY <1>4, <2>1, AnswersAloneEarnings DEF WaitFails, redisVars, serverVars
<1>5. CASE DeleteJob(j)
  BY <1>5, AnswersAloneEarnings DEF DeleteJob
<1> QED
  BY <1>2, <1>3, <1>4, <1>5 DEF RequestStep

\* An empty result fails its job: it has no share.
LEMMA FailedAnswerEarnings ==
    ASSUME IInv, NEW j \in Jobs, NEW n \in Nodes, NEW cid \in 0 .. MaxReconnects,
           AnswerArrives(j, n, cid, "fail")
    PROVE  EarningsBounded'
<1>1. PICK earned \in [Nodes -> Nat] : SumFunctionOnSet(earned, Nodes) <= answers /\ Bounds(earned)
  BY DEF IInv, EarningsBounded
<1>2. Begin("fail", j, n, cid).op = "fail"
  BY BeginFields
<1>3. \A k \in Jobs : thread'[Answer(k)] = IF k = j THEN Begin("fail", j, n, cid) ELSE thread[Answer(k)]
  BY GoodThreads, ThreadNames DEF AnswerArrives
<1>4. thread[Answer(j)].op = "none"
  BY GoodThreads, ThreadNames DEF AnswerArrives, GoodThread, WellBegun
<1>5. \A k \in Nodes : Completing(k)' = Completing(k)
  BY <1>2, <1>3, <1>4 DEF Completing
<1>6. balance' = balance /\ answers' = answers + 1
  BY DEF AnswerArrives, redisVars
<1>7. ASSUME NEW k \in Jobs, NEW u, u = thread'[Answer(k)], u.op = "complete"
      PROVE  u.credit + Cardinality(Completing(u.node)') <= earned[u.node]
  <2>1. u = thread[Answer(k)]
    BY <1>2, <1>3, <1>7
  <2>2. u.node \in Nodes
    BY <1>7, <2>1, AnswerThreads
  <2> QED
    BY <1>1, <1>5, <1>7, <2>1, <2>2 DEF Bounds
<1>8. Bounds(earned)'
  BY <1>1, <1>5, <1>6, <1>7 DEF Bounds
<1>9. SumFunctionOnSet(earned, Nodes) \in Nat /\ answers \in Nat
  BY <1>1, LifecycleAssumption, SumIsNat, JobTypes
<1>10. SumFunctionOnSet(earned, Nodes) <= answers'
  BY <1>1, <1>6, <1>9
<1> QED
  BY <1>1, <1>8, <1>10 DEF EarningsBounded

LEMMA ReadClientsEarnings ==
    ASSUME IInv, NEW t \in Threads, ReadClients(t)
    PROVE  EarningsBounded'
<1>0. PICK th : th = thread[t]
  OBVIOUS
<1>1. th.pc = "clients" /\ th \in ThreadRecords
  BY <1>0, AtWork DEF ReadClients
<1>2. UNCHANGED <<balance, answers>>
  BY DEF ReadClients, redisVars
<1>3. CASE Finish(t, FALSE)
  BY <1>0, <1>1, <1>2, <1>3, EndingEarnings
<1>4. CASE thread' = [thread EXCEPT ![t] = [@ EXCEPT !.pc = "get",
                                                     !.slots = activeJobs[th.node],
                        !.credit = IF th.op = "complete" THEN balance[th.node] ELSE 0]]
  <2>1. PICK slots, credit : /\ slots = activeJobs[th.node]
                             /\ credit = IF th.op = "complete" THEN balance[th.node] ELSE 0
    OBVIOUS
  <2>2. PICK one, two, next : /\ one = [th EXCEPT !.pc = "get"]
                              /\ two = [one EXCEPT !.slots = slots]
                              /\ next = [two EXCEPT !.credit = credit]
    OBVIOUS
  <2>3. thread' = [thread EXCEPT ![t] = next]
    BY <1>0, <1>4, <2>1, <2>2, GoodThreads
  <2>4. two.op = th.op /\ two.node = th.node /\ two \in [DOMAIN th -> {two[x] : x \in DOMAIN th}]
    BY <1>1, <2>2 DEF ThreadRecords
  <2>5. next.op = th.op /\ next.node = th.node /\ next.credit = credit
    BY <1>1, <2>2, <2>4 DEF ThreadRecords
  <2> QED
    BY <1>0, <1>2, <2>1, <2>3, <2>5, ThreadMovesEarnings
<1> QED
  BY <1>0, <1>3, <1>4 DEF ReadClients

\* The record of the job is read and written in between.
LEMMA JobUpdatedEarnings ==
    ASSUME IInv, NEW t \in Threads, thread[t].pc \in {"get", "set"}, JobUpdated(t),
           UNCHANGED <<balance, answers>>
    PROVE  EarningsBounded'
<1>0. PICK th : th = thread[t]
  OBVIOUS
<1>1. th \in ThreadRecords /\ thread[t].pc \in {"clients"} \cup Working
  BY <1>0, AtWork DEF Working
<1>2. CASE Finish(t, TRUE)
  BY <1>1, <1>2, EndingEarnings
<1>3. CASE thread' = [thread EXCEPT ![t] = [@ EXCEPT !.pc = "client", !.old = NoJob]]
  <2>1. PICK one, next : one = [th EXCEPT !.pc = "client"] /\ next = [one EXCEPT !.old = NoJob]
    OBVIOUS
  <2>2. one \in ThreadRecords /\ one.op = th.op /\ one.node = th.node /\ one.credit = th.credit
    BY <1>1, <2>1 DEF ThreadRecords
  <2>3. next.op = th.op /\ next.node = th.node /\ next.credit = th.credit
    BY <2>1, <2>2 DEF ThreadRecords
  <2>4. thread' = [thread EXCEPT ![t] = next]
    BY <1>0, <1>3, <2>1, GoodThreads
  <2> QED
    BY <1>0, <2>3, <2>4, ThreadMovesEarnings
<1> QED
  BY <1>2, <1>3 DEF JobUpdated

LEMMA JobRecordEarnings ==
    ASSUME IInv, NEW t \in Threads, GetJob(t) \/ SetJob(t)
    PROVE  EarningsBounded'
<1>0. PICK th : th = thread[t]
  OBVIOUS
<1>1. thread[t].pc \in {"get", "set"} /\ UNCHANGED <<balance, answers>>
  BY DEF GetJob, SetJob, redisVars
<1>2. CASE JobUpdated(t)
  BY <1>1, <1>2, JobUpdatedEarnings
<1>3. CASE thread' = [thread EXCEPT ![t] = [@ EXCEPT !.pc = "set", !.old = job[th.job]]]
  <2>1. PICK old : old = job[th.job]
    OBVIOUS
  <2>2. PICK one, next : one = [th EXCEPT !.pc = "set"] /\ next = [one EXCEPT !.old = old]
    OBVIOUS
  <2>3. th \in ThreadRecords
    BY <1>0, <1>1, AtWork DEF Working
  <2>4. one \in ThreadRecords /\ one.op = th.op /\ one.node = th.node /\ one.credit = th.credit
    BY <2>2, <2>3 DEF ThreadRecords
  <2>5. next.op = th.op /\ next.node = th.node /\ next.credit = th.credit
    BY <2>2, <2>4 DEF ThreadRecords
  <2>6. thread' = [thread EXCEPT ![t] = next]
    BY <1>0, <1>3, <2>1, <2>2, GoodThreads
  <2> QED
    BY <1>0, <1>1, <2>5, <2>6, ThreadMovesEarnings
<1> QED
  BY <1>0, <1>2, <1>3 DEF GetJob, SetJob

LEMMA UpdateClientEarnings ==
    ASSUME IInv, NEW t \in Threads, UpdateClient(t)
    PROVE  EarningsBounded'
<1>1. CASE thread[t].op = "complete"
  BY <1>1, CreditEarnings
<1>2. CASE thread[t].op # "complete"
  <2>0. PICK th : th = thread[t]
    OBVIOUS
  <2>1. /\ th.pc = "client" /\ th.pc \in {"clients"} \cup Working /\ th.node \in Nodes
    BY <2>0, AtWork DEF UpdateClient, Working
  <2>2. balance' = [balance EXCEPT ![th.node] = balance[th.node]] /\ answers' = answers
    BY <1>2, <2>0 DEF UpdateClient, NewBalance
  <2>3. balance' = balance
    BY <2>1, <2>2, JobTypes
  <2> QED
    BY <2>0, <2>1, <2>2, <2>3, EndingEarnings DEF UpdateClient
<1> QED
  BY <1>1, <1>2

LEMMA MonitorEarnings ==
    ASSUME IInv, NEW m \in Monitors, MonitorStep(m)
    PROVE  EarningsBounded'
<1>1. \A k \in Jobs : Answer(k) # Monitor(m) /\ Answer(k) \in Threads
  BY ThreadNames DEF Monitor, Answer
<1>2. UNCHANGED <<balance, answers>>
  BY DEF MonitorStep, MonitorStarts, MonitorNextNode, MonitorCleansUp, MonitorFails, MonitorChecks,
         redisVars, serverVars
<1>3. CASE MonitorFails(m)
  <2>1. \/ thread' = thread
        \/ \E th : thread' = [thread EXCEPT ![Monitor(m)] = th]
    BY <1>3 DEF MonitorFails
  <2>2. \A k \in Jobs : thread'[Answer(k)] = thread[Answer(k)]
    BY <1>1, <2>1, GoodThreads
  <2> QED
    BY <1>2, <2>2, AnswersAloneEarnings
<1>4. CASE thread' = thread
  BY <1>2, <1>4, AnswersAloneEarnings
<1> QED
  BY <1>3, <1>4
     DEF MonitorStep, MonitorStarts, MonitorNextNode, MonitorCleansUp, MonitorChecks
-----------------------------------------------------------------------------
LEMMA InitIInv == Init => IInv
<1> SUFFICES ASSUME Init PROVE IInv
  OBVIOUS
<1>1. /\ \A t \in Threads : thread[t] = Idle
      /\ \A m \in Monitors : monitor[m] = NoRound
      /\ \A j \in Jobs : job[j] = NoJob /\ thread[Answer(j)] = Idle /\ thread[Request(j)] = Idle
      /\ \A m \in Monitors : thread[Monitor(m)] = Idle
  BY ThreadNames DEF Init
<1>2. MaxConcurrent \in Nat \ {0} /\ {MaxAnswers, MaxDeletions, MaxReconnects, MaxPings, MaxRestarts} \subseteq Nat
  BY LifecycleAssumption
<1>3. TypeOK
  BY <1>2, EmptyRecords, EmptyRound DEF Init, TypeOK, GoodRound
<1>4. ThreadsBegun /\ RoundsBegun /\ ActiveWithinCapacity /\ CopiesWithinCapacity
  <2>1. \A t \in Threads : GoodThread(t, thread[t])
    BY <1>1, GoodIdle
  <2>2. \A m \in Monitors : GoodRound(monitor[m])
    BY <1>1, EmptyRound
  <2>3. ActiveWithinCapacity
    BY <1>2, FS_EmptySet DEF Init, ActiveWithinCapacity
  <2> QED
    BY <2>1, <2>2, <2>3 DEF ThreadsBegun, RoundsBegun, CopiesWithinCapacity, GoodThread, GoodRound
<1>5. UnassignedIsUnknown
  BY <1>1, EmptyRecords, EmptyRound DEF UnassignedIsUnknown, Unknown, Init
<1>6. EndedStaysEnded
  BY <1>1, EmptyRecords DEF EndedStaysEnded
<1>7. EarningsBounded
  <2>1. PICK earned : earned = [n \in Nodes |-> 0]
    OBVIOUS
  <2>2. SumFunctionOnSet(earned, Nodes) = 0
    BY <2>1, LifecycleAssumption, SumOfZeros
  <2>3. \A n \in Nodes : Completing(n) = {}
    BY <1>1, EmptyRecords DEF Completing
  <2>4. \A n \in Nodes : Cardinality(Completing(n)) = 0
    BY <2>3, FS_EmptySet
  <2>5. Bounds(earned)
    BY <1>1, <2>1, <2>4, EmptyRecords DEF Bounds, Init
  <2>6. SumFunctionOnSet(earned, Nodes) <= answers
    BY <2>2 DEF Init
  <2>7. earned \in [Nodes -> Nat]
    BY <2>1
  <2> QED
    BY <2>5, <2>6, <2>7 DEF EarningsBounded
<1> QED
  BY <1>3, <1>4, <1>5, <1>6, <1>7 DEF IInv

LEMMA RedisStepKeeps ==
    ASSUME IInv, NEW t \in Threads, RedisStep(t)
    PROVE  IInv'
<1>1. Structure' /\ UnassignedIsUnknown' /\ EndedStaysEnded'
  BY ReadClientsKeeps, GetJobKeeps, SetJobKeeps, UpdateClientKeeps DEF RedisStep
<1>2. EarningsBounded'
  BY ReadClientsEarnings, JobRecordEarnings, UpdateClientEarnings DEF RedisStep
<1> QED
  BY <1>1, <1>2 DEF IInv, Structure

LEMMA MonitorStepKeeps ==
    ASSUME IInv, NEW m \in Monitors, MonitorStep(m)
    PROVE  IInv'
<1>1. Structure' /\ UnassignedIsUnknown' /\ EndedStaysEnded'
  BY MonitorStartsKeeps, MonitorNextNodeKeeps, MonitorChecksKeeps, MonitorCleansUpKeeps,
     MonitorFailsKeeps DEF MonitorStep
<1>2. EarningsBounded'
  BY MonitorEarnings
<1> QED
  BY <1>1, <1>2 DEF IInv, Structure

LEMMA NextKeepsIInv ==
    ASSUME IInv, [Next]_vars
    PROVE  IInv'
<1>1. ASSUME NEW j \in Jobs, CreateJob(j) \/ RequestStep(j) \/ DeleteJob(j)
      PROVE  IInv'
  <2>1. Structure' /\ UnassignedIsUnknown' /\ EndedStaysEnded'
    BY <1>1, CreateJobKeeps, FindOptimalNodeKeeps, WaitFailsKeeps, DeleteJobKeeps DEF RequestStep
  <2>2. EarningsBounded'
    BY <1>1, RequestEarnings
  <2> QED
    BY <2>1, <2>2 DEF IInv, Structure
<1>2. ASSUME NEW j \in Jobs, NEW n \in Nodes, NEW cid \in 0 .. MaxReconnects,
             NEW op \in {"complete", "fail"}, AnswerArrives(j, n, cid, op)
      PROVE  IInv'
  <2>1. Structure' /\ UnassignedIsUnknown' /\ EndedStaysEnded'
    BY <1>2, AnswerArrivesKeeps
  <2>2. EarningsBounded'
    BY <1>2, AnswerArrivesEarnings, FailedAnswerEarnings
  <2> QED
    BY <2>1, <2>2 DEF IInv, Structure
<1>3. ASSUME NEW t \in Threads, RedisStep(t) PROVE IInv'
  BY <1>3, RedisStepKeeps
<1>4. ASSUME NEW m \in Monitors, MonitorStep(m) PROVE IInv'
  BY <1>4, MonitorStepKeeps
<1>5. ASSUME NEW n \in Nodes, Reconnect(n) \/ \E cid \in 0 .. MaxReconnects : Ping(n, cid)
      PROVE  IInv'
  <2>1. Structure' /\ UnassignedIsUnknown' /\ EndedStaysEnded'
    BY <1>5, SessionsKeep
  <2>2. UNCHANGED <<thread, balance, answers>>
    BY <1>5 DEF Reconnect, Ping
  <2>3. EarningsBounded'
    BY <2>2, AnswersAloneEarnings
  <2> QED
    BY <2>1, <2>3 DEF IInv, Structure
<1>6. CASE Restart
  <2>1. Structure' /\ UnassignedIsUnknown' /\ EndedStaysEnded'
    BY <1>6, RestartKeeps
  <2>2. \A k \in Jobs : thread'[Answer(k)] = Idle
    BY <1>6, ThreadNames DEF Restart
  <2>3. \A k \in Jobs : Credits(k)
    BY <2>2, EmptyRecords DEF Credits
  <2>4. EarningsBounded'
    BY <1>6, <2>3, EarningsKept DEF Restart, redisVars
  <2> QED
    BY <2>1, <2>4 DEF IInv, Structure
<1>7. CASE UNCHANGED vars
  <2>1. Structure' /\ UnassignedIsUnknown' /\ EndedStaysEnded'
    BY <1>7, StutterKeeps
  <2>2. EarningsBounded'
    BY <1>7, AnswersAloneEarnings DEF vars, redisVars, serverVars
  <2> QED
    BY <2>1, <2>2 DEF IInv, Structure
<1> QED
  BY <1>1, <1>2, <1>3, <1>4, <1>5, <1>6, <1>7 DEF Next

LEMMA InvariantHolds == Spec => []IInv
BY InitIInv, NextKeepsIInv, PTL DEF Spec
-----------------------------------------------------------------------------
\* The thread and round records are well formed in every reachable state.
THEOREM TypeCorrect == Spec => []TypeOK
<1>1. IInv => TypeOK
  BY DEF IInv
<1> QED
  BY <1>1, InvariantHolds, PTL

\* Whatever stale copies assignJobToClient, updateJobCompleted, markJobAsFailed and
\* the monitor write back, no client record holds more than maxConcurrentJobs slots.
THEOREM SlotsWithinCapacity == Spec => []ActiveWithinCapacity
<1>1. IInv => ActiveWithinCapacity
  BY DEF IInv
<1> QED
  BY <1>1, InvariantHolds, PTL

\* Every reward updateJobCompleted credits has an answer frame of its own.
THEOREM NobodyOverpaid == Spec => []NeverOverpaid
<1>1. IInv => NeverOverpaid
  <2> SUFFICES ASSUME IInv PROVE NeverOverpaid
    OBVIOUS
  <2>1. PICK earned \in [Nodes -> Nat] : SumFunctionOnSet(earned, Nodes) <= answers /\ Bounds(earned)
    BY DEF IInv, EarningsBounded
  <2>2. ASSUME NEW n \in Nodes PROVE balance[n] <= earned[n]
    <3>1. balance[n] \in Nat /\ earned[n] \in Nat /\ Cardinality(Completing(n)) \in Nat
      BY <2>1, JobTypes, CompletingSets
    <3>2. balance[n] + Cardinality(Completing(n)) <= earned[n]
      BY <2>1 DEF Bounds
    <3> QED
      BY <3>1, <3>2
  <2>3. balance \in [Nodes -> Nat] /\ IsFiniteSet(Nodes)
    BY JobTypes, LifecycleAssumption
  <2>4. SumFunctionOnSet(balance, Nodes) <= SumFunctionOnSet(earned, Nodes)
    BY <2>1, <2>2, <2>3, SumIsMonotone
  <2>5. SumFunctionOnSet(balance, Nodes) \in Nat /\ SumFunctionOnSet(earned, Nodes) \in Nat
    BY <2>1, <2>3, SumIsNat
  <2>6. SumFunction(balance) = SumFunctionOnSet(balance, Nodes)
    BY <2>3 DEF SumFunction
  <2>7. answers \in Nat
    BY JobTypes
  <2> QED
    BY <2>1, <2>4, <2>5, <2>6, <2>7 DEF NeverOverpaid
<1> QED
  BY <1>1, InvariantHolds, PTL

\* Every write of a job record respects that the job has ended.
LEMMA StepReopensNone ==
    ASSUME IInv, [Next]_vars, NEW k \in Jobs, job[k].state \in Terminal
    PROVE  job'[k].state \in Terminal \cup {"none"}
<1>1. CASE job' = job
  BY <1>1
<1>2. ASSUME NEW j \in Jobs, CreateJob(j) PROVE job'[k].state \in Terminal \cup {"none"}
  <2>1. Unknown(j)
    BY <1>2 DEF CreateJob, IInv, UnassignedIsUnknown, Unassigned
  <2>2. j # k
    BY <2>1 DEF Unknown, Terminal
  <2> QED
    BY <1>2, <2>2, JobTypes DEF CreateJob
<1>3. ASSUME NEW j \in Jobs, DeleteJob(j) PROVE job'[k].state \in Terminal \cup {"none"}
  BY <1>3, JobTypes, EmptyRecords DEF DeleteJob
<1>4. ASSUME NEW t \in Threads, SetJob(t) PROVE job'[k].state \in Terminal \cup {"none"}
  <2>0. PICK th : th = thread[t]
    OBVIOUS
  <2>1. /\ th.pc = "set" /\ th \in ThreadRecords
        /\ th.op \in Operations /\ th.job \in Jobs /\ th.node \in Nodes
        /\ th.op \in {"assign", "price"} => t = Request(th.job)
    BY <1>4, <2>0, AtWork DEF SetJob, Working
  <2>2. job'[k] = IF k = th.job THEN Updated(th) ELSE job[k]
    BY <1>4, <2>0, <2>1, JobTypes DEF SetJob
  <2>3. CASE k # th.job
    BY <2>2, <2>3
  <2>4. CASE k = th.job /\ th.op = "assign"
    <3>1. Unknown(k)
      BY <2>0, <2>1, <2>4 DEF IInv, UnassignedIsUnknown, Unassigned
    <3> QED
      BY <3>1 DEF Unknown, Terminal
  <2>5. CASE k = th.job /\ th.op = "price"
    BY <2>0, <2>1, <2>2, <2>5, UpdatedRecord DEF IInv, EndedStaysEnded
  <2>6. CASE k = th.job /\ th.op \in {"complete", "fail"}
    BY <2>1, <2>2, <2>6, UpdatedRecord
  <2> QED
    BY <2>1, <2>3, <2>4, <2>5, <2>6 DEF Operations
<1>5. \/ job' = job
      \/ \E j \in Jobs : CreateJob(j) \/ DeleteJob(j)
      \/ \E t \in Threads : SetJob(t)
  BY ZenonT(40)
     DEF Next, vars, redisVars, RequestStep, FindOptimalNode, WaitFails, AnswerArrives, RedisStep,
         ReadClients, GetJob, UpdateClient, MonitorStep, MonitorStarts, MonitorNextNode, MonitorChecks,
         MonitorCleansUp, MonitorFails, Reconnect, Ping, Restart
<1> QED
  BY <1>1, <1>2, <1>3, <1>4, <1>5

\* A job that was completed or failed stays so until it is deleted, although
\* updateJob writes back whole records read before.
THEOREM EndedForGood == Spec => NeverReopened
<1>1. IInv /\ [Next]_vars
        => [\A j \in Jobs : job[j].state \in Terminal => job'[j].state \in Terminal \cup {"none"}]_vars
  BY StepReopensNone
<1> QED
  BY <1>1, InvariantHolds, PTL DEF Spec, NeverReopened
=============================================================================
