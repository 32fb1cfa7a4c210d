------------------------------ MODULE JobIndex ------------------------------
(***************************************************************************)
(* db/database.ts: createJob, updateJob and deleteJob of ONE job, Redis    *)
(* command by command, with the two secondary indexes they maintain by     *)
(* hand: the set of jobs per state (JOBS_BY_STATE) and per principal       *)
(* (JOBS_BY_USER), the latter shared by the job's creator and its worker.  *)
(*                                                                         *)
(* No command is part of a transaction, so calls for the same job (a late  *)
(* answer, a request that gives up, the timeout monitor, an admin's        *)
(* cleanup) interleave between any two commands.  Indexes of different     *)
(* jobs are independent, so one job is enough.                             *)
(***************************************************************************)
EXTENDS FiniteSets

CONSTANTS Calls,    \* calls of updateJob and deleteJob for the job
          Workers,  \* principals of nodes
          Creator,  \* principal of the API user who asked for the job
          None,     \* no worker assigned
          Create    \* the call of createJob

ASSUME IndexAssumption == Create \notin Calls /\ None \notin Workers /\ Creator # None

States == {"pending", "ongoing", "completed", "failed"}
Users == Workers \cup {Creator}
AllCalls == Calls \cup {Create}

VARIABLES
    record,      \* the job's record: state and user_principal_id, or NoJob
    byState,     \* the states whose index lists the job
    byUser,      \* the principals whose index lists the job
    call,        \* call -> where it stands, what it writes, what it read
    overlapped,  \* two calls have been in flight at once  (history)
    deleted,     \* the job has been deleted               (history)
    crashed      \* a call has been cut short              (history)

vars == <<record, byState, byUser, call, overlapped, deleted, crashed>>

NoJob == [state |-> "none", worker |-> None]
JobRecords == [state : States, worker : Workers \cup {None}]

\* What the callers of updateJob write; "none" and None stand for absent fields.
Updates ==
    {[state |-> "ongoing", worker |-> w] : w \in Workers}            \* assignJobToClient
        \cup {[state |-> "completed", worker |-> w] : w \in Workers} \* updateJobCompleted
        \cup {[state |-> "failed", worker |-> None]}                 \* markJobAsFailed
        \cup {[state |-> "none", worker |-> None]}                   \* updateJobPricingInfo

Idle == [pc |-> "idle", new |-> NoJob, old |-> NoJob]

Init ==
    /\ record = NoJob
    /\ byState = {}
    /\ byUser = {}
    /\ call = [[c \in AllCalls |-> Idle] EXCEPT ![Create].pc = "create"]
    /\ overlapped = FALSE
    /\ deleted = FALSE
    /\ crashed = FALSE

InFlight(c) == call[c].pc \notin {"idle", "done"}
Step(c, pc) == call' = [call EXCEPT ![c].pc = pc]
-----------------------------------------------------------------------------
\* createJob: set, sAdd of the state, sAdd of the creator; no worker yet.
CreateSets ==
    /\ call[Create].pc = "create"
    /\ record' = [state |-> "pending", worker |-> None]
    /\ call' = [call EXCEPT ![Create] = [pc |-> "addState", new |-> record', old |-> NoJob]]
    /\ UNCHANGED <<byState, byUser, overlapped, deleted, crashed>>

CreateAddsCreator ==
    /\ call[Create].pc = "addCreator"
    /\ byUser' = byUser \cup {Creator}
    /\ Step(Create, "done")
    /\ UNCHANGED <<record, byState, overlapped, deleted, crashed>>

\* A caller calls; it knows the job's id once createJob has returned.
StartCall(c, pc, u) ==
    /\ call[c].pc = "idle"
    /\ call[Create].pc = "done"
    /\ call' = [call EXCEPT ![c] = [pc |-> pc, new |-> u, old |-> NoJob]]
    /\ overlapped' = (overlapped \/ \E d \in AllCalls : InFlight(d))
    /\ UNCHANGED <<record, byState, byUser, deleted, crashed>>

\* updateJob: get, or NotFound.
Gets(c) ==
    /\ call[c].pc = "get"
    /\ call' = [call EXCEPT ![c] = [@ EXCEPT !.pc = IF record = NoJob THEN "done" ELSE "set",
                                             !.old = record]]
    /\ UNCHANGED <<record, byState, byUser, overlapped, deleted, crashed>>

\* { ...result.data, ...updates }
Merged(old, new) ==
    [state |-> IF new.state = "none" THEN old.state ELSE new.state,
     worker |-> IF new.worker = None THEN old.worker ELSE new.worker]

\* "Update state index if state changed".
StateChanges(c) == call[c].new.state \notin {"none", call[c].old.state}

\* updateJob: set of the whole record.
Sets(c) ==
    /\ call[c].pc = "set"
    /\ record' = Merged(call[c].old, call[c].new)
    /\ Step(c, IF StateChanges(c) THEN "remState" ELSE "remUser")
    /\ UNCHANGED <<byState, byUser, overlapped, deleted, crashed>>

RemovesState(c) ==
    /\ call[c].pc = "remState"
    /\ byState' = byState \ {call[c].old.state}
    /\ Step(c, "addState")
    /\ UNCHANGED <<record, byUser, overlapped, deleted, crashed>>

\* sAdd to the index of the new state.  (Mutant first: sAdd forgotten.)
Listed_Forgotten(s) == byState
Listed(s) == byState \cup {s}

AddsState(c) ==
    /\ call[c].pc = "addState"
    /\ byState' = Listed(call[c].new.state)
    /\ Step(c, IF c = Create THEN "addCreator" ELSE "remUser")
    /\ UNCHANGED <<record, byUser, overlapped, deleted, crashed>>

\* "Update user index if user_principal_id changed".  (Mutant first: the old
\* worker's entry is kept.)
UserRemoved_Kept(w) == byUser
UserRemoved(w) == byUser \ {w}

RemovesUser(c) ==
    LET new == call[c].new.worker
        old == call[c].old.worker
    IN  /\ call[c].pc = "remUser"
        /\ IF new \in {None, old}
           THEN Step(c, "done") /\ UNCHANGED byUser
           ELSE Step(c, "addUser") /\ byUser' = UserRemoved(old)
        /\ UNCHANGED <<record, byState, overlapped, deleted, crashed>>

AddsUser(c) ==
    /\ call[c].pc = "addUser"
    /\ byUser' = byUser \cup {call[c].new.worker}
    /\ Step(c, "done")
    /\ UNCHANGED <<record, byState, overlapped, deleted, crashed>>
-----------------------------------------------------------------------------
\* deleteJob: get, del, sRem of state, of creator, of worker.
DeleteGets(c) ==
    /\ call[c].pc = "deleteGet"
    /\ call' = [call EXCEPT ![c] = [@ EXCEPT !.pc = IF record = NoJob THEN "done" ELSE "delete",
                                             !.old = record]]
    /\ UNCHANGED <<record, byState, byUser, overlapped, deleted, crashed>>

Deletes(c) ==
    /\ call[c].pc = "delete"
    /\ record' = NoJob
    /\ deleted' = TRUE
    /\ Step(c, "unlistState")
    /\ UNCHANGED <<byState, byUser, overlapped, crashed>>

UnlistsState(c) ==
    /\ call[c].pc = "unlistState"
    /\ byState' = byState \ {call[c].old.state}
    /\ Step(c, "unlistCreator")
    /\ UNCHANGED <<record, byUser, overlapped, deleted, crashed>>

UnlistsCreator(c) ==
    /\ call[c].pc = "unlistCreator"
    /\ byUser' = byUser \ {Creator}
    /\ Step(c, "unlistWorker")
    /\ UNCHANGED <<record, byState, overlapped, deleted, crashed>>

UnlistsWorker(c) ==
    /\ call[c].pc = "unlistWorker"
    /\ byUser' = byUser \ {call[c].old.worker}
    /\ Step(c, "done")
    /\ UNCHANGED <<record, byState, overlapped, deleted, crashed>>

\* The process dies: every call in flight stops where it is.
Crash ==
    /\ \E c \in AllCalls : InFlight(c)
    /\ call' = [c \in AllCalls |-> IF InFlight(c) THEN [Idle EXCEPT !.pc = "done"] ELSE call[c]]
    /\ crashed' = TRUE
    /\ UNCHANGED <<record, byState, byUser, overlapped, deleted>>
-----------------------------------------------------------------------------
CallStep(c) ==
    \/ Gets(c) \/ Sets(c) \/ RemovesState(c) \/ AddsState(c) \/ RemovesUser(c) \/ AddsUser(c)
    \/ DeleteGets(c) \/ Deletes(c) \/ UnlistsState(c) \/ UnlistsCreator(c) \/ UnlistsWorker(c)

Next ==
    \/ CreateSets \/ CreateAddsCreator \/ Crash
    \/ \E c \in Calls : StartCall(c, "deleteGet", NoJob) \/ \E u \in Updates : StartCall(c, "get", u)
    \/ \E c \in AllCalls : CallStep(c)

Spec == Init /\ [][Next]_vars
-----------------------------------------------------------------------------
Pcs == {"idle", "create", "addCreator", "get", "set", "remState", "addState", "remUser", "addUser",
        "deleteGet", "delete", "unlistState", "unlistCreator", "unlistWorker", "done"}

\* The record, the two indexes and what the calls carry are well formed: what
\* a call read is a whole record, never a half-written one.
TypeOK ==
    /\ record \in JobRecords \cup {NoJob}
    /\ byState \in SUBSET States
    /\ byUser \in SUBSET Users
    /\ call \in [AllCalls -> [pc : Pcs, new : Updates \cup JobRecords \cup {NoJob},
                              old : JobRecords \cup {NoJob}]]
    /\ overlapped \in BOOLEAN
    /\ deleted \in BOOLEAN
    /\ crashed \in BOOLEAN

\* However many calls interleave, a job nobody deleted is listed under some
\* state, perhaps not its own, or a call is just about to list it: only a
\* crash between sRem and sAdd can make getJobsByState lose sight of it.
ListedSomewhere ==
    record # NoJob /\ ~ deleted /\ ~ crashed =>
        \/ \E s \in States : s \in byState
        \/ \E c \in AllCalls : call[c].pc = "addState"

\* Calls that never overlap keep both indexes exact, through assignments,
\* completions by another worker, failures and deletions, as long as the
\* creator, who shares the index by principal, does not work on the job.
ExactWhenSequential ==
    /\ ~ overlapped /\ ~ crashed /\ Creator \notin Workers
    /\ \A c \in AllCalls : ~ InFlight(c)
    =>
    /\ byState = {record.state} \ {"none"}
    /\ byUser = IF record = NoJob THEN {} ELSE {Creator, record.worker} \ {None}
=============================================================================
