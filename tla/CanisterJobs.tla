----------------------------- MODULE CanisterJobs -----------------------------
(***************************************************************************)
(* The database canister: clients, jobs and the functions that the node    *)
(* and RPC canisters call in it.  A canister runs one message at a time,   *)
(* but a function that awaits another, even one of its own canister, ends  *)
(* its message there: other calls run before it goes on, with what it read *)
(* before.  A call is the list of messages it still has to run.            *)
(*                                                                         *)
(* A completed job earns one unit.  Left out: speeds, which only rank the  *)
(* nodes that could get a job, daily earnings and uptime, and the worker   *)
(* and reward in a job's record, which none of these functions reads.      *)
(***************************************************************************)
EXTENDS Naturals, Sequences, FiniteSets

CONSTANTS
    DcNodes,        \* principals
    DcFirst,        \* the one whose key is the least in clientDB
    DcJobs,
    DcNoJob,        \* jobID "" of a client
    DcCalls,        \* calls in progress at a time
    DcMaxRequests   \* bound on requests

ASSUME DcAssumption ==
    /\ DcFirst \in DcNodes /\ DcNoJob \notin DcJobs
    /\ IsFiniteSet(DcCalls) /\ DcMaxRequests \in Nat

VARIABLES
    dcClient,       \* clientDB
    dcJob,          \* jobDB
    dcCall,         \* the calls in progress
    dcOwner,        \* principals of the client ids given out, in order
    dcRequests,     \* requests made so far
    dcAssigned,     \* history: assignments to each node
    dcGranted       \* history: rewards added by hand

dcHistory == <<dcAssigned, dcGranted>>
dcVars == <<dcClient, dcJob, dcCall, dcOwner, dcRequests, dcHistory>>

\* createClientEntity; a client that never connected has wsDisconnect 0 too.
Fresh == [known |-> TRUE, id |-> 0, job |-> DcNoJob, working |-> FALSE,
          online |-> TRUE, balance |-> 0]
Unknown == [Fresh EXCEPT !.known = FALSE]

NoEntity == [state |-> "none", filed |-> FALSE]

NoCall == [todo |-> <<>>, node |-> DcFirst, job |-> DcNoJob, id |-> 0, seen |-> Unknown]

Ids(p) == {i \in DOMAIN dcOwner : dcOwner[i] = p}

InProgress(c) == dcCall[c].todo # <<>>
Runs(c, op) == InProgress(c) /\ Head(dcCall[c].todo) = op

Done(c) == dcCall' = [dcCall EXCEPT ![c] =
             IF Len(@.todo) = 1 THEN NoCall
             ELSE [@ EXCEPT !.todo = Tail(dcCall[c].todo)]]

Begins(c, call) == dcCall[c] = NoCall /\ dcCall' = [dcCall EXCEPT ![c] = call]

Call(todo, p, j, id) == [NoCall EXCEPT !.todo = todo, !.node = p, !.job = j, !.id = id]

(***************************************************************************)
(* Calls begin: what their first message reads.                            *)
(***************************************************************************)
AddJob ==
    /\ \E j \in DcJobs : /\ dcJob[j].state = "none"
                         /\ dcJob' = [dcJob EXCEPT ![j].state = "pending"]
    /\ UNCHANGED <<dcClient, dcCall, dcOwner, dcHistory>>

Login(c, p) ==
    /\ ~dcClient[p].known
    /\ Begins(c, Call(<<"put">>, p, DcNoJob, 0))
    /\ UNCHANGED <<dcClient, dcJob, dcOwner, dcHistory>>

\* ws_register, ws_open: the PING sent on opening comes back as clientConnect.
Open(c, p) ==
    /\ dcOwner' = Append(dcOwner, p)
    /\ Begins(c, Call(<<"session", "setId">>, p, DcNoJob, Len(dcOwner) + 1))
    /\ UNCHANGED <<dcClient, dcJob, dcHistory>>

Ping(c, p) ==
    /\ \E i \in Ids(p) : Begins(c, Call(<<"setId">>, p, DcNoJob, i))
    /\ UNCHANGED <<dcClient, dcJob, dcOwner, dcHistory>>

\* clientDB's scan with a filter and limit 1.  Whether the library applies
\* the filter is its own affair; without it the first client is returned.
Scanned(matching) == {p \in matching \cup {DcFirst} : dcClient[p].known}

ClientDisconnect(c) ==
    /\ \E i \in DOMAIN dcOwner :
       \E p \in Scanned({q \in DcNodes : dcClient[q].id = i}) :
          Begins(c, Call(IF dcClient[p].working THEN <<"release", "leave">> ELSE <<"leave">>,
                         p, dcClient[p].job, i))
    /\ UNCHANGED <<dcClient, dcJob, dcOwner, dcHistory>>

Assigning == <<"assign", "readSession", "work">>

\* Neither looks at the job's state, nor the second at whether the node works.
FindAndAssignJob(c, j) ==
    /\ dcJob[j].state # "none"
    /\ Begins(c, Call(<<"choose">> \o Assigning, DcFirst, j, 0))
    /\ UNCHANGED <<dcClient, dcJob, dcOwner, dcHistory>>

FindAndAssignJobToClient(c, p, j) ==
    /\ dcJob[j].state # "none"
    /\ Begins(c, Call(<<"chooseGiven">> \o Assigning, p, j, 0))
    /\ UNCHANGED <<dcClient, dcJob, dcOwner, dcHistory>>

AssignJobToClient(c, j) ==
    /\ dcJob[j].state = "pending"
    /\ \E p \in DcNodes : \E i \in Ids(p) : Begins(c, Call(Assigning, p, j, i))
    /\ UNCHANGED <<dcClient, dcJob, dcOwner, dcHistory>>

ResendJob(c, j) ==
    LET holders == Scanned({q \in DcNodes : dcClient[q].job = j}) IN
    /\ dcJob[j].state # "none"
    /\ \/ \E p \in holders : Begins(c, Call(<<"leave", "release", "choose">> \o Assigning,
                                            p, j, dcClient[p].id))
       \/ /\ \A q \in DcNodes : dcClient[q].job # j
          /\ Begins(c, Call(<<"choose">> \o Assigning, DcFirst, j, 0))
    /\ UNCHANGED <<dcClient, dcJob, dcOwner, dcHistory>>

\* The record is kept as read here until the call pays.
Accepts(p, i) ==
    /\ dcClient[p].id = i
    /\ dcClient[p].job # DcNoJob
    /\ dcJob[dcClient[p].job].state = "ongoing"

UpdateJobCompleted(c, p) ==
    /\ \E i \in Ids(p) :
          /\ Accepts(p, i)
          /\ Begins(c, [Call(<<"complete", "file", "pay">>, p, dcClient[p].job, i)
                           EXCEPT !.seen = dcClient[p]])
    /\ UNCHANGED <<dcClient, dcJob, dcOwner, dcHistory>>

AddRewardsToDB(p) ==
    /\ dcClient[p].known
    /\ dcClient' = [dcClient EXCEPT ![p].balance = @ + 1]
    /\ dcGranted' = [dcGranted EXCEPT ![p] = @ + 1]
    /\ UNCHANGED <<dcJob, dcCall, dcOwner, dcAssigned>>

(***************************************************************************)
(* The messages calls run in turn.  One that looks for a client that is    *)
(* not there changes nothing, and its caller goes on or gives up.          *)
(***************************************************************************)
AddClientToDB(c) ==
    LET p == dcCall[c].node IN
    /\ Runs(c, "put")
    /\ dcClient' = [dcClient EXCEPT ![p] = Fresh]
    /\ Done(c)
    /\ UNCHANGED <<dcJob, dcOwner, dcHistory>>

\* The fields each message writes, and no others.
SessionCreated(old) == [old EXCEPT !.online = TRUE]
ClientIDUpdated(old, i) ==
    [old EXCEPT !.id = i, !.job = DcNoJob, !.working = FALSE, !.online = TRUE]
Left(old, i) == [ClientIDUpdated(old, i) EXCEPT !.online = FALSE]
Assigned(old, call) ==
    [old EXCEPT !.id = call.id, !.job = call.job, !.working = TRUE, !.online = call.seen.online]

UpdateClientState(c) ==
    LET call == dcCall[c]
        old == dcClient[call.node]
        new == CASE Runs(c, "session") -> SessionCreated(old)
                 [] Runs(c, "setId") -> ClientIDUpdated(old, call.id)
                 [] Runs(c, "leave") -> Left(old, call.id)
                 [] Runs(c, "work") -> Assigned(old, call) IN
    /\ \E op \in {"session", "setId", "leave", "work"} : Runs(c, op)
    /\ \/ /\ old.known
          /\ dcClient' = [dcClient EXCEPT ![call.node] = new]
          /\ Done(c)
       \/ /\ ~old.known
          /\ IF Runs(c, "work") THEN dcCall' = [dcCall EXCEPT ![c].todo = <<"release">>]
                                ELSE Done(c)
          /\ UNCHANGED dcClient
    /\ UNCHANGED <<dcJob, dcOwner, dcHistory>>

Eligible(p) == dcClient[p].known /\ dcClient[p].online /\ ~dcClient[p].working

Chooses(c, p) ==
    dcCall' = [dcCall EXCEPT ![c] = [@ EXCEPT !.todo = Tail(dcCall[c].todo), !.node = p,
                                              !.id = dcClient[p].id]]
GivesUp(c) == dcCall' = [dcCall EXCEPT ![c] = NoCall]

GetOptimalNode(c) ==
    /\ Runs(c, "choose")
    /\ \/ \E p \in DcNodes : Eligible(p) /\ Chooses(c, p)
       \/ (\A p \in DcNodes : ~Eligible(p)) /\ GivesUp(c)
    /\ UNCHANGED <<dcClient, dcJob, dcOwner, dcHistory>>

GetOptimalClient(c) ==
    /\ Runs(c, "chooseGiven")
    /\ IF dcClient[dcCall[c].node].known THEN Chooses(c, dcCall[c].node) ELSE GivesUp(c)
    /\ UNCHANGED <<dcClient, dcJob, dcOwner, dcHistory>>

ReadSession(c) ==
    /\ Runs(c, "readSession")
    /\ dcCall' = [dcCall EXCEPT ![c] =
           [@ EXCEPT !.todo = Tail(dcCall[c].todo),
                     !.seen = [Unknown EXCEPT !.online = dcClient[dcCall[c].node].online]]]
    /\ UNCHANGED <<dcClient, dcJob, dcOwner, dcHistory>>

\* Whatever state the job is in.
UpdateJobState(c) ==
    /\ \/ Runs(c, "release") /\ dcJob' = [dcJob EXCEPT ![dcCall[c].job].state = "pending"]
       \/ Runs(c, "complete") /\ dcJob' = [dcJob EXCEPT ![dcCall[c].job].state = "completed"]
    /\ Done(c)
    /\ UNCHANGED <<dcClient, dcOwner, dcHistory>>

UpdateJobWithStoredFileId(c) ==
    /\ Runs(c, "file")
    /\ dcJob' = [dcJob EXCEPT ![dcCall[c].job].filed = TRUE]
    /\ Done(c)
    /\ UNCHANGED <<dcClient, dcOwner, dcHistory>>

AssignJob(c) ==
    LET p == dcCall[c].node IN
    /\ Runs(c, "assign")
    /\ dcJob' = [dcJob EXCEPT ![dcCall[c].job].state = "ongoing"]
    /\ dcAssigned' = [dcAssigned EXCEPT ![p] = @ + 1]
    /\ Done(c)
    /\ UNCHANGED <<dcClient, dcOwner, dcGranted>>

\* The balance was read when the call began, and its job is taken off.
\* (Mutant first: the balance is read again, so that an answer is paid twice.)
Paid_Fresh(c) == [dcClient[dcCall[c].node] EXCEPT !.job = DcNoJob, !.working = FALSE, !.balance = @ + 1]
Paid(c) == [dcClient[dcCall[c].node] EXCEPT !.job = DcNoJob, !.working = FALSE,
                                            !.balance = dcCall[c].seen.balance + 1]

UpdateClientStateWithRewards(c) ==
    LET p == dcCall[c].node IN
    /\ Runs(c, "pay")
    /\ dcClient' = [dcClient EXCEPT ![p] = Paid(c)]
    /\ Done(c)
    /\ UNCHANGED <<dcJob, dcOwner, dcHistory>>

DcResting ==
    /\ dcCall = [c \in DcCalls |-> NoCall] /\ dcRequests = 0
    /\ dcAssigned = [p \in DcNodes |-> 0] /\ dcGranted = [p \in DcNodes |-> 0]

DcInit ==
    /\ dcClient = [p \in DcNodes |-> Unknown]
    /\ dcJob = [j \in DcJobs |-> NoEntity]
    /\ dcOwner = <<>>
    /\ DcResting

\* Frames that reach the node canister, and its opening and closing of sockets.
SocketRequest(c) ==
    \/ \E p \in DcNodes : Open(c, p) \/ Ping(c, p) \/ UpdateJobCompleted(c, p)
    \/ ClientDisconnect(c)

\* Requests over HTTP, to the RPC canister or the node canister.
HttpRequest(c) ==
    \/ \E p \in DcNodes : Login(c, p)
    \/ \E j \in DcJobs : FindAndAssignJob(c, j) \/ AssignJobToClient(c, j) \/ ResendJob(c, j)
    \/ \E p \in DcNodes, j \in DcJobs : FindAndAssignJobToClient(c, p, j)

DcMessage(c) ==
    \/ AddClientToDB(c) \/ UpdateClientState(c) \/ UpdateClientStateWithRewards(c)
    \/ GetOptimalNode(c) \/ GetOptimalClient(c) \/ ReadSession(c) \/ AssignJob(c)
    \/ UpdateJobState(c) \/ UpdateJobWithStoredFileId(c)

DcNext ==
    \/ /\ dcRequests < DcMaxRequests
       /\ dcRequests' = dcRequests + 1
       /\ \/ \E c \in DcCalls : SocketRequest(c) \/ HttpRequest(c)
          \/ AddJob
          \/ \E p \in DcNodes : AddRewardsToDB(p)
    \/ /\ \E c \in DcCalls : DcMessage(c)
       /\ UNCHANGED dcRequests

DcSpec == DcInit /\ [][DcNext]_dcVars

(***************************************************************************)
(* Properties.                                                             *)
(***************************************************************************)
\* However results, disconnects, reconnects and reassignments overlap, a node
\* is paid at most once for every assignment, and what was added by hand.
PaidPerAssignment ==
    \A p \in DcNodes : dcClient[p].balance <= dcAssigned[p] + dcGranted[p]
=============================================================================
