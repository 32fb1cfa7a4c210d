----------------------------- MODULE MCDispatch -----------------------------
(***************************************************************************)
(* One run for small instances of three components that hand jobs to       *)
(* nodes: the delivery queue, the calls of the database canister, and the  *)
(* messages of the node canister.  Where one part is at work the others    *)
(* rest.  The database canister starts with a node connected as client 1   *)
(* and a second that opened a socket as client 2; either the second is     *)
(* logged in and a job added, or neither.  The gateway restarts only while *)
(* no second client is registered.                                         *)
(***************************************************************************)
EXTENDS MCJobQueueManager, CanisterJobs, CanisterSockets

CONSTANT DcSecond

VARIABLE part

ConnectedAs(i) == [Fresh EXCEPT !.id = i]

TwoNodes ==
    /\ \E second \in {Unknown, ConnectedAs(2)} :
          /\ dcClient = [p \in DcNodes |-> IF p = DcFirst THEN ConnectedAs(1) ELSE second]
          /\ dcJob = [j \in DcJobs |-> [NoEntity EXCEPT !.state = IF second.known THEN "pending" ELSE "none"]]
    /\ dcOwner = <<DcFirst, DcSecond>>
    /\ DcResting

OneClientIfRestarted == gwRestarts = 0 \/ csKeyed \subseteq {1}

DispatchInit ==
    /\ part \in {"queue", "canister jobs", "canister sockets"}
    /\ Init /\ CsInit
    /\ IF part = "canister jobs" THEN TwoNodes ELSE DcInit

DispatchNext ==
    /\ \/ part = "queue" /\ Next /\ UNCHANGED <<dcVars, csVars>>
       \/ part = "canister jobs" /\ DcNext /\ UNCHANGED <<vars, csVars>>
       \/ part = "canister sockets" /\ CsNext /\ OneClientIfRestarted' /\ UNCHANGED <<vars, dcVars>>
    /\ UNCHANGED part

DispatchSpec == DispatchInit /\ [][DispatchNext]_<<vars, dcVars, csVars, part>>
=============================================================================
