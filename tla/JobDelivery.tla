---------------------------- MODULE JobDelivery ----------------------------
(***************************************************************************)
(* What the job queue of the websocket server promises, without its data   *)
(* structures: every accepted job is queued, handed to the transport a     *)
(* bounded number of times, never two jobs of one client at once, and ends *)
(* delivered, dropped, or removed by an operator's "clear".                *)
(* JobQueueManager.tla implements this specification.                      *)
(***************************************************************************)
EXTENDS Naturals

CONSTANTS Jobs,       \* job ids
          Clients,    \* client ids of worker nodes
          NoClient,   \* owner of a job nobody queued yet
          MaxTries    \* how often one job may be handed to the transport

VARIABLES stage,      \* where a job stands
          owner,      \* the client a job was queued for
          tries       \* how often the job was handed to the transport

avars == <<stage, owner, tries>>

Stages == {"new", "refused", "queued", "sending", "delivered", "dropped", "cleared"}

AbsTypeOK ==
    /\ stage \in [Jobs -> Stages]
    /\ owner \in [Jobs -> Clients \cup {NoClient}]
    /\ tries \in [Jobs -> 0 .. MaxTries]

Init ==
    /\ stage = [j \in Jobs |-> "new"]
    /\ owner = [j \in Jobs |-> NoClient]
    /\ tries = [j \in Jobs |-> 0]

Sending(c) == {j \in Jobs : owner[j] = c /\ stage[j] = "sending"}

\* A job is refused: the client's queue is full.
Refuse(j, c) ==
    /\ stage[j] = "new"
    /\ stage' = [stage EXCEPT ![j] = "refused"]
    /\ owner' = [owner EXCEPT ![j] = c]
    /\ UNCHANGED tries

\* A job joins the queue of a client whose transport is busy.
Accept(j, c) ==
    /\ stage[j] = "new"
    /\ stage' = [stage EXCEPT ![j] = "queued"]
    /\ owner' = [owner EXCEPT ![j] = c]
    /\ UNCHANGED tries

\* A job joins the queue of an idle client; the first queued job goes out.
AcceptAndSend(j, c, k) ==
    /\ stage[j] = "new"
    /\ Sending(c) = {}
    /\ k = j \/ (owner[k] = c /\ stage[k] = "queued")
    /\ tries[k] < MaxTries
    /\ stage' = [[stage EXCEPT ![j] = "queued"] EXCEPT ![k] = "sending"]
    /\ owner' = [owner EXCEPT ![j] = c]
    /\ tries' = [tries EXCEPT ![k] = @ + 1]

\* The next queued job of a client goes out.
Send(k) ==
    /\ stage[k] = "queued"
    /\ Sending(owner[k]) = {}
    /\ tries[k] < MaxTries
    /\ stage' = [stage EXCEPT ![k] = "sending"]
    /\ tries' = [tries EXCEPT ![k] = @ + 1]
    /\ UNCHANGED owner

\* The transport answered for a job that was out.
Sent(k) ==
    /\ stage[k] = "sending"
    /\ stage' = [stage EXCEPT ![k] = "delivered"]
    /\ UNCHANGED <<owner, tries>>

\* The transport failed or was silent: the job is queued again, or dropped
\* when its tries are used up.
Failed(k) ==
    /\ stage[k] = "sending"
    /\ stage' = [stage EXCEPT ![k] = IF tries[k] < MaxTries THEN "queued" ELSE "dropped"]
    /\ UNCHANGED <<owner, tries>>

\* An operator clears a client's queue. A job that is out stays out.
Clear(c, gone) ==
    /\ \A j \in gone : owner[j] = c /\ stage[j] = "queued"
    /\ stage' = [j \in Jobs |-> IF j \in gone THEN "cleared" ELSE stage[j]]
    /\ UNCHANGED <<owner, tries>>

Next ==
    \/ \E gone \in SUBSET Jobs, c \in Clients : Clear(c, gone)
    \/ \E j \in Jobs, c \in Clients : Refuse(j, c) \/ Accept(j, c)
    \/ \E j, k \in Jobs, c \in Clients : AcceptAndSend(j, c, k)
    \/ \E k \in Jobs : Send(k) \/ Sent(k) \/ Failed(k)

Spec == Init /\ [][Next]_avars
=============================================================================
