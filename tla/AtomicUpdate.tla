---------------------------- MODULE AtomicUpdate ----------------------------
(***************************************************************************)
(* What "optimistic locking" of a client record is meant to give: each     *)
(* call either merges its own fields into the current record in one step,  *)
(* moving the client between the status indexes with it, or changes        *)
(* nothing.  ClientUpdates.tla implements this with Redis WATCH, GET,      *)
(* MULTI and EXEC when every call has a connection of its own.             *)
(***************************************************************************)
CONSTANTS Callers,  \* calls of updateClient
          Statuses  \* values of clientStatus

VARIABLES record,  \* the callers whose fields are in the record, and its status
          index,   \* the statuses whose index lists the client
          result   \* caller -> what it was told

avars == <<record, index, result>>

Init ==
    /\ record \in [fields : {{}}, status : Statuses]
    /\ index = {record.status}
    /\ result = [c \in Callers |-> "none"]

\* c's fields are added to the current record, with a new status or the same.
Update(c, s) ==
    /\ result[c] = "none"
    /\ record' = [fields |-> record.fields \cup {c}, status |-> s]
    /\ index' = {s}
    /\ result' = [result EXCEPT ![c] = "success"]

\* A call is given up; nothing of it is in the record.
Fail(c) ==
    /\ result[c] = "none"
    /\ result' = [result EXCEPT ![c] = "UpdateFailed"]
    /\ UNCHANGED <<record, index>>

Next == \E c \in Callers : Fail(c) \/ \E s \in Statuses : Update(c, s)

Spec == Init /\ [][Next]_avars
=============================================================================
