---------------------------- MODULE ClientUpdates ----------------------------
(***************************************************************************)
(* db/database.ts, updateClient: the read-modify-write of one client       *)
(* record under Redis WATCH, with its retries and its clean-up after an    *)
(* error.                                                                  *)
(*                                                                         *)
(* A Database object holds ONE Redis connection for all the calls its      *)
(* process makes, and Redis keeps WATCH state per connection: Conn says    *)
(* which call uses which.  Calls on one connection share the watch and     *)
(* its dirty flag; an EXEC or UNWATCH of one drops the watch of all.       *)
(* The connections are taken to stay up during a call.                     *)
(***************************************************************************)
EXTENDS Naturals, FiniteSets

CONSTANTS Callers,      \* calls of updateClient for one client
          Connections,  \* Redis connections
          Conn,         \* caller -> the connection of its Database object
          Statuses,     \* values of clientStatus
          None,         \* no new status among the updates
          MaxRetries    \* maxRetries

ASSUME ConnAssumption == Conn \in [Callers -> Connections]
ASSUME UpdatesAssumption == None \notin Statuses /\ MaxRetries \in Nat \ {0}

VARIABLES
    record,   \* the record: the callers whose fields it holds, and clientStatus
    index,    \* the statuses whose index lists the client
    watched,  \* connections that watch the key
    dirty,    \* watching connections whose key was changed by another one
    pc,       \* caller -> its next Redis command
    status,   \* caller -> the status it writes, or None
    read,     \* caller -> the record its GET returned
    retries,  \* caller -> retryCount
    result    \* caller -> what updateClient returned, or "none"

redisVars == <<record, index, watched, dirty>>
vars == <<redisVars, pc, status, read, retries, result>>

Records == [fields : SUBSET Callers, status : Statuses]

Init ==
    /\ record \in [fields : {{}}, status : Statuses]
    /\ index = {record.status}
    /\ watched = {}
    /\ dirty = {}
    /\ pc = [c \in Callers |-> "watch"]
    /\ status \in [Callers -> Statuses \cup {None}]
    /\ read = [c \in Callers |-> record]
    /\ retries = [c \in Callers |-> 0]
    /\ result = [c \in Callers |-> "none"]

Goto(c, label) == pc' = [pc EXCEPT ![c] = label]
-----------------------------------------------------------------------------
\* "Use Redis WATCH for optimistic locking".  (Mutant first: no WATCH.)
Watched_Never(k) == watched
Watched(k) == watched \cup {k}

Watch(c) ==
    /\ pc[c] = "watch"
    /\ watched' = Watched(Conn[c])
    /\ Goto(c, "get")
    /\ UNCHANGED <<record, index, dirty, status, read, retries, result>>

\* getClient inside the watch.
Get(c) ==
    /\ pc[c] = "get"
    /\ read' = [read EXCEPT ![c] = record]
    /\ Goto(c, "exec")
    /\ UNCHANGED <<redisVars, status, retries, result>>

\* { ...result.data, ...updates }.
Merged(c) ==
    [fields |-> read[c].fields \cup {c},
     status |-> IF status[c] = None THEN read[c].status ELSE status[c]]

\* sRem and sAdd of the status indexes, in the same transaction.  (Mutant
\* first: the entry under the old status stays.)
Reindexed_Kept(c) == index \cup {Merged(c).status}
Reindexed(c) ==
    IF Merged(c).status = read[c].status THEN index
    ELSE (index \ {read[c].status}) \cup {Merged(c).status}

\* What EXEC of connection k and an UNWATCH leave of its watch.
Unwatched(k) == watched' = watched \ {k} /\ dirty' = dirty \ {k}

\* The connections an EXEC of connection k makes dirty.
MadeDirty(k) == watched \ {k}

\* EXEC succeeds: unless this connection's watch is dirty.
ExecSucceeds(c) ==
    /\ pc[c] = "exec"
    /\ Conn[c] \notin dirty
    /\ record' = Merged(c)
    /\ index' = Reindexed(c)
    /\ watched' = watched \ {Conn[c]}
    /\ dirty' = dirty \cup MadeDirty(Conn[c])
    /\ result' = [result EXCEPT ![c] = "success"]
    /\ Goto(c, "done")
    /\ UNCHANGED <<status, read, retries>>

\* EXEC is aborted and returns null: the call backs off and tries again, as
\* long as retries are left.
Conflict(c) ==
    /\ retries' = [retries EXCEPT ![c] = @ + 1]
    /\ IF retries[c] + 1 < MaxRetries
       THEN Goto(c, "watch") /\ UNCHANGED result
       ELSE /\ Goto(c, "done")
            /\ result' = [result EXCEPT ![c] = "UpdateFailed"]

ExecAborted(c) ==
    /\ pc[c] = "exec"
    /\ Conn[c] \in dirty
    /\ Unwatched(Conn[c])
    /\ Conflict(c)
    /\ UNCHANGED <<record, index, status, read>>

\* The call gives up: its GET finds no record it can parse, or the client
\* library throws on an aborted EXEC instead of returning null.
GivesUp(c) ==
    /\ \/ pc[c] = "get" /\ UNCHANGED <<watched, dirty>>
       \/ pc[c] = "exec" /\ Conn[c] \in dirty /\ Unwatched(Conn[c])
    /\ Goto(c, "unwatch")
    /\ UNCHANGED <<record, index, status, read, retries, result>>

\* ... and unwatches the connection before it returns the error.
Unwatch(c) ==
    /\ pc[c] = "unwatch"
    /\ Unwatched(Conn[c])
    /\ result' = [result EXCEPT ![c] = "UpdateFailed"]
    /\ Goto(c, "done")
    /\ UNCHANGED <<record, index, status, read, retries>>
-----------------------------------------------------------------------------
Step(c) ==
    Watch(c) \/ Get(c) \/ ExecSucceeds(c) \/ ExecAborted(c) \/ GivesUp(c) \/ Unwatch(c)

Next == \E c \in Callers : Step(c)

Spec == Init /\ [][Next]_vars
-----------------------------------------------------------------------------
\* The record, the indexes and the calls' copies are well formed, and a call
\* never counts more retries than it has.
TypeOK ==
    /\ record \in Records
    /\ index \in SUBSET Statuses
    /\ watched \in SUBSET Connections
    /\ dirty \in SUBSET watched
    /\ pc \in [Callers -> {"watch", "get", "exec", "unwatch", "done"}]
    /\ status \in [Callers -> Statuses \cup {None}]
    /\ read \in [Callers -> Records]
    /\ retries \in [Callers -> 0 .. MaxRetries]
    /\ result \in [Callers -> {"none", "success", "UpdateFailed"}]

\* "ensure atomic update": the fields of a call that returned success are in
\* the record, whoever wrote it since; those of any other call are not.
NoLostUpdate == \A c \in Callers : result[c] = "success" <=> c \in record.fields

\* The client is listed under its own status and no other.
StatusIndexExact == index = {record.status}

\* No two calls share a connection.
Isolated == \A c, d \in Callers : Conn[c] = Conn[d] => c = d

\* With connections of their own, the calls are atomic: updateClient's WATCH,
\* GET, MULTI, EXEC and its retries are one step of AtomicUpdate, or none.
Atomic == INSTANCE AtomicUpdate

ImplementsAtomicUpdate == Atomic!Spec
=============================================================================
