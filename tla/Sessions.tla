------------------------------- MODULE Sessions -------------------------------
(***************************************************************************)
(* The websocket sessions of server.ts and handlers/node_websocket_        *)
(* handler.ts: how a socket is accepted, registered, heard and given up,   *)
(* what that leaves in redis_session_store.ts, in the session records and  *)
(* in the client record of its principal, and which socket a job goes to.  *)
(*                                                                         *)
(* Each frame a node sends, and each "error" and "close" event, is handled *)
(* by an asynchronous chain of its own.  An action is one Redis command    *)
(* with the code up to the next; updateClient is one step here, command by *)
(* command in ClientUpdates, and the uptime session is UptimeRewards'.     *)
(***************************************************************************)
EXTENDS Naturals, FiniteSets

CONSTANTS Sockets,      \* connections, numbered in the order they are accepted
          Principals,   \* principals of nodes
          Slots,        \* the frames a socket may send, in this order
          None,         \* absent
          Owners,       \* who the sockets may belong to
          MaxFrames,    \* bound: frames of all sockets
          MaxFaults,    \* bound: sockets that vanish, fail, or close unheard
          MaxRestarts   \* bound: crashes of the server process

Frames == {"frame"} \X Sockets \X Slots
SessionIds == Frames \X {"connect", "node", "ws", "ping"}

ASSUME SessionsAssumption ==
    /\ IsFiniteSet(Sockets) /\ Sockets \subseteq Nat /\ Slots \subseteq Nat
    /\ None \notin Sockets /\ None \notin Principals
    /\ None \notin Frames /\ None \notin SessionIds
    /\ Owners \subseteq [Sockets -> Principals]
    /\ {MaxFrames, MaxFaults, MaxRestarts} \subseteq Nat

VARIABLES
    owner,          \* socket -> the principal in its request
    hybrid,         \* the process runs HybridServer, not SelaWebSocketServer
    alive,          \* socket -> readyState is OPEN
    silent,         \* socket -> the node has vanished without a close
    stage,          \* socket -> absent, accepted, in the map of clients, gone
    session,        \* socket -> its ClientSession
    heard,          \* sockets whose first frame has come
    nextSessionId,  \* the server's counter
    lastSessionId,  \* server:last_session_id
    saved,          \* session:{id} -> the socket it was saved for, or None
    record,         \* principal -> its client record
    statusIndex,    \* principal -> the status indexes that list it
    userSessions,   \* principal -> its index of open session records
    chain,          \* chain -> the command it is suspended at
    overtaken,      \* sockets whose close or other frame came during a
                    \* registration, or during their accept        (history)
    doubted,        \* principals whose registrations overlapped, or that
                    \* said they are inactive                       (history)
    faults,         \* faults so far
    restarts        \* crashes so far

given == <<owner, hybrid>>
mapVars == <<given, alive, silent, stage, session, heard, nextSessionId>>
redisVars == <<lastSessionId, saved, record, statusIndex, userSessions>>
histories == <<overtaken, doubted>>
bounds == <<faults, restarts>>
vars == <<mapVars, redisVars, chain, histories, bounds>>

ACTIVE == "Active"
INACTIVE == "Inactive"
NoRecord == [status |-> "none", client_id |-> None]
NoSession == [id |-> 0, isRegistered |-> FALSE, clientId |-> None, wsSessionId |-> None]

Frame(s, k) == <<"frame", s, k>>
Close(s) == <<"close", s, None>>
Error(s) == <<"error", s, None>>
Chains == Frames \cup ({"close", "error"} \X Sockets \X {None})
Socket(c) == c[2]
Principal(c) == owner[Socket(c)]

Init ==
    /\ owner \in Owners
    /\ hybrid \in BOOLEAN
    /\ alive = [s \in Sockets |-> FALSE]
    /\ silent = [s \in Sockets |-> FALSE]
    /\ stage = [s \in Sockets |-> "absent"]
    /\ session = [s \in Sockets |-> NoSession]
    /\ heard = {}
    /\ nextSessionId = 1
    /\ lastSessionId = 0
    /\ saved = [i \in 1 .. Cardinality(Sockets) |-> None]
    /\ record = [p \in Principals |-> NoRecord]
    /\ statusIndex = [p \in Principals |-> {}]
    /\ userSessions = [p \in Principals |-> {}]
    /\ chain = [c \in Chains |-> "idle"]
    /\ overtaken = {}
    /\ doubted = {}
    /\ faults = 0
    /\ restarts = 0

To(c, pc) == chain' = [chain EXCEPT ![c] = pc]
Suspended(c) == chain[c] \notin {"idle", "done"}
Registering(s) ==
    \E k \in Slots : chain[Frame(s, k)] \in
        {"login", "create", "index", "activate", "loginUpdate", "connect", "connectSession",
         "save", "wsSession"}
-----------------------------------------------------------------------------
Fault == faults < MaxFaults /\ faults' = faults + 1

\* handleNewConnection up to getNextSessionId, which persists the counter.
Accepts(s) ==
    /\ stage[s] = "absent"
    /\ \A t \in Sockets : t < s => stage[t] # "absent"
    /\ stage' = [stage EXCEPT ![s] = "accepted"]
    /\ alive' = [alive EXCEPT ![s] = TRUE]
    /\ session' = [session EXCEPT ![s].id = nextSessionId]
    /\ nextSessionId' = nextSessionId + 1
    /\ lastSessionId' = nextSessionId
    /\ UNCHANGED <<given, silent, heard, saved, record, statusIndex, userSessions,
                   chain, histories, bounds>>

\* The rest of it: the session enters the map, and listeners are attached.
Listens(s) ==
    /\ stage[s] = "accepted"
    /\ stage' = [stage EXCEPT ![s] = "listening"]
    /\ UNCHANGED <<given, alive, silent, session, heard, nextSessionId, redisVars,
                   chain, histories, bounds>>

\* A close that comes before them is heard by nobody.
ClosesUnheard(s) ==
    /\ stage[s] = "accepted" /\ alive[s]
    /\ Fault
    /\ alive' = [alive EXCEPT ![s] = FALSE]
    /\ overtaken' = overtaken \cup {s}
    /\ UNCHANGED <<given, silent, stage, session, heard, nextSessionId, redisVars,
                   chain, doubted, restarts>>

\* The node's machine or network is gone; TCP has not noticed.
Vanishes(s) ==
    /\ stage[s] = "listening" /\ alive[s] /\ ~ silent[s]
    /\ Fault
    /\ silent' = [silent EXCEPT ![s] = TRUE]
    /\ UNCHANGED <<given, alive, stage, session, heard, nextSessionId, redisVars,
                   chain, histories, restarts>>

\* handleClientDisconnect, on "close" or "error", up to its first await.
Disconnects(c) ==
    /\ stage[Socket(c)] = "listening"
    /\ chain[c] = "idle"
    /\ alive' = [alive EXCEPT ![Socket(c)] = FALSE]
    /\ To(c, IF session[Socket(c)].clientId # None THEN "remove" ELSE "finalize")
    /\ overtaken' = IF Registering(Socket(c)) THEN overtaken \cup {Socket(c)} ELSE overtaken
    /\ UNCHANGED <<given, silent, stage, session, heard, nextSessionId, redisVars,
                   doubted, restarts>>

NodeCloses(s) == alive[s] /\ ~ silent[s] /\ Disconnects(Close(s)) /\ UNCHANGED faults
NodeFails(s) == alive[s] /\ Disconnects(Error(s)) /\ Fault
ClosesAfterError(s) ==
    chain[Error(s)] # "idle" /\ Disconnects(Close(s)) /\ UNCHANGED faults

\* The timer of handleNewConnection, which any first frame clears.
RegistrationTimeout(s) ==
    alive[s] /\ s \notin heard /\ Disconnects(Close(s)) /\ UNCHANGED faults

\* startHealthCheck is called by SelaWebSocketServer.start alone.  (Mutant
\* first: by no start.)
ChecksHealth_Never == FALSE
ChecksHealth == ~ hybrid

\* performHealthCheck: no frame within two minutes.
HealthCheck(s) ==
    ChecksHealth /\ alive[s] /\ silent[s] /\ Disconnects(Close(s)) /\ UNCHANGED faults

\* handleMessage: every frame before isRegistered is set is a registration.
FrameArrives(c, pc) ==
    LET s == Socket(c)
    IN  /\ stage[s] = "listening" /\ alive[s] /\ ~ silent[s]
        /\ chain[c] = "idle"
        /\ \A k \in Slots : k < c[3] => chain[Frame(s, k)] # "idle"
        /\ Cardinality({f \in Frames : chain[f] # "idle"}) < MaxFrames
        /\ (pc = "login") = ~ session[s].isRegistered
        /\ heard' = heard \cup {s}
        /\ To(c, pc)
        /\ overtaken' = IF pc = "login" /\ Registering(s) THEN overtaken \cup {s} ELSE overtaken
        /\ doubted' = IF pc = "login" /\ \E t \in Sockets : owner[t] = owner[s] /\ Registering(t)
                      THEN doubted \cup {owner[s]} ELSE doubted
        /\ UNCHANGED <<given, alive, silent, stage, session, nextSessionId, redisVars,
                       bounds>>
-----------------------------------------------------------------------------
\* updateClient: the record's status with its index entry.  (Mutant first: the
\* entry under the new status is forgotten.)
Relisted_Forgotten(p, status) ==
    IF record[p].status = status THEN statusIndex[p] ELSE statusIndex[p] \ {record[p].status}
Relisted(p, status) ==
    IF record[p].status = status THEN statusIndex[p]
    ELSE (statusIndex[p] \ {record[p].status}) \cup {status}

SetStatus(p, status, client_id) ==
    /\ record' = [record EXCEPT ![p] = [status |-> status, client_id |-> client_id]]
    /\ statusIndex' = [statusIndex EXCEPT ![p] = Relisted(p, status)]
    /\ UNCHANGED <<lastSessionId, saved, userSessions>>

\* createSession: records of their own and their entries in the user's index.
OpenSessions(c, kinds) ==
    /\ userSessions' = [userSessions EXCEPT ![Principal(c)] = @ \cup {c} \X kinds]
    /\ UNCHANGED <<lastSessionId, saved, record, statusIndex>>

\* A step of chain c that leaves sockets, jobs and histories alone.
RedisOnly == UNCHANGED <<mapVars, histories, bounds>>

\* login: getClient.  (Mutant first: a client is always created.)
LoginContinues_Create(p) == "create"
LoginContinues(p) == IF record[p] = NoRecord THEN "create" ELSE "loginUpdate"

Login(c) ==
    /\ chain[c] = "login"
    /\ To(c, LoginContinues(Principal(c)))
    /\ RedisOnly /\ UNCHANGED redisVars

\* createClient: set of the record, INACTIVE and without client_id ...
CreateClient(c) ==
    /\ chain[c] = "create"
    /\ record' = [record EXCEPT ![Principal(c)] = [status |-> INACTIVE, client_id |-> None]]
    /\ To(c, "index")
    /\ RedisOnly /\ UNCHANGED <<lastSessionId, saved, statusIndex, userSessions>>

\* ... sAdd, and the lookup of its referral code, which no session reads.
IndexClient(c) ==
    /\ chain[c] = "index"
    /\ statusIndex' = [statusIndex EXCEPT ![Principal(c)] = @ \cup {INACTIVE}]
    /\ To(c, "activate")
    /\ RedisOnly /\ UNCHANGED <<lastSessionId, saved, record, userSessions>>

\* login: updateClient of an old client or of the one just created.
Activate(c) ==
    /\ chain[c] \in {"loginUpdate", "activate"}
    /\ SetStatus(Principal(c), ACTIVE, record[Principal(c)].client_id)
    /\ To(c, "connect")
    /\ RedisOnly

\* clientConnect, from a registration or from a PING: updateClient ...
ClientConnect(c) ==
    /\ chain[c] \in {"connect", "pingConnect"}
    /\ LET id == IF chain[c] = "connect" THEN c ELSE session[Socket(c)].clientId
       IN  SetStatus(Principal(c), ACTIVE, id)
    /\ To(c, IF chain[c] = "connect" THEN "connectSession" ELSE "pingSession")
    /\ RedisOnly

\* ... and createSession, after which the socket counts as registered;
\* initializeNodeSession opens a second record, whose id nobody keeps either.
ConnectSession(c) ==
    /\ chain[c] = "connectSession"
    /\ OpenSessions(c, {"connect", "node"})
    /\ session' = [session EXCEPT ![Socket(c)] = [@ EXCEPT !.isRegistered = TRUE,
                                                           !.clientId = c]]
    /\ To(c, "save")
    /\ UNCHANGED <<given, alive, silent, stage, heard, nextSessionId, histories,
                   bounds>>

PingSession(c) ==
    /\ chain[c] = "pingSession"
    /\ OpenSessions(c, {"ping"})
    /\ To(c, "done")
    /\ RedisOnly

\* saveSession.
SaveSession(c) ==
    /\ chain[c] = "save"
    /\ saved' = [saved EXCEPT ![session[Socket(c)].id] = Socket(c)]
    /\ To(c, "wsSession")
    /\ RedisOnly /\ UNCHANGED <<lastSessionId, record, statusIndex, userSessions>>

\* wsCreateSession: the one record whose id is kept "for cleanup".
WsSession(c) ==
    /\ chain[c] = "wsSession"
    /\ OpenSessions(c, {"ws"})
    /\ session' = [session EXCEPT ![Socket(c)].wsSessionId = <<c, "ws">>]
    /\ To(c, "done")
    /\ UNCHANGED <<given, alive, silent, stage, heard, nextSessionId,
                   histories, bounds>>

\* requestAuth: frames of a client that is not ACTIVE are refused.
Authorizes(c, pc) ==
    /\ chain[c] = pc
    /\ pc \in {"ping", "setActive", "setInactive"}
    /\ To(c, IF record[Principal(c)].status # ACTIVE THEN "done"
             ELSE IF pc = "ping" THEN "pingConnect"
             ELSE IF pc = "setActive" THEN "putActive" ELSE "putInactive")
    /\ RedisOnly /\ UNCHANGED redisVars

\* handleClientStatusMessage: updateClient.
ClientStatus(c) ==
    /\ chain[c] \in {"putActive", "putInactive"}
    /\ SetStatus(Principal(c), IF chain[c] = "putActive" THEN ACTIVE ELSE INACTIVE,
                 record[Principal(c)].client_id)
    /\ To(c, "done")
    /\ doubted' = IF chain[c] = "putInactive" THEN doubted \cup {Principal(c)} ELSE doubted
    /\ UNCHANGED <<mapVars, overtaken, bounds>>
-----------------------------------------------------------------------------
\* handleClientDisconnect: removeSession ...
RemoveSession(c) ==
    /\ chain[c] = "remove"
    /\ saved' = [saved EXCEPT ![session[Socket(c)].id] = None]
    /\ To(c, IF session[Socket(c)].wsSessionId # None THEN "endWs" ELSE "finalize")
    /\ RedisOnly /\ UNCHANGED <<lastSessionId, record, statusIndex, userSessions>>

\* ... wsEndSession; cleanupNodeSession ends a session named after the
\* principal, which does not exist.  (Mutant first: the id is not kept.)
Ended_Other(s) == owner[s]
Ended(s) == session[s].wsSessionId

WsEndSession(c) ==
    /\ chain[c] = "endWs"
    /\ userSessions' = [userSessions EXCEPT ![Principal(c)] = @ \ {Ended(Socket(c))}]
    /\ To(c, "finalize")
    /\ RedisOnly /\ UNCHANGED <<lastSessionId, saved, record, statusIndex>>

\* finalizeUptimeSession; then the session leaves the map.
Forget(c) ==
    /\ chain[c] = "finalize"
    /\ stage' = [stage EXCEPT ![Socket(c)] = "gone"]
    /\ To(c, "done")
    /\ UNCHANGED <<given, alive, silent, session, heard, nextSessionId, redisVars,
                   histories, bounds>>
-----------------------------------------------------------------------------
InMap == {s \in Sockets : stage[s] = "listening"}
Registered == {s \in InMap : session[s].isRegistered}
RegisteredFor(p) == {s \in Registered : owner[s] = p}

\* findClientSessionByPrincipalId, else any registered client.  (Mutant first:
\* without the test of isRegistered.)
Candidates_Any(p) ==
    IF \E s \in InMap : owner[s] = p THEN {s \in InMap : owner[s] = p} ELSE Registered
Candidates(p) == IF RegisteredFor(p) # {} THEN RegisteredFor(p) ELSE Registered

\* sendJobToClient: the socket a job for p would be sent to now, the first in
\* the map's order, which is that of the ids; or None, which fails.  It changes
\* no session; deliveries and their failures are JobQueueManager's.
Target(p) ==
    LET first == {s \in Candidates(p) : \A t \in Candidates(p) : session[s].id <= session[t].id}
    IN  IF \E s \in first : session[s].isRegistered THEN CHOOSE s \in first : TRUE ELSE None

\* initializeSessionId, which SelaWebSocketServer.start alone calls.
RestoredId == IF hybrid THEN 1 ELSE lastSessionId + 1

\* The process dies and starts again over the same Redis.
Restart ==
    /\ restarts < MaxRestarts
    /\ restarts' = restarts + 1
    /\ alive' = [s \in Sockets |-> FALSE]
    /\ stage' = [s \in Sockets |-> IF stage[s] = "absent" THEN "absent" ELSE "gone"]
    /\ chain' = [c \in Chains |-> IF stage[Socket(c)] = "absent" THEN "idle" ELSE "done"]
    /\ nextSessionId' = RestoredId
    /\ overtaken' = overtaken \cup {s \in Sockets : stage[s] \notin {"absent", "gone"}}
    /\ UNCHANGED <<given, silent, session, heard, redisVars, doubted, faults>>
-----------------------------------------------------------------------------
RegistrationStep(c) ==
    \/ Login(c) \/ CreateClient(c) \/ IndexClient(c) \/ Activate(c) \/ ClientConnect(c)
    \/ ConnectSession(c) \/ SaveSession(c) \/ WsSession(c)
FrameStep(c) ==
    \/ \E pc \in {"ping", "setActive", "setInactive"} : Authorizes(c, pc)
    \/ PingSession(c) \/ ClientStatus(c)
DisconnectStep(c) == RemoveSession(c) \/ WsEndSession(c) \/ Forget(c)
ChainStep(c) == RegistrationStep(c) \/ FrameStep(c) \/ DisconnectStep(c)

Next ==
    \/ \E s \in Sockets :
          \/ Accepts(s) \/ Listens(s) \/ ClosesUnheard(s) \/ Vanishes(s)
          \/ NodeCloses(s) \/ NodeFails(s) \/ ClosesAfterError(s)
          \/ RegistrationTimeout(s) \/ HealthCheck(s)
    \/ \E c \in Frames, pc \in {"login", "ping", "setActive", "setInactive"} : FrameArrives(c, pc)
    \/ \E c \in Chains : ChainStep(c)
    \/ Restart

Spec == Init /\ [][Next]_vars

\* Redis answers, timers fire, and a failed socket closes; nodes owe nothing.
\* Each of these steps happens at most once for a socket or a frame, so that
\* fairness to all of them together is fairness to each.
ServerStep ==
    \/ \E s \in Sockets :
          Listens(s) \/ ClosesAfterError(s) \/ RegistrationTimeout(s) \/ HealthCheck(s)
    \/ \E c \in Chains : ChainStep(c)

FairSpec == Spec /\ WF_vars(ServerStep)
-----------------------------------------------------------------------------
Pcs == {"idle", "login", "create", "index", "activate", "loginUpdate", "connect",
        "connectSession", "save", "wsSession", "ping", "setActive",
        "setInactive", "pingConnect", "pingSession", "putActive", "putInactive", "remove",
        "endWs", "finalize", "done"}

\* Sessions, stores, records and chains are well formed.
TypeOK ==
    /\ owner \in [Sockets -> Principals]
    /\ hybrid \in BOOLEAN
    /\ alive \in [Sockets -> BOOLEAN]
    /\ silent \in [Sockets -> BOOLEAN]
    /\ stage \in [Sockets -> {"absent", "accepted", "listening", "gone"}]
    /\ session \in [Sockets -> [id : Nat, isRegistered : BOOLEAN, clientId : Frames \cup {None},
                                wsSessionId : SessionIds \cup {None}]]
    /\ heard \in SUBSET Sockets
    /\ nextSessionId \in Nat /\ lastSessionId \in Nat
    /\ saved \in [1 .. Cardinality(Sockets) -> Sockets \cup {None}]
    /\ record \in [Principals -> [status : {"none", ACTIVE, INACTIVE},
                                  client_id : Frames \cup {None}]]
    /\ statusIndex \in [Principals -> SUBSET {ACTIVE, INACTIVE}]
    /\ userSessions \in [Principals -> SUBSET SessionIds]
    /\ chain \in [Chains -> Pcs]
    /\ overtaken \in SUBSET Sockets
    /\ doubted \in SUBSET Principals
    /\ faults \in 0 .. MaxFaults
    /\ restarts \in 0 .. MaxRestarts

\* Two first logins of one principal may both create it, and the second resets
\* what the first wrote: yet once the chains of its sockets have ended,
\* getClientsByStatus finds the client under the status its record has.
StatusListed ==
    \A p \in Principals :
        /\ record[p] # NoRecord
        /\ \A c \in Chains : Principal(c) = p => ~ Suspended(c)
        /\ restarts = 0
        => record[p].status \in statusIndex[p]

\* A socket that was registered before it closed, one frame at a time, takes
\* its saved session and its own session record along.
NothingLeftBehind ==
    \A s \in Sockets : stage[s] = "gone" /\ s \notin overtaken =>
        /\ \A i \in DOMAIN saved : saved[i] # s
        /\ \A k \in Slots : <<Frame(s, k), "ws">> \notin userSessions[owner[s]]

\* sendJobToClient reports success even when the chosen socket is closed or its
\* client is refused, and then nothing is written.  That cannot happen to a node
\* whose registered sessions are open: the job goes to one of them, and the
\* client is ACTIVE, unless it said it is inactive or was registered twice at once.
JobReachesItsNode ==
    \A p \in Principals \ doubted :
        RegisteredFor(p) # {} /\ (\A s \in RegisteredFor(p) : alive[s]) =>
            /\ Target(p) \in RegisteredFor(p)
            /\ record[p].status = ACTIVE

\* A closed socket the server heard of leaves the map, so no job is sent to it
\* for ever; nor, under SelaWebSocketServer, to one that fell silent.
Lost(s) == chain[Close(s)] # "idle" \/ (~ hybrid /\ silent[s])
ClosedSocketLeaves == []<>(\A s \in Sockets : Lost(s) => stage[s] = "gone")
=============================================================================
