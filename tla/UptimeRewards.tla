---------------------------- MODULE UptimeRewards ----------------------------
(***************************************************************************)
(* How the connection time of ONE principal becomes Sela points: sessions  *)
(* and the daily record of services/uptime_tracker.ts, the sockets of      *)
(* server.ts that begin, extend and end them, and the distribution runs of *)
(* services/reward_distribution_service.ts that pay the record's           *)
(* unprocessed minutes on an external ledger.                              *)
(*                                                                         *)
(* A session's minutes are one unit, and the units of one day are in one   *)
(* daily record: records of other principals and days have keys of their   *)
(* own.  A chain is one asynchronous call; each action is one Redis or     *)
(* ledger call with the code up to the next, so a chain keeps the session  *)
(* or the record it read while others write.                               *)
(***************************************************************************)
EXTENDS Naturals, FiniteSets

CONSTANTS Sockets,        \* connections of the principal, and their sessions
          Runs,           \* distribution runs that may overlap (cron, manual trigger)
          None,           \* no session
          MaxMessages,    \* bound: messages of registered sockets
          MaxErrors,      \* bound: sockets that fail before they close
          MaxLostReplies, \* bound: ledger calls executed whose reply got lost
          MaxRestarts     \* bound: crashes of the server process

ASSUME RewardsAssumption ==
    /\ None \notin Sockets
    /\ IsFiniteSet(Runs)
    /\ {MaxMessages, MaxErrors, MaxLostReplies, MaxRestarts} \subseteq Nat

VARIABLES
    active,       \* uptime:active: the current session, or None
    completed,    \* sessions stored as COMPLETED
    daily,        \* the daily record; all zero when there is none
    uptimeReward, \* what distributions credited to the client record
    confirmed,    \* the amounts of CONFIRMED transactions
    minted,       \* what the ledger paid out
    socket,       \* socket -> whether the server's map of clients has it
    begun,        \* sessions initialised
    chain,        \* chain -> where it stands, the session and record it read
    run,          \* run -> where it stands, the record and reward it read
    disturbed,    \* chains have overlapped, or a failure has struck  (history)
    messages,     \* messages so far
    lostReplies,  \* lost replies so far
    restarts      \* crashes so far

redisVars == <<active, completed, daily, uptimeReward, confirmed>>
bounds == <<messages, lostReplies, restarts>>
vars == <<redisVars, minted, socket, begun, chain, run, disturbed, bounds>>

Register(s) == <<"register", s>>
Message(s) == <<"message", s>>
Error(s) == <<"error", s>>
Close(s) == <<"close", s>>
Chains == {"register", "message", "error", "close"} \X Sockets

NoMinutes == [total |-> 0, processed |-> 0, isProcessed |-> FALSE]
Records == [total : Nat, processed : Nat, isProcessed : BOOLEAN]
Idle == [pc |-> "idle", session |-> None, record |-> NoMinutes]
NoRun == [pc |-> "idle", record |-> NoMinutes, reward |-> 0]

Init ==
    /\ active = None
    /\ completed = {}
    /\ daily = NoMinutes
    /\ uptimeReward = 0
    /\ confirmed = 0
    /\ minted = 0
    /\ socket = [s \in Sockets |-> "absent"]
    /\ begun = {}
    /\ chain = [c \in Chains |-> Idle]
    /\ run = [r \in Runs |-> NoRun]
    /\ disturbed = FALSE
    /\ messages = 0
    /\ lostReplies = 0
    /\ restarts = 0
-----------------------------------------------------------------------------
Working ==
    \/ \E c \in Chains : chain[c].pc \notin {"idle", "done"}
    \/ \E r \in Runs : run[r].pc # "idle"

\* A chain begins; it is undisturbed only if no other is under way.
Begin(c, pc) ==
    /\ chain[c].pc = "idle"
    /\ chain' = [chain EXCEPT ![c].pc = pc]
    /\ disturbed' = (disturbed \/ Working)

\* handleNewConnection: the principal is known from the request.
Connects(s) ==
    /\ socket[s] = "absent"
    /\ socket' = [socket EXCEPT ![s] = "connected"]
    /\ UNCHANGED <<redisVars, minted, begun, chain, run, disturbed, bounds>>

\* handleRegistrationMessage up to initializeUptimeTracking, during whose login
\* the socket may have closed: whatever session was active is overwritten.
Registers(s) ==
    /\ socket[s] # "absent"
    /\ Begin(Register(s), "done")
    /\ active' = s
    /\ begun' = begun \cup {s}
    /\ UNCHANGED <<completed, daily, uptimeReward, confirmed, minted, socket, run, bounds>>

\* Any message of a registered socket is a heartbeat; it may be handled for
\* long, and updates the activity up to three times.
MessageArrives(s) ==
    /\ socket[s] = "connected"
    /\ chain[Register(s)].pc # "idle"
    /\ chain[Close(s)].pc = "idle"
    /\ messages < MaxMessages
    /\ messages' = messages + 1
    /\ Begin(Message(s), "readActive")
    /\ UNCHANGED <<redisVars, minted, socket, begun, run, lostReplies, restarts>>

\* handleClientDisconnect, which a socket in the map reaches twice when it
\* fails: on "error" and on the "close" that follows.
Disconnects(c) ==
    /\ socket[c[2]] = "connected"
    /\ c = Error(c[2]) =>
        /\ chain[Close(c[2])].pc = "idle"
        /\ Cardinality({s \in Sockets : chain[Error(s)].pc # "idle"}) < MaxErrors
    /\ Begin(c, "readActive")
    /\ UNCHANGED <<redisVars, minted, socket, begun, run, bounds>>

Forget(s) == socket' = [socket EXCEPT ![s] = "gone"]
IsMessage(c) == c[1] = "message"

\* updateClientActivity and finalizeUptimeSession: get the active session.
ReadsActive(c) ==
    /\ chain[c].pc = "readActive"
    /\ IF active # None
       THEN /\ chain' = [chain EXCEPT ![c] = [@ EXCEPT !.session = active,
                                      !.pc = IF IsMessage(c) THEN "extend" ELSE "complete"]]
            /\ UNCHANGED socket
       ELSE IF IsMessage(c)
       THEN chain' = [chain EXCEPT ![c] = Idle] /\ UNCHANGED socket
       ELSE chain' = [chain EXCEPT ![c].pc = "done"] /\ Forget(c[2])
    /\ UNCHANGED <<redisVars, minted, begun, run, disturbed, bounds>>

\* updateClientActivity: set the session it read.
Extends(c) ==
    /\ chain[c].pc = "extend"
    /\ active' = chain[c].session
    /\ chain' = [chain EXCEPT ![c] = Idle]
    /\ UNCHANGED <<completed, daily, uptimeReward, confirmed, minted, socket, begun, run,
                   disturbed, bounds>>

\* finalizeUptimeSession: the completed session is stored, under a key nobody
\* else writes, and whatever is active now is deleted.  (Mutant first: it stays.)
Removed_Never(c) == active
Removed(c) == None

Completes(c) ==
    /\ chain[c].pc = "complete"
    /\ completed' = completed \cup {chain[c].session}
    /\ active' = Removed(c)
    /\ chain' = [chain EXCEPT ![c] = [Idle EXCEPT !.pc = "readDaily"]]
    /\ UNCHANGED <<daily, uptimeReward, confirmed, minted, socket, begun, run, disturbed,
                   bounds>>

\* updateDailyUptimeRecord: get the record ...
ReadsDaily(c) ==
    /\ chain[c].pc = "readDaily"
    /\ chain' = [chain EXCEPT ![c] = [@ EXCEPT !.record = daily, !.pc = "storeDaily"]]
    /\ UNCHANGED <<redisVars, minted, socket, begun, run, disturbed, bounds>>

\* ... and set it with the session's minutes.  "Reset processed flag so updated
\* record gets redistributed".  (Mutant first: the flag stays.)
WithSession_KeepFlag(rec) == [rec EXCEPT !.total = @ + 1]
WithSession(rec) == [rec EXCEPT !.total = @ + 1, !.isProcessed = FALSE]

StoresDaily(c) ==
    /\ chain[c].pc = "storeDaily"
    /\ daily' = WithSession(chain[c].record)
    /\ chain' = [chain EXCEPT ![c] = [Idle EXCEPT !.pc = "done"]]
    /\ Forget(c[2])
    /\ UNCHANGED <<active, completed, uptimeReward, confirmed, minted, begun, run, disturbed,
                   bounds>>
-----------------------------------------------------------------------------
Unprocessed(rec) == rec.total - rec.processed
To(r, pc) == run' = [run EXCEPT ![r].pc = pc]

\* runRewardDistribution, by cron or by hand: getUnprocessedDailyRecords.  A run
\* that finds nothing ends at once.
RunReads(r) ==
    /\ run[r].pc = "idle"
    /\ ~ daily.isProcessed /\ Unprocessed(daily) > 0
    /\ run' = [run EXCEPT ![r] = [NoRun EXCEPT !.pc = "send", !.record = daily]]
    /\ disturbed' = (disturbed \/ Working)
    /\ UNCHANGED <<redisVars, minted, socket, begun, chain, bounds>>

\* sendRewardTransaction succeeded.  (Mutant first: any reply counts.)
Succeeded_Any(reply) == TRUE
Succeeded(reply) == reply = "Ok"

\* processUserReward: the ledger mints, refuses, or mints and is not heard.  A
\* transaction that did not succeed is stored as FAILED, and the run is over.
LedgerReplies(r, reply) ==
    /\ run[r].pc = "send"
    /\ reply = "lost" => lostReplies < MaxLostReplies
    /\ lostReplies' = IF reply = "lost" THEN lostReplies + 1 ELSE lostReplies
    /\ disturbed' = (disturbed \/ reply = "lost")
    /\ minted' = IF reply = "Err" THEN minted ELSE minted + Unprocessed(run[r].record)
    /\ IF Succeeded(reply) THEN To(r, "confirm") ELSE run' = [run EXCEPT ![r] = NoRun]
    /\ UNCHANGED <<redisVars, socket, begun, chain, messages, restarts>>

\* The transaction, which nobody else reads, is stored as CONFIRMED;
\* updateUserBalance: getClient ...
Confirms(r) ==
    /\ run[r].pc = "confirm"
    /\ confirmed' = confirmed + Unprocessed(run[r].record)
    /\ run' = [run EXCEPT ![r] = [@ EXCEPT !.pc = "credit", !.reward = uptimeReward]]
    /\ UNCHANGED <<active, completed, daily, uptimeReward, minted, socket, begun, chain,
                   disturbed, bounds>>

\* ... and updateClient, whose failure is not looked at.
Credits(r) ==
    /\ run[r].pc = "credit"
    /\ uptimeReward' \in {uptimeReward, run[r].reward + Unprocessed(run[r].record)}
    /\ To(r, "storeDaily")
    /\ UNCHANGED <<active, completed, daily, confirmed, minted, socket, begun, chain, disturbed,
                   bounds>>

\* "Mark all current minutes as processed", in the record read at the start.
\* (Mutant first: the minutes are added to those processed before.)
Processed_Added(rec) == [rec EXCEPT !.processed = rec.processed + rec.total, !.isProcessed = TRUE]
Processed(rec) == [rec EXCEPT !.processed = rec.total, !.isProcessed = TRUE]

StoresProcessed(r) ==
    /\ run[r].pc = "storeDaily"
    /\ daily' = Processed(run[r].record)
    /\ run' = [run EXCEPT ![r] = NoRun]
    /\ UNCHANGED <<active, completed, uptimeReward, confirmed, minted, socket, begun, chain,
                   disturbed, bounds>>
-----------------------------------------------------------------------------
\* The process dies: sockets and chains are gone, Redis and the ledger stay.
Restart ==
    /\ restarts < MaxRestarts
    /\ restarts' = restarts + 1
    /\ socket' = [s \in Sockets |-> IF socket[s] = "connected" THEN "gone" ELSE socket[s]]
    /\ chain' = [c \in Chains |->
          IF socket[c[2]] = "absent" \/ (chain[c] = Idle /\ c[1] # "register")
          THEN Idle ELSE [Idle EXCEPT !.pc = "done"]]
    /\ run' = [r \in Runs |-> NoRun]
    /\ disturbed' = TRUE
    /\ UNCHANGED <<redisVars, minted, begun, messages, lostReplies>>

ChainStep(c) ==
    \/ ReadsActive(c) \/ Extends(c) \/ Completes(c)
    \/ ReadsDaily(c) \/ StoresDaily(c)

RunStep(r) ==
    \/ RunReads(r) \/ \E reply \in {"Ok", "Err", "lost"} : LedgerReplies(r, reply)
    \/ Confirms(r) \/ Credits(r) \/ StoresProcessed(r)

Next ==
    \/ \E s \in Sockets : Connects(s) \/ Registers(s) \/ MessageArrives(s)
    \/ \E s \in Sockets, c \in Chains : c \in {Error(s), Close(s)} /\ Disconnects(c)
    \/ \E c \in Chains : ChainStep(c)
    \/ \E r \in Runs : RunStep(r)
    \/ Restart

Spec == Init /\ [][Next]_vars

\* Redis answers, cron keeps firing, and the ledger is not out of order for ever.
FairSpec ==
    /\ Spec
    /\ \A c \in Chains : WF_vars(ChainStep(c))
    /\ \A r \in Runs : WF_vars(RunStep(r)) /\ SF_vars(LedgerReplies(r, "Ok"))
-----------------------------------------------------------------------------
\* What Redis holds and what chains and runs carry between awaits is well formed.
TypeOK ==
    /\ active \in Sockets \cup {None}
    /\ completed \in SUBSET begun
    /\ daily \in Records
    /\ {uptimeReward, confirmed, minted} \subseteq Nat
    /\ socket \in [Sockets -> {"absent", "connected", "gone"}]
    /\ begun \in SUBSET Sockets
    /\ chain \in [Chains -> [pc : {"idle", "readActive", "extend", "complete",
                                   "readDaily", "storeDaily", "done"},
                             session : Sockets \cup {None}, record : Records]]
    /\ run \in [Runs -> [pc : {"idle", "send", "confirm", "credit", "storeDaily"},
                         record : Records, reward : Nat]]
    /\ disturbed \in BOOLEAN
    /\ messages \in 0 .. MaxMessages
    /\ lostReplies \in 0 .. MaxLostReplies
    /\ restarts \in 0 .. MaxRestarts

\* However finalisations and runs overwrite each other's copies, the record
\* never claims more processed minutes than it has, and its flag never hides
\* unprocessed ones: "totalReward < 0" cannot happen.
RecordConsistent ==
    /\ daily.processed <= daily.total
    /\ daily.isProcessed => daily.processed = daily.total

\* Nobody is credited, and no transaction says CONFIRMED, for points the ledger
\* did not pay: through stale balances, overlapping runs, lost replies, crashes.
CreditsConfirmed == uptimeReward <= confirmed
BackedByLedger == CreditsConfirmed /\ confirmed <= minted

\* As long as chains and runs follow each other and nothing fails, the books
\* balance: each completed session is in the record once, and what was paid is
\* what the record says is processed.
ExactWhenSerial ==
    ~ disturbed /\ ~ Working =>
        /\ daily.total = Cardinality(completed)
        /\ daily.processed = confirmed /\ confirmed = minted

\* Minutes in the record are paid in the end, whatever overlaps or fails.
MinutesArePaid ==
    Unprocessed(daily) > 0 ~> Unprocessed(daily) = 0

\* REWARD_DISTRIBUTION_SYSTEM.md: processed records are tracked "to prevent
\* double rewards": no more is paid than sessions there were.
NoDoubleReward == minted <= Cardinality(begun)
=============================================================================
